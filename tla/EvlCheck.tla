------------------------------ MODULE EvlCheck ------------------------------
(***************************************************************************)
(* 'evl check' (utils/evl-check.c): the assertions of a check list, in the *)
(* grammar of utils/kconf-checklist.evl, are tested on the configuration   *)
(* of a kernel.  Words are model values: the lexical analysis, whose       *)
(* tokens are names and single characters, is not modelled.                *)
(***************************************************************************)
EXTENDS Integers, SequencesExt

CONSTANTS
    Symbols,       \* configuration symbols, CONFIG_*
    ConfigLines,   \* lines a configuration may have
    Assertions,    \* what the lines of a check list say
    Archs,         \* arguments of -a, in their own words, and "none"
    MaxConfig,     \* bound: lines of a configuration
    MaxChecks      \* bound: lines of a check list

EvlCheckConstants ==
    /\ \A l \in ConfigLines : l.is = "setting" => l.sym \in Symbols \cup {"not CONFIG_"}
    /\ MaxConfig \in Nat /\ MaxChecks \in Nat

VARIABLES
    stage,      \* "config", "list", or "done"
    config,     \* the lines which were read of the configuration
    table,      \* the hash table: the value of a symbol, "n" if it is not in
    arch,       \* the architecture assumed
    checklist,  \* the assertions which were read
    failed,     \* how many of them have failed
    error       \* the check list is refused

NotSet == "n"

EvlCheckInit ==
    /\ stage = "config" /\ config = <<>> /\ table = [s \in Symbols |-> NotSet]
    /\ arch = "none" /\ checklist = <<>> /\ failed = 0 /\ error = FALSE

-----------------------------------------------------------------------------
Alias(a) == CASE a = "arm64" -> "aarch64" [] a = "arm" -> "aarch32" [] OTHER -> a

(* A name in a check list stands for the architectures which it begins.    *)
Begins(a, name) == a = name \/ (a = "aarch" /\ name \in {"aarch64", "aarch32"})

(* hash_config(): the first setting of a symbol to y or m counts; the last *)
(* header tells the architecture.                                          *)
HashConfig ==
    /\ stage = "config" /\ Len(config) < MaxConfig
    /\ \E l \in ConfigLines :
           /\ config' = Append(config, l)
           /\ arch' = IF l.is = "header" THEN l.val ELSE arch
           /\ table' = IF l.is = "setting" /\ l.sym \in Symbols /\ l.val \in {"y", "m"} /\ table[l.sym] = NotSet
                       THEN [table EXCEPT ![l.sym] = l.val] ELSE table
    /\ UNCHANGED <<stage, checklist, failed, error>>

(* main(): -a comes first, then the header of the configuration, then the  *)
(* running machine, whose name is not an alias.                            *)
OpenList ==
    /\ stage = "config" /\ stage' = "list"
    /\ \E option \in Archs \cup {"none"}, machine \in {"x86_64", "aarch64"} :
           arch' = IF option # "none" THEN Alias(option) ELSE IF arch # "none" THEN Alias(arch) ELSE machine
    /\ UNCHANGED <<config, table, checklist, failed, error>>

-----------------------------------------------------------------------------
(* The words of a line of the check list. *)
Words(a) ==
    (IF a.no THEN <<"!">> ELSE <<>>) \o <<a.sym>>
        \o (IF a.val = "any" THEN <<>> ELSE <<"=", a.val>>)
        \o (IF a.cond = "none" THEN <<>> ELSE <<"if">> \o (IF a.notcond THEN <<"!">> ELSE <<>>) \o <<a.cond>>)
        \o (IF a.on = "none" THEN <<>> ELSE <<"on", a.on>>)

(* next_token(): an empty word at the end of the line. *)
Token(w, i) == IF i \in DOMAIN w THEN w[i] ELSE ""

(* The steps of apply_checklist() on a line: each is given the words and   *)
(* the place it has got to.                                                *)
Negation(w) == Token(w, 1) = "!"
SymAt(w) == IF Negation(w) THEN 2 ELSE 1
Valued(w) == Token(w, SymAt(w) + 1) = "="
IfAt(w) == SymAt(w) + (IF Valued(w) THEN 3 ELSE 1)
Conditional(w) == Token(w, IfAt(w)) = "if"
CondNegated(w) == Conditional(w) /\ Token(w, IfAt(w) + 1) = "!"
CondAt(w) == IfAt(w) + (IF CondNegated(w) THEN 2 ELSE 1)
OnAt(w) == IF Conditional(w) THEN CondAt(w) + 1 ELSE IfAt(w)

BadSymbol(w) ==
    Token(w, SymAt(w)) \notin Symbols \/ (Conditional(w) /\ Token(w, CondAt(w)) \notin Symbols)

Skipped(w) ==
    \/ Conditional(w) /\ (table[Token(w, CondAt(w))] # NotSet) = CondNegated(w)
    \/ Token(w, OnAt(w)) = "on" /\ ~ Begins(Alias(Token(w, OnAt(w) + 1)), arch)

(* Mutant: "=n" does not negate the assertion. *)
FailsAsSet(w) ==
    LET e == table[Token(w, SymAt(w))]
    IN IF e # NotSet THEN Negation(w) \/ (Valued(w) /\ e # Token(w, SymAt(w) + 2)) ELSE ~ Negation(w)

(* An assertion on a symbol which is not set, or "n", is negated. *)
Fails(w) ==
    LET e == table[Token(w, SymAt(w))]
        val == Token(w, SymAt(w) + 2)
        not == Negation(w) # (Valued(w) /\ val = "n")
    IN IF e # NotSet THEN not \/ (Valued(w) /\ e # val) ELSE ~ not

ApplyChecklist ==
    /\ stage = "list" /\ ~ error /\ Len(checklist) < MaxChecks
    /\ \E a \in Assertions : LET w == Words(a) IN
           /\ checklist' = Append(checklist, a)
           /\ error' = BadSymbol(w)
           /\ failed' = IF ~ BadSymbol(w) /\ ~ Skipped(w) /\ Fails(w) THEN failed + 1 ELSE failed
    /\ UNCHANGED <<stage, config, table, arch>>

EvlCheckNext == HashConfig \/ OpenList \/ ApplyChecklist

-----------------------------------------------------------------------------
(* What the settings say of a symbol: the first which sets it to y or m.   *)
Setting(s) ==
    LET sets == SelectSeq(config, LAMBDA l : l.is = "setting" /\ l.sym = s /\ l.val \in {"y", "m"})
    IN IF sets = <<>> THEN NotSet ELSE Head(sets).val

(* The meaning of an assertion as the grammar of the check list gives it:  *)
(* a symbol alone matches y and m, "!" negates.                            *)
Applies(a) ==
    /\ a.cond = "none" \/ ((Setting(a.cond) # NotSet) # a.notcond)
    /\ a.on = "none" \/ Begins(Alias(a.on), arch)
Meant(a) == (IF a.val = "any" THEN Setting(a.sym) # NotSet ELSE Setting(a.sym) = a.val) # a.no

Violated(a) == Applies(a) /\ ~ Meant(a)

(* An assertion which both negates and gives a value, as the grammar has   *)
(* it, is more than that for apply_checklist(): the symbol may not be set  *)
(* to another value either.                                                *)
TooStrict(a) == a.no /\ a.val # "any" /\ Applies(a) /\ Setting(a.sym) \notin {NotSet, a.val}

(* As many assertions fail as are violated, and those which are taken too  *)
(* strictly (apply_checklist()): no violation goes unnoticed, and "!SYM=y" *)
(* fails on SYM=m, "!SYM=n" on any configuration.                          *)
ChecksAreTrue ==
    ~ error => failed = Len(SelectSeq(checklist, LAMBDA a : Violated(a) \/ TooStrict(a)))
=============================================================================
