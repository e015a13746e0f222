----------------------------- MODULE VdsoParser -----------------------------
(***************************************************************************)
(* The parser of the vDSO (lib/parse_vdso.c), from which libevl gets the   *)
(* clock readers: it looks for the tables of the image, then for functions *)
(* by name and version along the chains of a hash table of either style.   *)
(* The tables are those a linker builds for the symbols of the image; the  *)
(* values of the hash functions are given, modulo small numbers.           *)
(***************************************************************************)
EXTENDS Integers, Sequences

CONSTANTS
    VdsoImages,   \* images the kernel may map
    VdsoNames,    \* names which are looked up
    VdsoVersions, \* versions which are looked up
    HashOf,       \* the hash of each name
    NBuckets      \* buckets of the hash table

VdsoConstants ==
    /\ NBuckets \in Nat \ {0} /\ HashOf \in [VdsoNames -> Nat]
    /\ \A img \in VdsoImages : \A i \in DOMAIN img.symtab : img.symtab[i].name \in VdsoNames

VARIABLES
    image,   \* the image of the process
    vdso,    \* vdso_info: what was found of it
    wanted,  \* the function which is looked up
    at,      \* the symbol which is checked next, 0 for none
    found,   \* where the function is, 0 for nowhere
    exited   \* error(1, ...) ended the process

NotParsed == [parsed |-> FALSE, valid |-> FALSE, gnu |-> FALSE, versym |-> FALSE]
NoImage == [mapped |-> FALSE, segments |-> {}, tables |-> {}, symtab |-> <<>>, verdef |-> <<>>]
NoRequest == [name |-> "none", version |-> "none"]
NotFound == 0

VdsoInit ==
    /\ image = NoImage /\ vdso = NotParsed /\ wanted = NoRequest
    /\ at = 0 /\ found = NotFound /\ exited = FALSE

-----------------------------------------------------------------------------
(* parse_vdso() and vdso_init_from_sysinfo_ehdr(): a loadable segment, a   *)
(* dynamic one, the names, the symbols and a hash table must be there; the *)
(* versions of symbols are not looked at without their definitions.  This  *)
(* is done once (evl_init_vdso()).  The kernel may map no vDSO.            *)
ParseVdso ==
    /\ ~ exited /\ ~ vdso.parsed
    /\ \E img \in VdsoImages :
           /\ image' = img /\ exited' = ~ img.mapped
           /\ vdso' = [parsed |-> img.mapped,
                       valid  |-> /\ img.segments = {"load", "dynamic"}
                                  /\ {"strtab", "symtab"} \subseteq img.tables
                                  /\ img.tables \cap {"hash", "gnu_hash"} # {},
                       gnu    |-> "gnu_hash" \in img.tables,
                       versym |-> {"versym", "verdef"} \subseteq img.tables]
    /\ UNCHANGED <<wanted, at, found>>

-----------------------------------------------------------------------------
(* The tables of the linker: that of the GNU style has only the symbols    *)
(* which are defined, those of a bucket next to each other, the last one   *)
(* marked in the low bit of its hash.                                      *)
Entries == DOMAIN image.symtab
Hashed == {i \in Entries : vdso.gnu => image.symtab[i].defined}
Bucket(name) == HashOf[name] % NBuckets
Chain(name) == {i \in Hashed : Bucket(image.symtab[i].name) = Bucket(name)}
First(S) == IF S = {} THEN 0 ELSE CHOOSE i \in S : \A j \in S : i <= j
After(i) == First({j \in Chain(image.symtab[i].name) : j > i})
EndOfChain(i) == After(i) = 0
SameHash(name, i) == HashOf[name] \div 2 = HashOf[image.symtab[i].name] \div 2

(* Mutant: bit 15 of a version, for hidden, is not masked. *)
MatchVersionUnmasked(i, version) ==
    \E d \in DOMAIN image.verdef :
        /\ ~ image.verdef[d].base /\ image.verdef[d].ndx = image.symtab[i].ndx /\ ~ image.symtab[i].hidden
        /\ image.verdef[d].name = version

(* vdso_match_version(): the first definition of that index which is not   *)
(* the base one.                                                           *)
MatchVersion(i, version) ==
    LET defs == {d \in DOMAIN image.verdef : ~ image.verdef[d].base /\ image.verdef[d].ndx = image.symtab[i].ndx}
    IN defs # {} /\ image.verdef[First(defs)].name = version

(* check_sym(): a function, global or weak, of that name and version. *)
CheckSym(i) ==
    /\ image.symtab[i].type = "func" /\ image.symtab[i].bind \in {"global", "weak"}
    /\ image.symtab[i].name = wanted.name
    /\ vdso.versym => MatchVersion(i, wanted.version)

(* evl_lookup_vdso(): the chain of the bucket of the name.  The caller,    *)
(* evl_request_vdso(), exits when nothing is found.                        *)
Lookup ==
    /\ vdso.parsed /\ ~ exited /\ wanted = NoRequest
    /\ \E n \in VdsoNames, v \in VdsoVersions :
           /\ wanted' = [name |-> n, version |-> v]
           /\ at' = IF vdso.valid THEN First(Chain(n)) ELSE 0
    /\ UNCHANGED <<image, vdso, found, exited>>

(* One symbol of the chain, in the loop of either style. *)
Probe ==
    /\ at # 0 /\ found = NotFound
    /\ LET match == /\ IF vdso.gnu THEN SameHash(wanted.name, at) ELSE image.symtab[at].defined
                    /\ CheckSym(at)
       IN /\ found' = IF match THEN at ELSE found
          /\ at' = IF match \/ EndOfChain(at) THEN 0 ELSE After(at)
    /\ UNCHANGED <<image, vdso, wanted, exited>>

Request ==
    /\ wanted # NoRequest /\ at = 0 /\ ~ exited
    /\ IF found = NotFound THEN exited' = TRUE /\ UNCHANGED <<wanted, found>>
       ELSE wanted' = NoRequest /\ found' = NotFound /\ UNCHANGED exited
    /\ UNCHANGED <<image, vdso, at>>

VdsoNext == ParseVdso \/ Lookup \/ Probe \/ Request

-----------------------------------------------------------------------------
(* The functions of the image which have this name and version. *)
Functions ==
    {i \in Entries :
        LET s == image.symtab[i]
        IN /\ s.defined /\ s.type = "func" /\ s.bind # "local" /\ s.name = wanted.name
           /\ {"versym", "verdef"} \subseteq image.tables =>
                  \E d \in DOMAIN image.verdef :
                      image.verdef[d] = [ndx |-> s.ndx, base |-> FALSE, name |-> wanted.version]}

(* A look-up finds a function of that name and version, and the process    *)
(* does not go on without one (evl_request_vdso()).                        *)
LookupIsTrue ==
    wanted # NoRequest /\ at = 0 =>
        IF vdso.valid /\ Functions # {} THEN found \in Functions ELSE found = NotFound
=============================================================================
