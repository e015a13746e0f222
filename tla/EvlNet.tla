------------------------------- MODULE EvlNet -------------------------------
(***************************************************************************)
(* 'evl net' (utils/evl-net.c) and the network services of the library     *)
(* (lib/net.c): the requests of a command line are sent to the core in a   *)
(* fixed order, each through files which are opened for it.  The core may  *)
(* refuse any of them; the first refusal ends the program.                 *)
(***************************************************************************)
EXTENDS SequencesExt

CONSTANT Modules   \* arguments of -F: "none", or what the file is

EvlNetConstants == Modules \subseteq {"none", "filter", "empty", "garbage"}

VARIABLES
    command,    \* what the options ask for
    todo,       \* the requests which are left
    call,       \* where the first of them has got to
    files,      \* the files which are open
    refused,    \* the exit status is 1
    port,       \* the interface has an out-of-band port
    filter,     \* the filter of the interface
    vlans,      \* the VLAN filter was written
    neighbour   \* the core knows the address of the host

evlNetVars == <<command, todo, call, files, refused, port, filter, vlans, neighbour>>

Requests == <<"disable", "enable", "filter", "vlans", "show", "solicit", "query">>
OnPort == {"disable", "enable", "filter", "query"}

EvlNetInit ==
    /\ command = [wants |-> {}, netif |-> FALSE, module |-> "none"] /\ todo = {} /\ call = "options"
    /\ files = {} /\ refused = FALSE
    /\ port \in BOOLEAN /\ filter = "old" /\ vlans = FALSE /\ neighbour = FALSE

core == <<port, filter, vlans, neighbour>>

Refuse == refused' = TRUE /\ call' = "over" /\ UNCHANGED <<command, todo>>
Goto(step) == call' = step /\ UNCHANGED <<command, todo, refused>>

(* main(): something must be asked for, on an interface if it needs one;   *)
(* the library may fail to initialize.                                     *)
Options ==
    /\ call = "options"
    /\ \E w \in SUBSET ToSet(Requests), n \in BOOLEAN, m \in Modules :
           /\ command' = [wants |-> w, netif |-> n, module |-> m]
           /\ todo' = w
           /\ refused' \in {TRUE, w = {} \/ (w \cap OnPort # {} /\ ~ n)}
           /\ call' = IF refused' THEN "over" ELSE "open"
    /\ UNCHANGED <<files, core>>

(* The requests are made in the order of main(). *)
Now ==
    LET left == {i \in DOMAIN Requests : Requests[i] \in todo}
    IN IF left = {} THEN "nothing" ELSE Requests[Min(left)]

(* The end of a service, with the files it has closed. *)
Return(closed) ==
    /\ files' = files \ closed /\ todo' = todo \ {Now}
    /\ call' = IF todo = {Now} THEN "over" ELSE "open"
    /\ UNCHANGED <<command, refused>>

(* The first file a service opens. *)
Open ==
    /\ call = "open" /\ UNCHANGED core
    /\ \/ Refuse /\ UNCHANGED files
       \/ /\ Goto("serve")
          /\ files' = {CASE Now \in OnPort -> "device" [] Now \in {"vlans", "show"} -> "vlans" [] Now = "solicit" -> "socket"}

-----------------------------------------------------------------------------
(* evl_net_enable_port() closes the device in any case; so does the        *)
(* program with the port.                                                  *)
EnablePort ==
    /\ call = "serve" /\ Now = "enable"
    /\ \/ Refuse /\ files' = {} /\ UNCHANGED core
       \/ Return({"device"}) /\ port' = TRUE /\ UNCHANGED <<filter, vlans, neighbour>>

(* Mutant: the device is left open when the interface has no port. *)
OpenPortLeaks ==
    /\ call = "serve" /\ Now \in {"disable", "filter", "query"} /\ UNCHANGED core
    /\ \/ Refuse /\ UNCHANGED files
       \/ port /\ files' = {"port"} /\ Goto("request")

(* evl_net_open_port(): there is one in out-of-band interfaces only. *)
OpenPort ==
    /\ call = "serve" /\ Now \in {"disable", "filter", "query"} /\ UNCHANGED core
    /\ \/ Refuse /\ files' = {}
       \/ port /\ files' = {"port"} /\ Goto("request")

(* evl_net_disable_port(): what becomes of the filter is up to the core.   *)
(* query_oob_port() may refuse its argument after it has closed the port.  *)
DisablePort ==
    /\ call = "request" /\ Now = "disable"
    /\ \/ Refuse /\ UNCHANGED <<files, core>>
       \/ Return({"port"}) /\ port' = FALSE /\ filter' \in {"none", filter} /\ UNCHANGED <<vlans, neighbour>>

QueryPort ==
    /\ call = "request" /\ Now = "query" /\ UNCHANGED core
    /\ (Refuse /\ files' \in {files, {}}) \/ Return({"port"})

(* evl_net_set_filter(): no module uninstalls the filter, one which loads  *)
(* is installed by its first program, if it has any.                       *)
RemoveFilter ==
    /\ call = "request" /\ Now = "filter" /\ command.module = "none"
    /\ \/ Refuse /\ UNCHANGED <<files, core>>
       \/ Return({"port"}) /\ filter' = "none" /\ UNCHANGED <<port, vlans, neighbour>>

OpenModule ==
    /\ call = "request" /\ Now = "filter" /\ command.module # "none" /\ UNCHANGED core
    /\ (Refuse /\ UNCHANGED files) \/ (Goto("load") /\ files' = files \cup {"object"})

LoadModule ==
    /\ call = "load"
    /\ \/ Refuse /\ files' = files \ {"object"} /\ UNCHANGED core
       \/ /\ command.module # "garbage" /\ Return({"object", "port"})
          /\ filter' = IF command.module = "filter" THEN "filter" ELSE filter
          /\ UNCHANGED <<port, vlans, neighbour>>

(* set_vlan_filter(), show_vlan_filter(), and solicit_neighbour(), which   *)
(* binds the socket to the interface if there is one.                      *)
SetVlans ==
    /\ call = "serve" /\ Now = "vlans"
    /\ \/ Refuse /\ UNCHANGED <<files, core>>
       \/ Return({"vlans"}) /\ vlans' = TRUE /\ UNCHANGED <<port, filter, neighbour>>

ShowVlans ==
    /\ call = "serve" /\ Now = "show" /\ UNCHANGED core
    /\ (Refuse /\ UNCHANGED files) \/ Return({"vlans"})

Solicit ==
    /\ call = "serve" /\ Now = "solicit"
    /\ \/ Refuse /\ UNCHANGED <<files, core>>
       \/ Return({"socket"}) /\ neighbour' = TRUE /\ UNCHANGED <<port, filter, vlans>>

EvlNetNext ==
    \/ Options \/ Open \/ EnablePort \/ OpenPort \/ DisablePort \/ QueryPort
    \/ RemoveFilter \/ OpenModule \/ LoadModule \/ SetVlans \/ ShowVlans \/ Solicit

-----------------------------------------------------------------------------
(* When the program succeeds the interface is as it was asked to be, by    *)
(* requests which bear on each other: -d comes first, so that -e undoes    *)
(* it, and a filter needs a port.  A module without a program leaves the   *)
(* filter as it was (evl_net_set_filter()).                                *)
SuccessMeansDone ==
    call = "over" /\ ~ refused =>
        LET w == command.wants IN
        /\ "enable" \in w => port
        /\ "disable" \in w /\ "enable" \notin w => ~ port /\ w \cap {"filter", "query"} = {}
        /\ "filter" \in w => port /\ (command.module = "empty" \/ filter = command.module)
        /\ ("vlans" \in w => vlans) /\ ("solicit" \in w => neighbour)

(* Whatever fails, the services of the library leave none of their files   *)
(* open (evl_net_open_port(), evl_net_set_filter()), and a program which   *)
(* succeeds has closed its own.                                            *)
ServicesCloseFiles ==
    /\ refused => files \cap {"device", "object"} = {}
    /\ call = "over" /\ ~ refused => files = {}
=============================================================================
