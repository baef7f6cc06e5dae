----------------------------- MODULE Privileges -----------------------------
(***************************************************************************)
(* The servers of pus-08, which need a privilege to bind a well-known port *)
(* and are to serve without it.  suidserver and rootserver change their    *)
(* user ids in between, capserver raises and drops a capability, fserver   *)
(* is given one by its file and keeps it.                                  *)
(*                                                                         *)
(* The ids and the capabilities follow the rules of the kernel, which are  *)
(* the external part; every call may fail as well.                         *)
(***************************************************************************)
EXTENDS Integers

CONSTANTS Users,   \* user ids other than root's
          Ports    \* the arguments tried as a port

ASSUME UsersAssumption == Users \subseteq Nat \ {0}
ASSUME PortsAssumption == Ports \subseteq Nat

Root == 0
Uids == Users \cup {Root}
WellKnown(p) == p \in 1 .. 1023
Caps == {"setuid", "bind"}
Null == "NULL"

IdServers == {"suidserver", "rootserver"}
CapServers == {"capserver", "fserver"}

VARIABLES program, invoker,   \* what was started, by whom
          file,               \* plain, suid (root's), or with the capability "p" or "ep"
          port, uid,          \* the arguments
          pc,
          id,                 \* real, effective and saved user id
          permitted, effective,
          capabilities        \* the set capserver works on, or NULL

arguments == <<program, invoker, file, port, uid>>
process == <<id, permitted, effective>>
vars == <<arguments, pc, process, capabilities>>

-----------------------------------------------------------------------------
(* The kernel *)

(* What execve() gives a process. *)
Ids(u, f) == LET e == IF f = "suid" THEN Root ELSE u IN [r |-> u, e |-> e, s |-> e]
Permitted(u, f) == IF Ids(u, f).e = Root THEN Caps ELSE IF f \in {"p", "ep"} THEN {"bind"} ELSE {}
Effective(u, f) == IF f = "p" /\ u # Root THEN {} ELSE Permitted(u, f)

(* The last root id that goes takes all capabilities with it. *)
IsRoot(i) == Root \in {i.r, i.e, i.s}
ChangeIds(i) ==
  /\ id' = i
  /\ permitted' = IF IsRoot(id) /\ ~IsRoot(i) THEN {} ELSE permitted
  /\ effective' = IF i.e = Root THEN permitted
                  ELSE IF id.e = Root \/ (IsRoot(id) /\ ~IsRoot(i)) THEN {} ELSE effective

setuid(u) ==
  \/ "setuid" \in effective /\ ChangeIds([r |-> u, e |-> u, s |-> u])
  \/ "setuid" \notin effective /\ u \in {id.r, id.s} /\ ChangeIds([id EXCEPT !.e = u])
  \/ UNCHANGED process

(* A set of capabilities may shrink, and be made effective as far as permitted. *)
cap_set_proc(p, e) ==
  IF e \subseteq p /\ p \subseteq permitted
  THEN permitted' = p /\ effective' = e
  ELSE UNCHANGED <<permitted, effective>>

-----------------------------------------------------------------------------
Init ==
  /\ program \in IdServers \cup CapServers
  /\ invoker \in Uids
  /\ file \in IF program \in IdServers THEN {"plain", "suid"} ELSE {"plain", "p", "ep"}
  /\ port \in Ports
  /\ uid \in Uids
  /\ pc = "check"
  /\ id = Ids(invoker, file)
  /\ permitted = Permitted(invoker, file)
  /\ effective = Effective(invoker, file)
  /\ capabilities = Null

(* perror() and exit(EXIT_FAILURE), after any call that is tested. *)
Fails == pc' = "exit" /\ UNCHANGED <<arguments, process, capabilities>>

(* A well-known port is not tried without root's rights; the port is        *)
(* compared before it is cut to 16 bits.  Then socket().                    *)
CheckPort ==
  /\ pc = "check"
  /\ program \in IdServers /\ port < 1024 => id.e = Root
  /\ pc' = IF program = "capserver" THEN "raise" ELSE "bind"
  /\ UNCHANGED <<arguments, process, capabilities>>

CheckPortFails == pc = "check" /\ Fails

(* capserver: nothing is tested here; the copy is NULL when memory is short. *)
Raise_not ==
  /\ pc = "raise"
  /\ capabilities' = "copy"
  /\ pc' = "bind"
  /\ UNCHANGED <<arguments, process>>

Raise ==
  /\ pc = "raise"
  /\ \/ /\ capabilities' = "copy"
        /\ cap_set_proc(permitted, effective \cup {"bind"})
     \/ UNCHANGED <<capabilities, permitted, effective>>
  /\ pc' = "bind"
  /\ UNCHANGED <<arguments, id>>

Bind ==
  /\ pc = "bind"
  /\ IF WellKnown(port % 65536) /\ "bind" \notin effective
     THEN pc' = "refused"
     ELSE pc' = IF program \in IdServers THEN "setuid" ELSE "listen"
  /\ UNCHANGED <<arguments, process, capabilities>>

(* The address is in use. *)
BindFails == pc = "bind" /\ Fails

(* The result is not tested. *)
SetUid ==
  /\ pc = "setuid"
  /\ setuid(IF program = "suidserver" THEN id.r ELSE uid)
  /\ pc' = "verify"
  /\ UNCHANGED <<arguments, capabilities>>

Verify_untested ==
  /\ pc = "verify"
  /\ pc' = "listen"
  /\ UNCHANGED <<arguments, process, capabilities>>

Verify ==
  /\ pc = "verify"
  /\ pc' = IF id.e = Root \/ id.s = Root THEN "exit" ELSE "listen"
  /\ UNCHANGED <<arguments, process, capabilities>>

VerifyFails == pc = "verify" /\ Fails

Listen ==
  /\ pc = "listen"
  /\ pc' = IF program = "capserver" THEN "lower" ELSE "accept"
  /\ UNCHANGED <<arguments, process, capabilities>>

ListenFails == pc = "listen" /\ Fails

(* cap_clear() and cap_set_proc() do nothing with NULL. *)
Lower_permitted ==
  /\ pc = "lower"
  /\ permitted' = IF capabilities = Null THEN permitted ELSE {}
  /\ pc' = "accept"
  /\ UNCHANGED <<arguments, id, effective, capabilities>>

Lower ==
  /\ pc = "lower"
  /\ IF capabilities = Null THEN UNCHANGED <<permitted, effective>> ELSE cap_set_proc({}, {})
  /\ pc' = "accept"
  /\ UNCHANGED <<arguments, id, capabilities>>

Accept ==
  /\ pc = "accept"
  /\ pc' = "serve"
  /\ UNCHANGED <<arguments, process, capabilities>>

AcceptFails == pc = "accept" /\ Fails

(* close() and exit(); capserver also ends here, as a failure, when the      *)
(* variable it tests, which nothing was ever assigned to, happens not to be 0. *)
Close ==
  /\ pc = "serve"
  /\ pc' \in IF program = "capserver" THEN {"done", "exit"} ELSE {"done"}
  /\ UNCHANGED <<arguments, process, capabilities>>

Next ==
  \/ CheckPort \/ Raise \/ Bind \/ SetUid \/ Verify \/ Listen \/ Lower \/ Accept \/ Close
  \/ CheckPortFails \/ BindFails \/ VerifyFails \/ ListenFails \/ AcceptFails

Spec == Init /\ [][Next]_vars

-----------------------------------------------------------------------------
(* Everything is of its type, and only what is permitted is effective.      *)
TypeOK ==
  /\ program \in IdServers \cup CapServers
  /\ {invoker, uid} \subseteq Uids
  /\ file \in {"plain", "suid", "p", "ep"}
  /\ port \in Ports
  /\ pc \in {"check", "raise", "bind", "setuid", "verify", "listen", "lower", "accept", "serve",
             "refused", "exit", "done"}
  /\ id \in [r : Uids, e : Uids, s : Uids]
  /\ effective \subseteq permitted /\ permitted \subseteq Caps
  /\ capabilities \in {Null, "copy"}

(* Whoever starts them, from a plain file or one that is set-uid root, and   *)
(* whether setuid() succeeds or not, suidserver and rootserver serve with    *)
(* three equal ids, none of them root's, and have no capability left,        *)
(* although only two ids are looked at and the result of setuid() is not     *)
(* tested (suidserver.c 94-109); capserver has none left if there was memory *)
(* for the set.  A file that is set-uid to another user, or that gives these *)
(* two capabilities, is left out.                                            *)
ServesUnprivileged ==
  pc \in {"accept", "serve"} =>
    /\ program \in IdServers => /\ ~IsRoot(id) /\ id.r = id.e /\ id.e = id.s
                                /\ permitted = {}
    /\ program = "capserver" /\ capabilities # Null => permitted = {}

(* What is needed to bind is not given up, or left unraised, before bind():  *)
(* a server is refused the port only if the one who started it has no right  *)
(* to it; the check before makes it impossible for suidserver and rootserver *)
(* up to the width of a port number.                                         *)
RefusedWithoutRight ==
  pc = "refused" =>
    /\ program \in IdServers => port >= 65536
    /\ "bind" \in Permitted(invoker, file) =>
         \/ program = "capserver" /\ capabilities = Null
         \/ program = "fserver" /\ file = "p"
=============================================================================
