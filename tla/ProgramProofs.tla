---------------------------- MODULE ProgramProofs ----------------------------
(***************************************************************************)
(* The programs that take one step after another.  First the four servers  *)
(* that give up privileges: what Privileges.cfg checks for two users,      *)
(* proved for any users and any ports.  The invariant follows the          *)
(* privileges of each server from step to step: what it was started with   *)
(* until it gives it up, and what is left after.                           *)
(*                                                                         *)
(* Then the sequences of calls, whatever program they are: one whose steps *)
(* keep to the rules when they are read, one at a time, keeps to them when *)
(* it runs, whatever fails and whenever Ctrl-C comes.                      *)
(***************************************************************************)
EXTENDS Privileges, CallFlow, TLAPS

(* Until the change, a server has the privileges it was started with. *)
AsStarted ==
  /\ id = Ids(invoker, file)
  /\ permitted = Permitted(invoker, file)
  /\ effective = Effective(invoker, file)

(* The states in which nothing of root's is left. *)
Dropped == ~IsRoot(id) /\ id.r = id.e /\ id.e = id.s /\ permitted = {}

IdServerInv ==
  /\ file \in {"plain", "suid"}
  /\ pc \notin {"raise", "lower"}
  /\ pc \in {"check", "bind", "setuid", "refused"} => AsStarted
  /\ pc = "bind" /\ port < 1024 => id.e = Root
  /\ pc = "refused" => port >= 65536 /\ "bind" \notin Permitted(invoker, file)
  /\ pc = "verify" => id.e = Root \/ id.s = Root \/ Dropped
  /\ pc \in {"listen", "accept", "serve"} => Dropped

CapServerInv ==
  /\ file \in {"plain", "p", "ep"}
  /\ pc \notin {"setuid", "verify"}
  /\ program = "fserver" => pc \notin {"raise", "lower"} /\ AsStarted /\ capabilities = Null
  /\ pc \in {"check", "raise"} => AsStarted /\ capabilities = Null
  /\ pc \in {"bind", "refused"} /\ capabilities # Null => "bind" \notin permitted \/ "bind" \in effective
  /\ pc \in {"bind", "refused"} => permitted = Permitted(invoker, file)
  /\ pc = "refused" => "bind" \notin effective
  /\ program = "capserver" /\ pc \in {"accept", "serve"} /\ capabilities # Null => permitted = {}

IInv ==
  /\ TypeOK
  /\ program \in IdServers => IdServerInv
  /\ program \in CapServers => CapServerInv

USE DEF Root, Uids, Caps, Null, IdServers, CapServers

LEMMA InitInv == Init => IInv
BY UsersAssumption, PortsAssumption
   DEF Init, IInv, TypeOK, IdServerInv, CapServerInv, AsStarted, Ids, Permitted, Effective

LEMMA FailsInv == IInv /\ pc \notin {"refused", "done"} /\ Fails => IInv'
BY DEF Fails, arguments, process, IInv, TypeOK, IdServerInv, CapServerInv, AsStarted, Dropped, IsRoot

LEMMA CheckPortInv == IInv /\ CheckPort => IInv'
BY DEF CheckPort, arguments, process, IInv, TypeOK, IdServerInv, CapServerInv, AsStarted, Dropped, IsRoot

LEMMA RaiseInv == IInv /\ Raise => IInv'
<1> SUFFICES ASSUME IInv, Raise PROVE IInv'
    OBVIOUS
<1> USE DEF Raise, cap_set_proc, arguments
<1>1. TypeOK'
    BY DEF IInv, TypeOK, process
<1>2. program' \in IdServers => IdServerInv'
    BY DEF IInv, TypeOK, IdServerInv, AsStarted, Dropped, IsRoot, process
<1>3. program' \in CapServers => CapServerInv'
    BY DEF IInv, TypeOK, CapServerInv, AsStarted, process
<1> QED
    BY <1>1, <1>2, <1>3 DEF IInv

LEMMA BindInv == IInv /\ Bind => IInv'
BY PortsAssumption DEF Bind, WellKnown, arguments, process, IInv, TypeOK, IdServerInv, CapServerInv, AsStarted, Dropped, IsRoot,
       Ids, Permitted, Effective

LEMMA SetUidInv == IInv /\ SetUid => IInv'
BY UsersAssumption DEF SetUid, setuid, ChangeIds, arguments, process, IInv, TypeOK, IdServerInv, CapServerInv, AsStarted, Dropped, IsRoot,
       Ids, Permitted, Effective

LEMMA VerifyInv == IInv /\ Verify => IInv'
BY DEF Verify, arguments, process, IInv, TypeOK, IdServerInv, CapServerInv, AsStarted, Dropped, IsRoot

LEMMA ListenInv == IInv /\ Listen => IInv'
BY DEF Listen, arguments, process, IInv, TypeOK, IdServerInv, CapServerInv, AsStarted, Dropped, IsRoot

LEMMA LowerInv == IInv /\ Lower => IInv'
<1> SUFFICES ASSUME IInv, Lower PROVE IInv'
    OBVIOUS
<1> USE DEF Lower, cap_set_proc, arguments
<1>1. TypeOK'
    BY DEF IInv, TypeOK, process
<1>2. program' \in IdServers => IdServerInv'
    BY DEF IInv, TypeOK, IdServerInv, AsStarted, Dropped, IsRoot, process
<1>3. program' \in CapServers => CapServerInv'
    BY DEF IInv, TypeOK, CapServerInv, AsStarted, process
<1> QED
    BY <1>1, <1>2, <1>3 DEF IInv

LEMMA AcceptInv == IInv /\ Accept => IInv'
<1> SUFFICES ASSUME IInv, Accept PROVE IInv'
    OBVIOUS
<1> USE DEF Accept, arguments
<1>1. TypeOK'
    BY DEF IInv, TypeOK, process
<1>2. program' \in IdServers => IdServerInv'
    BY DEF IInv, TypeOK, IdServerInv, AsStarted, Dropped, IsRoot, process
<1>3. program' \in CapServers => CapServerInv'
    BY DEF IInv, TypeOK, CapServerInv, AsStarted, process
<1> QED
    BY <1>1, <1>2, <1>3 DEF IInv

LEMMA CloseInv == IInv /\ Close => IInv'
<1> SUFFICES ASSUME IInv, Close PROVE IInv'
    OBVIOUS
<1> USE DEF Close, arguments
<1>1. TypeOK'
    BY DEF IInv, TypeOK, process
<1>2. program' \in IdServers => IdServerInv'
    BY DEF IInv, TypeOK, IdServerInv, AsStarted, Dropped, IsRoot, process
<1>3. program' \in CapServers => CapServerInv'
    BY DEF IInv, TypeOK, CapServerInv, AsStarted, process
<1> QED
    BY <1>1, <1>2, <1>3 DEF IInv

(* Every step keeps the invariant. *)
LEMMA StepInv == IInv /\ [Next]_vars => IInv'
<1>1. CASE UNCHANGED vars
    BY <1>1 DEF vars, arguments, process, IInv, TypeOK, IdServerInv, CapServerInv, AsStarted, Dropped, IsRoot
<1>2. CASE CheckPortFails \/ BindFails \/ VerifyFails \/ ListenFails \/ AcceptFails
    BY <1>2, FailsInv DEF CheckPortFails, BindFails, VerifyFails, ListenFails, AcceptFails
<1> QED
    BY <1>1, <1>2, CheckPortInv, RaiseInv, BindInv, SetUidInv, VerifyInv, ListenInv, LowerInv,
       AcceptInv, CloseInv DEF Next

(* The invariant holds in every reachable state. *)
THEOREM Invariant == Spec => []IInv
BY InitInv, StepInv, PTL DEF Spec

(* Every reachable state is well typed, and nothing is effective that is not *)
(* permitted.                                                                *)
THEOREM TypeCorrect == Spec => []TypeOK
<1>1. IInv => TypeOK
    BY DEF IInv
<1> QED
    BY <1>1, Invariant, PTL

(* Nobody is served with root's rights, whoever started the server, from a   *)
(* plain file or one that is set-uid root, and whatever setuid() did.        *)
THEOREM Unprivileged == Spec => []ServesUnprivileged
<1>1. IInv => ServesUnprivileged
    BY DEF IInv, TypeOK, IdServerInv, CapServerInv, Dropped, ServesUnprivileged
<1> QED
    BY <1>1, Invariant, PTL

(* A port is refused only to those who have no right to it.                  *)
THEOREM Refused == Spec => []RefusedWithoutRight
<1>1. IInv => RefusedWithoutRight
    BY DEF IInv, TypeOK, IdServerInv, CapServerInv, AsStarted, RefusedWithoutRight,
           Ids, Permitted, Effective
<1> QED
    BY <1>1, Invariant, PTL

-----------------------------------------------------------------------------
(* Sequences of calls *)

Given(p) == UNION {Script[p][i].gives : i \in 1 .. Len(Script[p])}

LEMMA CallsGoto ==
  ASSUME WellFormed, CallTypeOK, status = "running",
         NEW d \in step.ok \cup step.err \cup {step.past},
         Goto(at + d), held' \subseteq held \cup step.gives
  PROVE  CallTypeOK'
<1>1. /\ prog \in DOMAIN Script /\ prog' = prog /\ at' = at + d
      /\ at \in 1 .. Len(Script[prog]) /\ Len(Script[prog]) \in Nat
    <2>1. prog \in DOMAIN Script /\ prog' = prog /\ at' = at + d
          /\ at \in 1 .. Len(Script[prog]) + 1 /\ at <= Len(Script[prog])
        BY DEF CallTypeOK, Goto
    <2>2. Len(Script[prog]) \in Nat
        BY <2>1 DEF WellFormed
    <2> QED
        BY <2>1, <2>2
<1>2. at' \in 1 .. Len(Script[prog]) + 1
    BY <1>1 DEF WellFormed, step
<1>3. held' \subseteq Given(prog)
    BY <1>1 DEF CallTypeOK, step, Given
<1>4. status' = IF at' > Len(Script[prog]) THEN "ok" ELSE "running"
    BY <1>1 DEF Goto
<1>5. status' \in {"ok", "running"} /\ (status' = "running" => at' <= Len(Script[prog]))
    BY <1>1, <1>2, <1>4
<1> QED
    BY <1>1, <1>2, <1>3, <1>5 DEF CallTypeOK, Given

(* The end of a program, however it comes, leaves the program counter alone. *)
LEMMA CallsEnd ==
  ASSUME CallTypeOK, UNCHANGED <<prog, at, held>>,
         status' \in {"ok", "error", "killed", "crashed", "lost"}
  PROVE  CallTypeOK'
BY DEF CallTypeOK

LEMMA CallsNext == WellFormed /\ CallTypeOK /\ [CallNext]_callVars => CallTypeOK'
<1> SUFFICES ASSUME WellFormed, CallTypeOK, [CallNext]_callVars PROVE CallTypeOK'
    OBVIOUS
<1>1. CASE Succeed
    <2>1. PICK d \in step.ok : Goto(at + d)
        BY <1>1 DEF Succeed
    <2>2. status = "running" /\ held' \subseteq held \cup step.gives
        BY <1>1 DEF Succeed, Executes
    <2> QED
        BY <2>1, <2>2, CallsGoto
<1>2. CASE Fail
    <2>1. PICK d \in step.err : Goto(at + d)
        BY <1>2 DEF Fail
    <2>2. status = "running" /\ held' = held
        BY <1>2 DEF Fail, Executes
    <2> QED
        BY <2>1, <2>2, CallsGoto
<1>3. CASE PassOver
    <2>1. status = "running" /\ held' = held /\ Goto(at + step.past)
        BY <1>3 DEF PassOver
    <2> QED
        BY <2>1, CallsGoto
<1>4. CASE Exit \/ Crash
    BY <1>4, CallsEnd DEF Exit, Crash
<1>5. CASE Interrupt
    BY <1>5, CallsEnd DEF Interrupt
<1>6. CASE UNCHANGED callVars
    BY <1>6 DEF callVars, CallTypeOK
<1> QED
    BY <1>1, <1>2, <1>3, <1>4, <1>5, <1>6 DEF CallNext

LEMMA CallsInit == WellFormed /\ CallInit => CallTypeOK
<1> SUFFICES ASSUME WellFormed, CallInit PROVE CallTypeOK
    OBVIOUS
<1>1. prog \in DOMAIN Script /\ at = 1 /\ held = {} /\ status = "running"
    BY DEF CallInit
<1>2. Len(Script[prog]) \in Nat /\ Len(Script[prog]) > 0
    BY <1>1 DEF WellFormed
<1> QED
    BY <1>1, <1>2 DEF CallTypeOK

(* Whatever calls fail and whenever Ctrl-C comes, control stays within the    *)
(* program and leaves it only behind its end, and nothing is held that no     *)
(* call of the program gives.                                                  *)
THEOREM ControlStaysInside == ASSUME WellFormed PROVE CallSpec => []CallTypeOK
<1>1. CallInit => CallTypeOK
    BY CallsInit
<1>2. CallTypeOK /\ [CallNext]_callVars => CallTypeOK'
    BY CallsNext
<1> QED
    BY <1>1, <1>2, PTL DEF CallSpec

LEMMA FoundBounds ==
  ASSUME NEW s, NEW b, NEW h, b.lo \subseteq h, h \subseteq b.hi, s.test \subseteq h
  PROVE  /\ Found(s, b).lo \subseteq h /\ h \subseteq Found(s, b).hi
BY DEF Found

LEMMA MissedBounds ==
  ASSUME NEW s, NEW b, NEW h, b.lo \subseteq h, h \subseteq b.hi, ~(s.test \subseteq h)
  PROVE  /\ Missed(s, b).lo \subseteq h /\ h \subseteq Missed(s, b).hi
BY DEF Missed

LEMMA StepsFlow ==
  ASSUME NEW Bounds, WellFormed, Flows(Bounds), CallTypeOK, status = "running"
  PROVE  /\ prog \in DOMAIN Script
         /\ StepFlows(step, at, Bounds[prog])
<1>1. prog \in DOMAIN Script /\ at \in 1 .. Len(Script[prog]) + 1 /\ at <= Len(Script[prog])
      /\ Len(Script[prog]) \in Nat
    BY DEF CallTypeOK, WellFormed
<1>2. at \in 1 .. Len(Script[prog])
    BY <1>1
<1> QED
    BY <1>1, <1>2 DEF Flows, step

(* The step to a place whose bounds contain what is held then. *)
LEMMA HeldAfterGoto ==
  ASSUME NEW Bounds, prog \in DOMAIN Script, NEW n, Goto(n), NEW a,
         a.lo \subseteq held', held' \subseteq a.hi, Within(a, Bounds[prog][n])
  PROVE  HeldWithin(Bounds)'
<1>1. prog' = prog /\ at' = n
    BY DEF Goto
<1>2. Bounds[prog][n].lo \subseteq held' /\ held' \subseteq Bounds[prog][n].hi
    BY DEF Within
<1> QED
    BY <1>1, <1>2 DEF HeldWithin

LEMMA ReadingHolds ==
  ASSUME NEW Bounds, WellFormed, Flows(Bounds), CallTypeOK,
         HeldWithin(Bounds), [CallNext]_callVars
  PROVE  HeldWithin(Bounds)'
<1> DEFINE s == step
           b == Bounds[prog][at]
<1>1. b.lo \subseteq held /\ held \subseteq b.hi /\ Reached(b)
    BY DEF HeldWithin, Reached
<1>2. ASSUME status = "running" PROVE StepFlows(s, at, Bounds[prog]) /\ prog \in DOMAIN Script
    BY <1>2, StepsFlow
<1> HIDE DEF s
<1>3. CASE Succeed
    <2>1. PICK d \in s.ok : Goto(at + d)
        BY <1>3 DEF Succeed, s
    <2>2. status = "running" /\ s.test \subseteq held /\ held' = (held \ s.frees) \cup s.gives
        BY <1>3 DEF Succeed, Executes, s
    <2> DEFINE a == Succeeded(s, b)
    <2>3. Within(a, Bounds[prog][at + d])
        BY <1>1, <1>2, <2>2 DEF StepFlows
    <2>4. a.lo \subseteq held' /\ held' \subseteq a.hi
        BY <1>1, <2>2, FoundBounds DEF Succeeded
    <2> HIDE DEF a
    <2> QED
        BY <1>2, <2>1, <2>2, <2>3, <2>4, HeldAfterGoto
<1>4. CASE Fail
    <2>1. PICK d \in s.err : Goto(at + d)
        BY <1>4 DEF Fail, s
    <2>2. status = "running" /\ s.test \subseteq held /\ held' = held
        BY <1>4 DEF Fail, Executes, s
    <2> DEFINE a == Found(s, b)
    <2>3. Within(a, Bounds[prog][at + d])
        BY <1>1, <1>2, <2>2 DEF StepFlows
    <2>4. a.lo \subseteq held' /\ held' \subseteq a.hi
        BY <1>1, <2>2, FoundBounds
    <2> HIDE DEF a
    <2> QED
        BY <1>2, <2>1, <2>2, <2>3, <2>4, HeldAfterGoto
<1>5. CASE PassOver
    <2>1. /\ status = "running" /\ ~(s.test \subseteq held) /\ held' = held
          /\ Goto(at + s.past)
        BY <1>5 DEF PassOver, s
    <2> DEFINE a == Missed(s, b)
    <2>2. Within(a, Bounds[prog][at + s.past])
        BY <1>1, <1>2, <2>1 DEF StepFlows
    <2>3. a.lo \subseteq held' /\ held' \subseteq a.hi
        BY <1>1, <2>1, MissedBounds
    <2> HIDE DEF a
    <2> QED
        BY <1>2, <2>1, <2>2, <2>3, HeldAfterGoto
<1>6. CASE UNCHANGED <<prog, at, held>>
    BY <1>6 DEF HeldWithin
<1> QED
    BY <1>3, <1>4, <1>5, <1>6
       DEF CallNext, Exit, Crash, Interrupt, callVars

(* Reading a program step by step is sound: whatever fails, what it holds lies *)
(* within the bounds of the step it has come to.                               *)
THEOREM ReadingIsSound ==
  ASSUME NEW Bounds, WellFormed, Flows(Bounds)
  PROVE  CallSpec => [](CallTypeOK /\ HeldWithin(Bounds))
<1>1. CallInit => CallTypeOK /\ HeldWithin(Bounds)
    <2> SUFFICES ASSUME CallInit PROVE CallTypeOK /\ HeldWithin(Bounds)
        OBVIOUS
    <2>1. prog \in DOMAIN Script /\ at = 1 /\ held = {}
        BY DEF CallInit
    <2>2. Bounds[prog][1].lo = {}
        BY <2>1 DEF Flows
    <2> QED
        BY <2>1, <2>2, CallsInit DEF HeldWithin
<1>2. CallTypeOK /\ HeldWithin(Bounds) /\ [CallNext]_callVars
          => (CallTypeOK /\ HeldWithin(Bounds))'
    BY CallsNext, ReadingHolds
<1> QED
    BY <1>1, <1>2, PTL DEF CallSpec

(* What the rules say of the step a running program has come to. *)
LEMMA RulesAtStep ==
  ASSUME NEW Bounds, WellFormed, KeepsRules(Bounds), CallTypeOK,
         HeldWithin(Bounds), status = "running"
  PROVE  LET s == step
             b == Bounds[prog][at]
         IN  /\ b.lo \subseteq held /\ held \subseteq b.hi /\ Reached(b)
             /\ s.test \subseteq held => /\ Executable(s, b)
                                       /\ Found(s, b).lo \subseteq held
             /\ UsesSurely(prog, s, b) /\ ReplacesNothing(prog, s, b)
             /\ EchoIsSafe(s, b) /\ ServerIsFirst(b)
<1> DEFINE s == step
           b == Bounds[prog][at]
<1>1. b.lo \subseteq held /\ held \subseteq b.hi /\ Reached(b)
    BY DEF HeldWithin, Reached
<1>2. s.test \subseteq held => Executable(s, b) /\ Found(s, b).lo \subseteq held
    <2> HIDE DEF s, b
    <2> QED
        BY <1>1, FoundBounds DEF Executable
<1>3. prog \in DOMAIN Script /\ at \in 1 .. Len(Script[prog])
    <2>1. prog \in DOMAIN Script /\ at \in 1 .. Len(Script[prog]) + 1 /\ at <= Len(Script[prog])
          /\ Len(Script[prog]) \in Nat
        BY DEF CallTypeOK, WellFormed
    <2> QED
        BY <2>1
<1>4. /\ UsesSurely(prog, s, b) /\ ReplacesNothing(prog, s, b)
      /\ EchoIsSafe(s, b) /\ ServerIsFirst(b)
    BY <1>3 DEF KeepsRules, step
<1> QED
    BY <1>1, <1>2, <1>4

LEMMA RulesAtEnd ==
  ASSUME NEW Bounds, KeepsRules(Bounds), HeldWithin(Bounds),
         prog \in DOMAIN Script, at = Len(Script[prog]) + 1
  PROVE  /\ held \cap Freed(prog) = {} /\ "noecho" \notin held
         /\ ServerIsFirst(Bounds[prog][at])
<1> DEFINE b == Bounds[prog][at]
<1>1. b.lo \subseteq held /\ held \subseteq b.hi /\ Reached(b)
    BY DEF HeldWithin, Reached
<1>2. EndsClean(prog, b)
    BY DEF KeepsRules
<1> HIDE DEF b
<1>3. b.hi \cap (Freed(prog) \cup {"noecho"}) = {} /\ ServerIsFirst(b)
    BY <1>1, <1>2 DEF EndsClean
<1> QED
    BY <1>1, <1>3 DEF b

(* A program that, when it is read, surely holds what each step needs, uses    *)
(* what it holds when it runs, its signal handler included.                    *)
THEOREM UsesByReading ==
  ASSUME NEW Bounds, WellFormed, Flows(Bounds), KeepsRules(Bounds)
  PROVE  CallSpec => []UsesWhatItHolds
<1> DEFINE Read == CallTypeOK /\ HeldWithin(Bounds)
           Uses == status # "running" => UsesWhatItHolds
<1>1. CallInit => Uses
    BY DEF CallInit
<1>2. ASSUME Read, Uses, [CallNext]_callVars PROVE Uses'
    <2> SUFFICES ASSUME status' # "running" PROVE UsesWhatItHolds'
        OBVIOUS
    <2>1. CASE \E n : Goto(n)
        <3>1. status' = "ok"
            BY <2>1 DEF Goto
        <3> QED
            BY <3>1 DEF UsesWhatItHolds
    <2>2. CASE Exit
        BY <2>2 DEF Exit, UsesWhatItHolds
    <2>3. CASE Crash
        <3>1. /\ status = "running" /\ step.test \subseteq held
              /\ ~(step.needs \subseteq held)
              /\ status' = "crashed" /\ UNCHANGED <<prog, at, held>>
            BY <2>3 DEF Crash, Executes
        <3> DEFINE s == step
                   b == Bounds[prog][at]
        <3>2. /\ Executable(s, b) /\ Found(s, b).lo \subseteq held
              /\ UsesSurely(prog, s, b)
            BY <1>2, <3>1, RulesAtStep
        <3> HIDE DEF s, b
        <3>3. <<prog, s.call>> \in Careless
            BY <3>1, <3>2 DEF UsesSurely, s
        <3> QED
            BY <3>1, <3>3 DEF UsesWhatItHolds, step, s
    <2>4. CASE Interrupt
        <3>1. /\ status = "running" /\ "blocked" \notin held
              /\ status' \in IF "handler" \notin held THEN {"killed"}
                            ELSE IF "capture" \in held THEN {"ok", "error"} ELSE {"lost"}
            BY <2>4 DEF Interrupt
        <3> DEFINE s == step
                   b == Bounds[prog][at]
        <3>2. b.lo \subseteq held /\ held \subseteq b.hi /\ Reached(b) /\ UsesSurely(prog, s, b)
            BY <1>2, <3>1, RulesAtStep
        <3> HIDE DEF s, b
        <3>3. "handler" \in held => "capture" \in held
            BY <3>1, <3>2 DEF UsesSurely
        <3> QED
            BY <3>1, <3>3 DEF UsesWhatItHolds
    <2>5. CASE UNCHANGED callVars
        BY <1>2, <2>5 DEF callVars, UsesWhatItHolds, step
    <2> QED
        BY <1>2, <2>1, <2>2, <2>3, <2>4, <2>5
           DEF CallNext, Succeed, Fail, PassOver
<1>3. Uses => UsesWhatItHolds
    BY DEF UsesWhatItHolds
<1>4. CallSpec => []Read
    BY ReadingIsSound
<1> HIDE DEF Read, Uses
<1> QED
    BY <1>1, <1>2, <1>3, <1>4, PTL DEF CallSpec

(* One that possibly holds nothing it releases elsewhere at its end, and       *)
(* possibly replaces nothing, leaves nothing behind when it ends well.         *)
THEOREM ReleasesByReading ==
  ASSUME NEW Bounds, WellFormed, Flows(Bounds), KeepsRules(Bounds)
  PROVE  CallSpec => []ReleasesOnSuccess
<1> DEFINE Read == CallTypeOK /\ HeldWithin(Bounds)
<1>1. ASSUME Read PROVE ReleasesOnSuccess
    <2>1. ASSUME at = Len(Script[prog]) + 1 PROVE held \cap Leaves = {}
        <3>1. prog \in DOMAIN Script
            BY <1>1 DEF CallTypeOK
        <3>2. held \cap Freed(prog) = {}
            BY <1>1, <2>1, <3>1, RulesAtEnd
        <3> QED
            BY <3>2 DEF Freed, Leaves
    <2>2. ASSUME Overwrites
          PROVE  step.gives \subseteq Values \/ <<prog, step.call>> \in Careless
        <3> DEFINE s == step
                   b == Bounds[prog][at]
        <3>1. status = "running" /\ s.test \subseteq held /\ (s.gives \cap held) \ s.frees # {}
            BY <2>2 DEF Overwrites, Executes
        <3>2. /\ held \subseteq b.hi /\ Executable(s, b)
              /\ ReplacesNothing(prog, s, b)
            BY <1>1, <3>1, RulesAtStep
        <3> HIDE DEF s, b
        <3>3. s.gives \subseteq Values \/ <<prog, s.call>> \in Careless
            BY <3>1, <3>2 DEF ReplacesNothing
        <3> QED
            BY <3>3 DEF s
    <2> QED
        BY <2>1, <2>2 DEF ReleasesOnSuccess
<1>2. CallSpec => []Read
    BY ReadingIsSound
<1> HIDE DEF Read
<1> QED
    BY <1>1, <1>2, PTL

(* One that keeps the signals blocked and has no step that can end it while    *)
(* the echo is possibly off leaves a terminal that echoes, however it ends.    *)
THEOREM EchoByReading ==
  ASSUME NEW Bounds, WellFormed, Flows(Bounds), KeepsRules(Bounds)
  PROVE  CallSpec => []EchoRestored
<1> DEFINE Read == CallTypeOK /\ HeldWithin(Bounds)
<1>1. CallInit => EchoRestored
    BY DEF CallInit, EchoRestored
<1>2. ASSUME Read, Read', EchoRestored, [CallNext]_callVars PROVE EchoRestored'
    <2> SUFFICES ASSUME status' # "running" PROVE "noecho" \notin held'
        BY DEF EchoRestored
    <2>1. ASSUME NEW n, Goto(n) PROVE "noecho" \notin held'
        <3>1. at' = n /\ prog' = prog /\ n > Len(Script[prog])
            BY <2>1 DEF Goto
        <3>2. prog' \in DOMAIN Script /\ at' \in 1 .. Len(Script[prog']) + 1 /\ Len(Script[prog']) \in Nat
            BY <1>2 DEF CallTypeOK, WellFormed
        <3>3. at' = Len(Script[prog']) + 1
            BY <3>1, <3>2
        <3> DEFINE b == Bounds[prog'][at']
        <3>4. b.lo \subseteq held' /\ held' \subseteq b.hi
            BY <1>2 DEF HeldWithin
        <3>5. EndsClean(prog', b)
            BY <3>2, <3>3 DEF KeepsRules
        <3> HIDE DEF b
        <3>6. "noecho" \notin b.hi
            BY <3>4, <3>5 DEF EndsClean, Reached
        <3> QED
            BY <3>4, <3>6
    <2>2. ASSUME Exit \/ Crash \/ Interrupt PROVE "noecho" \notin held'
        <3>1. status = "running" /\ held' = held
            BY <2>2 DEF Exit, Crash, Interrupt, Executes
        <3> DEFINE s == step
                   b == Bounds[prog][at]
        <3>2. /\ b.lo \subseteq held /\ held \subseteq b.hi /\ Reached(b)
              /\ s.test \subseteq held => /\ Executable(s, b)
                                        /\ Found(s, b).lo \subseteq held
              /\ EchoIsSafe(s, b)
            BY <1>2, <3>1, RulesAtStep
        <3>3. \/ s.test \subseteq held /\ s.dies
              \/ s.test \subseteq held /\ ~(s.needs \subseteq held)
              \/ "blocked" \notin held
            BY <2>2 DEF Exit, Crash, Interrupt, Executes
        <3> HIDE DEF s, b
        <3>4. "noecho" \notin held
            BY <3>2, <3>3 DEF EchoIsSafe
        <3> QED
            BY <3>1, <3>4
    <2>3. CASE UNCHANGED callVars
        BY <1>2, <2>3 DEF callVars, EchoRestored
    <2> QED
        BY <1>2, <2>1, <2>2, <2>3 DEF CallNext, Succeed, Fail, PassOver
<1>3. CallSpec => []Read
    BY ReadingIsSound
<1> HIDE DEF Read
<1> QED
    BY <1>1, <1>2, <1>3, PTL DEF CallSpec

(* One that surely has the user's consent wherever it possibly has a password  *)
(* or a channel asks for no password and opens no channel before.              *)
THEOREM ServerFirstByReading ==
  ASSUME NEW Bounds, WellFormed, Flows(Bounds), KeepsRules(Bounds)
  PROVE  CallSpec => []ServerComesFirst
<1> DEFINE Read == CallTypeOK /\ HeldWithin(Bounds)
<1>1. ASSUME Read PROVE ServerComesFirst
    <2> DEFINE b == Bounds[prog][at]
    <2>1. b.lo \subseteq held /\ held \subseteq b.hi /\ Reached(b)
        BY <1>1 DEF HeldWithin, Reached
    <2>2. ServerIsFirst(b)
        <3>1. prog \in DOMAIN Script /\ at \in 1 .. Len(Script[prog]) + 1 /\ Len(Script[prog]) \in Nat
            BY <1>1 DEF CallTypeOK, WellFormed
        <3>2. CASE at = Len(Script[prog]) + 1
            BY <1>1, <3>1, <3>2, RulesAtEnd
        <3>3. CASE at \in 1 .. Len(Script[prog])
            BY <3>1, <3>3 DEF KeepsRules
        <3> QED
            BY <3>1, <3>2, <3>3
    <2> HIDE DEF b
    <2> QED
        BY <2>1, <2>2 DEF ServerIsFirst, ServerComesFirst
<1>2. CallSpec => []Read
    BY ReadingIsSound
<1> HIDE DEF Read
<1> QED
    BY <1>1, <1>2, PTL
=============================================================================
