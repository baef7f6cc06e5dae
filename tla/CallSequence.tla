---------------------------- MODULE CallSequence ----------------------------
(***************************************************************************)
(* Most programs of the repository are one sequence of library calls:      *)
(* acquire a socket, a session, a context or a buffer, use it, release it, *)
(* and leave by exit(EXIT_FAILURE) when a tested call fails.  Which calls  *)
(* are tested, and what is done after one that fails, differs from program *)
(* to program and is what this module is about.                            *)
(*                                                                         *)
(* A program is a sequence of steps; this module runs any of them, letting *)
(* every call succeed or fail in every combination and delivering SIGINT   *)
(* at any moment.  The programs themselves are in SshScripts,              *)
(* CryptoScripts, CaptureScripts and SocketScripts, one definition for     *)
(* each function.                                                          *)
(***************************************************************************)
EXTENDS Integers, Sequences

CONSTANTS Script,     \* Script[p]: the steps of program p
          Careless    \* the <<program, call>> pairs that do not keep to the rules below

(***************************************************************************)
(* A step.  `needs` must be held, or the call is undefined behaviour;      *)
(* `gives` is held after success, `frees` no longer.  After success the    *)
(* program goes on at an offset in `ok`, after failure at one in `err`;    *)
(* `dies` says that failure ends in exit(EXIT_FAILURE).  The step is       *)
(* passed over, by the offset `past`, unless `test` is held: if (ptr) ...  *)
(***************************************************************************)
StepType == [call : STRING, needs : SUBSET STRING, gives : SUBSET STRING,
             frees : SUBSET STRING, ok : SUBSET Int, err : SUBSET Int,
             dies : BOOLEAN, test : SUBSET STRING, past : Int]

(* No step leads out of its program, except behind its end. *)
WellFormed ==
  \A p \in DOMAIN Script :
    /\ Script[p] \in Seq(StepType)
    /\ Len(Script[p]) > 0
    /\ \A i \in 1 .. Len(Script[p]) :
         \A d \in Script[p][i].ok \cup Script[p][i].err \cup {Script[p][i].past} :
           i + d \in 1 .. Len(Script[p]) + 1

ASSUME ScriptAssumption == WellFormed

(* A call whose result does not change what the program does next. *)
Call(c, n) == [call |-> c, needs |-> n, gives |-> {}, frees |-> {},
               ok |-> {1}, err |-> {}, dies |-> FALSE, test |-> {}, past |-> 1]

(* A call whose failure ends the program. *)
Try(c, n) == [Call(c, n) EXCEPT !.dies = TRUE]

(* A call that yields r, tested. *)
Get(c, n, r) == [Try(c, n) EXCEPT !.gives = {r}]

(* A call that yields r, or fails and the program goes on without it. *)
GetOrGoOn(c, n, r) == [Call(c, n) EXCEPT !.gives = {r}, !.err = {1}]

(* A call that gives r back, and one whose failure is tested. *)
Release(c, r) == [Call(c, {r}) EXCEPT !.frees = {r}]
TryRelease(c, r) == [Release(c, r) EXCEPT !.dies = TRUE]

(* if (r) s *)
IfHeld(s, r) == [s EXCEPT !.test = {r}]

(* A step that may also go on elsewhere, or do so when it fails. *)
OrTo(s, d) == [s EXCEPT !.ok = @ \cup {d}]
OnError(s, d) == [s EXCEPT !.err = @ \cup {d}, !.dies = FALSE]

VARIABLES prog,      \* the program that runs
          at,        \* its next step, or one past the last
          held,      \* what it holds
          status     \* running, ok, error, killed, crashed, lost

callVars == <<prog, at, held, status>>

CallInit ==
  /\ prog \in DOMAIN Script
  /\ at = 1
  /\ held = {}
  /\ status = "running"

step == Script[prog][at]
Executes == status = "running" /\ step.test \subseteq held

Goto_past_the_end(n) == /\ at' = n
                        /\ UNCHANGED <<prog, status>>

(* Control passes to step n; behind the last one is exit(EXIT_SUCCESS). *)
Goto(n) == /\ at' = n
           /\ status' = IF n > Len(Script[prog]) THEN "ok" ELSE "running"
           /\ UNCHANGED prog

(* What the step yields is held already: the earlier one can no longer be released. *)
Overwrites == Executes /\ (step.gives \cap held) \ step.frees # {}

Succeed == /\ Executes
           /\ held' = (held \ step.frees) \cup step.gives
           /\ \E d \in step.ok : Goto(at + d)

Fail == /\ Executes
        /\ \E d \in step.err : Goto(at + d)
        /\ UNCHANGED held

Exit == /\ Executes
        /\ step.dies
        /\ status' = "error"
        /\ UNCHANGED <<prog, at, held>>

PassOver == /\ status = "running"
            /\ ~(step.test \subseteq held)
            /\ Goto(at + step.past)
            /\ UNCHANGED held

(* A null pointer, a closed descriptor or a buffer nothing was read into is *)
(* used; besides what the call may still return, the process may end here.  *)
Crash == /\ Executes
         /\ ~(step.needs \subseteq held)
         /\ status' = "crashed"
         /\ UNCHANGED <<prog, at, held>>

(* Ctrl-C.  The only handler there is prints the statistics of the capture *)
(* and exits; it finds the capture in a global variable.                   *)
Interrupt == /\ status = "running"
             /\ "blocked" \notin held
             /\ status' \in IF "handler" \notin held THEN {"killed"}
                            ELSE IF "capture" \in held THEN {"ok", "error"}
                            ELSE {"lost"}
             /\ UNCHANGED <<prog, at, held>>

CallNext == Succeed \/ Fail \/ Exit \/ PassOver \/ Crash \/ Interrupt

CallSpec == CallInit /\ [][CallNext]_callVars

-----------------------------------------------------------------------------
(* The program counter stays within the program, and leaves it exactly when *)
(* the program ends well or is interrupted.                                 *)
CallTypeOK ==
  /\ prog \in DOMAIN Script
  /\ at \in 1 .. Len(Script[prog]) + 1
  /\ held \subseteq UNION {Script[prog][i].gives : i \in 1 .. Len(Script[prog])}
  /\ status \in {"running", "ok", "error", "killed", "crashed", "lost"}
  /\ status = "running" => at <= Len(Script[prog])

(* Whatever fails and in whatever order, a program uses what it has        *)
(* acquired and not yet released: the exit after each failed call stands   *)
(* between the failure and the use.  Careless lists the calls that do not  *)
(* have one; everything else keeps to it, the signal handler included.     *)
UsesWhatItHolds ==
  /\ status # "lost"
  /\ status = "crashed" => <<prog, step.call>> \in Careless

(* What a program releases on one path it has released on every path that  *)
(* ends in success, and nothing it holds is replaced before it is released. *)
(* A value read again into the same buffer (Values) is no loss.            *)
Values == {"password", "answer", "mem", "packet"}
Leaves == UNION {Script[prog][i].frees : i \in 1 .. Len(Script[prog])}
ReleasesOnSuccess ==
  /\ status = "ok" /\ at = Len(Script[prog]) + 1 => held \cap Leaves = {}
  /\ Overwrites => step.gives \subseteq Values \/ <<prog, step.call>> \in Careless

(* However the program ends, by itself or by Ctrl-C at any moment, the      *)
(* terminal echoes again: get_password() blocks the signals before it turns *)
(* the echo off and restores it before it lets them in.                     *)
EchoRestored == status # "running" => "noecho" \notin held

(* No password and no passphrase is sent, and no channel or SFTP session is *)
(* opened, before the user has accepted the fingerprint of the server.      *)
ServerComesFirst ==
  /\ held \cap {"password", "user", "channel", "sftp"} # {} => "trusted" \in held
  /\ held \cap {"channel", "sftp"} # {} => "user" \in held
=============================================================================
