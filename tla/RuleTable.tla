----------------------------- MODULE RuleTable -----------------------------
(***************************************************************************)
(* iptc and iptcmod (pus-07): read the arguments, read the rule table from *)
(* the kernel, change the copy, write it back.  Several of these tools and *)
(* iptables run at the same time, on one table; the kernel takes a table   *)
(* back if it has as many entries as when it was read, which is all that   *)
(* protects one process from another.                                      *)
(*                                                                         *)
(* The arguments are met one option at a time, in any order and number, so *)
(* every command line there is is covered.                                 *)
(***************************************************************************)
EXTENDS Integers, Sequences

CONSTANTS Procs,
          Builtin, Own,      \* built-in chains, names of user-defined ones
          Numbers,           \* the rule numbers users ask for
          Null,
          MaxSerial          \* bound: the last number iptables gives to a rule

ASSUME RuleAssumption ==
  /\ Builtin \cap Own = {}
  /\ Numbers \subseteq Nat
  /\ Null \notin Builtin \cup Own
  /\ Null # "table" /\ Null # "ACCEPT" /\ Null # "DROP"
  /\ MaxSerial \in Nat

Chains == Builtin \cup Own
Policies == {"ACCEPT", "DROP"}
Opcodes == {"NONE", "DELETE_RULE", "NEW_CHAIN", "CHANGE_POLICY"}

(* The kernel's table; a rule is told from the others by a number. *)
Tables == [rules : [Chains -> Seq(Nat)], own : SUBSET Own, policy : [Builtin -> Policies], entries : Int]

(* What parse() allocates. *)
NoRule == [operation |-> "NONE", chain |-> Null, table |-> Null, rule_num |-> 0, policy |-> Null]
NoHandle == [read |-> Null, write |-> Null]
NoneGiven == [operations |-> 0, tables |-> 0]

VARIABLES
  table,     \* the rules in the kernel
  serial,    \* the number of the next rule
  tool,      \* which of the two programs a process runs
  pc,
  r,         \* struct rule
  h,         \* the handle: the table as it was read, and as it is to be written
  given,     \* how many operations and tables were taken from the arguments
  since      \* the kinds of changes others have made since the table was read

local == <<tool, pc, r, h, given>>
vars == <<table, serial, local, since>>

Init ==
  /\ table = [rules |-> [c \in Chains |-> IF c \in Builtin THEN <<1, 2>> ELSE <<>>],
              own |-> {}, policy |-> [c \in Builtin |-> "ACCEPT"], entries |-> 4]
  /\ serial = 3
  /\ tool \in [Procs -> {"iptc", "iptcmod"}]
  /\ pc = [p \in Procs |-> "parse"]
  /\ r = [p \in Procs |-> NoRule]
  /\ h = [p \in Procs |-> NoHandle]
  /\ given = [p \in Procs |-> NoneGiven]
  /\ since = [p \in Procs |-> {}]

Goto(p, where) == pc' = [pc EXCEPT ![p] = where]

(* The process ends, and what it has allocated is gone. *)
Exit(p, status) ==
  /\ Goto(p, status)
  /\ r' = [r EXCEPT ![p] = NoRule]
  /\ h' = [h EXCEPT ![p] = NoHandle]
  /\ given' = [given EXCEPT ![p] = NoneGiven]
  /\ UNCHANGED tool

-----------------------------------------------------------------------------
(* parse() *)

Parsing(p) == pc[p] = "parse" /\ UNCHANGED <<table, serial, since>>
GoesOn == UNCHANGED <<pc, h, tool>>

(* The loop ends, free_rule() takes back what was read, main() exits. *)
parse_error(p) == Parsing(p) /\ Exit(p, "error")

(* A missing argument, one that begins with '-', an unknown option, or, for  *)
(* iptc, -P.                                                                 *)
BadArgument(p) == parse_error(p)

TableOption(p) ==
  \/ r[p].table # Null /\ parse_error(p)
  \/ /\ Parsing(p)
     /\ r[p].table = Null
     /\ r' = [r EXCEPT ![p].table = "table"]
     /\ given' = [given EXCEPT ![p].tables = @ + 1]
     /\ GoesOn

MayTake_any(p) == TRUE
MayTake(p) == r[p].operation = "NONE"

SecondOperation(p) == ~MayTake(p) /\ parse_error(p)

Take(p, fields) ==
  /\ Parsing(p)
  /\ MayTake(p)
  /\ r' = [r EXCEPT ![p] = [@ EXCEPT !.operation = fields.operation, !.chain = fields.chain,
                                     !.rule_num = fields.rule_num, !.policy = fields.policy]]
  /\ given' = [given EXCEPT ![p].operations = @ + 1]
  /\ GoesOn

NewChainOption(p) ==
  \E c \in Chains : Take(p, [NoRule EXCEPT !.operation = "NEW_CHAIN", !.chain = c])

(* Rules are numbered from 1 in the arguments, from 0 in the library. *)
Valid_any(n) == TRUE
Valid(n) == n - 1 >= 0

DeleteOption(p) ==
  \E c \in Chains, n \in Numbers :
    IF Valid(n)
    THEN Take(p, [NoRule EXCEPT !.operation = "DELETE_RULE", !.chain = c, !.rule_num = n - 1])
    ELSE parse_error(p)

PolicyOption(p) ==
  /\ tool[p] = "iptcmod"
  /\ \E c \in Chains, q \in Policies :
       Take(p, [NoRule EXCEPT !.operation = "CHANGE_POLICY", !.chain = c, !.policy = q])

Help(p) == Parsing(p) /\ Exit(p, "help")

EndOfArguments(p) ==
  IF r[p].operation = "NONE" \/ r[p].table = Null
  THEN parse_error(p)
  ELSE Parsing(p) /\ Goto(p, "init") /\ UNCHANGED <<r, h, given, tool>>

parse(p) ==
  \/ BadArgument(p) \/ TableOption(p) \/ SecondOperation(p) \/ NewChainOption(p) \/ DeleteOption(p)
  \/ PolicyOption(p) \/ Help(p) \/ EndOfArguments(p)

-----------------------------------------------------------------------------
(* The library and the kernel *)

Exists(c, t) == c \in Builtin \cup t.own

Without(s, n) == SubSeq(s, 1, n) \o SubSeq(s, n + 2, Len(s))

iptc_delete_num_entry(c, n, t) ==
  [t EXCEPT !.rules[c] = Without(@, n), !.entries = @ - 1]

(* A chain of one's own begins and ends with an entry. *)
iptc_create_chain(c, t) == [t EXCEPT !.own = @ \cup {c}, !.entries = @ + 2]

iptc_set_policy(c, q, t) == [t EXCEPT !.policy[c] = q]

(* A table was written: the copies the others have are one change older. *)
Changed(kind) ==
  since' = [p \in Procs |-> IF pc'[p] \in {"change", "commit"} THEN since[p] \cup {kind} ELSE {}]

(* iptables appends a rule, in one step as far as the others are concerned. *)
Append1(c) ==
  /\ Exists(c, table) /\ serial <= MaxSerial
  /\ table' = [table EXCEPT !.rules[c] = Append(@, serial), !.entries = @ + 1]
  /\ serial' = serial + 1
  /\ UNCHANGED local
  /\ Changed("append")

-----------------------------------------------------------------------------
(* main() after parse() *)

Fail(p) == Exit(p, "error") /\ since' = [since EXCEPT ![p] = {}] /\ UNCHANGED <<table, serial>>

iptc_init(p) ==
  /\ pc[p] = "init"
  /\ \/ /\ h' = [h EXCEPT ![p] = [read |-> table, write |-> table]]
        /\ Goto(p, "change")
        /\ UNCHANGED <<table, serial, tool, r, given, since>>
     \/ Fail(p)

Change(p, possible, t) ==
  IF possible
  THEN /\ h' = [h EXCEPT ![p].write = t]
       /\ Goto(p, "commit")
       /\ UNCHANGED <<table, serial, tool, r, given, since>>
  ELSE Fail(p)

delete_rule(p) ==
  LET t == h[p].write   c == r[p].chain   n == r[p].rule_num
  IN  /\ pc[p] = "change" /\ r[p].operation = "DELETE_RULE"
      /\ Change(p, Exists(c, t) /\ n < Len(t.rules[c]), iptc_delete_num_entry(c, n, t))

create_chain(p) ==
  LET t == h[p].write   c == r[p].chain
  IN  /\ pc[p] = "change" /\ r[p].operation = "NEW_CHAIN"
      /\ Change(p, ~Exists(c, t), iptc_create_chain(c, t))

change_policy(p) ==
  LET t == h[p].write   c == r[p].chain
  IN  /\ pc[p] = "change" /\ r[p].operation = "CHANGE_POLICY"
      /\ Change(p, Exists(c, t) /\ c \in Builtin, iptc_set_policy(c, r[p].policy, t))

(* A table that has become longer or shorter in the meantime is not replaced. *)
Taken_always(p) == TRUE
Taken(p) == table.entries = h[p].read.entries

(* Then free_rule(), iptc_free() and exit(). *)
iptc_commit(p) ==
  /\ pc[p] = "commit"
  /\ \/ /\ Taken(p)
        /\ table' = h[p].write
        /\ Exit(p, "done")
        /\ Changed(r[p].operation)
        /\ UNCHANGED serial
     \/ ~Taken(p) /\ Fail(p)

(* The tool is started again. *)
Again(p) ==
  /\ pc[p] \in {"done", "error", "help"}
  /\ Goto(p, "parse")
  /\ UNCHANGED <<table, serial, tool, r, h, given, since>>

main(p) ==
  parse(p) \/ iptc_init(p) \/ delete_rule(p) \/ create_chain(p) \/ change_policy(p) \/ iptc_commit(p)

Next ==
  \/ \E p \in Procs : main(p) \/ Again(p)
  \/ \E c \in Chains : Append1(c)

Spec == Init /\ [][Next]_vars

-----------------------------------------------------------------------------
Rules ==
  [operation : Opcodes, chain : Chains \cup {Null}, table : {Null, "table"},
   rule_num : Nat, policy : Policies \cup {Null}]

(* Everything is of its type; a handle is open from iptc_init() on.         *)
TypeOK ==
  /\ table \in Tables
  /\ serial \in Nat
  /\ tool \in [Procs -> {"iptc", "iptcmod"}]
  /\ pc \in [Procs -> {"parse", "init", "change", "commit", "done", "error", "help"}]
  /\ r \in [Procs -> Rules]
  /\ given \in [Procs -> [operations : Nat, tables : Nat]]
  /\ since \in [Procs -> SUBSET (Opcodes \cup {"append"})]
  /\ h \in [Procs -> [read : Tables \cup {Null}, write : Tables \cup {Null}]]
  /\ \A p \in Procs : pc[p] \in {"change", "commit"} => h[p].read \in Tables /\ h[p].write \in Tables

(* In whatever order and number the options are given, no table is read     *)
(* before one operation and one table were taken from them, no more of      *)
(* either, and the operation has all its own arguments and nothing that     *)
(* only another one sets.                                                   *)
CompleteCommand ==
  \A p \in Procs : pc[p] \in {"init", "change", "commit"} =>
    /\ given[p] = [operations |-> 1, tables |-> 1]
    /\ r[p].operation # "NONE" /\ r[p].chain # Null /\ r[p].table # Null
    /\ r[p].operation = "CHANGE_POLICY" <=> r[p].policy # Null
    /\ r[p].operation = "CHANGE_POLICY" => tool[p] = "iptcmod"

(* A tool that is about to replace a table that is not the one it has read, *)
(* and so to undo somebody's change, is stopped by the number of entries    *)
(* unless a policy was changed in between, or rules or chains were added    *)
(* and others deleted.                                                      *)
Mixed(kinds) ==
  \/ "CHANGE_POLICY" \in kinds
  \/ "DELETE_RULE" \in kinds /\ kinds \cap {"NEW_CHAIN", "append"} # {}

LosesOnlyMixedUpdates ==
  \A p \in Procs : pc[p] = "commit" /\ Taken(p) => h[p].read = table \/ Mixed(since[p])
=============================================================================
