------------------------------- MODULE ChatRoom -------------------------------
(***************************************************************************)
(* What the chat server of pus-01 (server4.c) promises to the people in    *)
(* the room, with no descriptors, no select() and no loops: a room is a    *)
(* set of connections, every event of the room is posted once to a set of  *)
(* addressees, and an addressee that has not hung up receives every event  *)
(* posted to it, once, in the order of posting, before the next one is     *)
(* posted.  ChatServer implements it (ImplementsRoom).                     *)
(***************************************************************************)
EXTENDS Naturals, Sequences

CONSTANTS
    Conns,      \* the connections (one telnet session each)
    MaxTyped,   \* how many lines one session types at most (bound)
    Residues    \* what the text of a relayed line may be followed by

VARIABLES
    room,       \* the connections that are members
    gone,       \* the connections whose peer has hung up
    told,       \* told[c]: how many of the lines typed by c the room was told
    feed,       \* every event posted so far, with its addressees
    got         \* got[c]: the indices of feed that were handed to c, in order

roomVars == <<room, gone, told, feed, got>>

Kinds == {"hello", "join", "say", "leave", "refuse"}

Events == [what : Kinds, from : Conns, text : Nat, tail : Residues, to : SUBSET Conns]

RoomTypeOK ==
    /\ room \in SUBSET Conns
    /\ gone \in SUBSET Conns
    /\ told \in [Conns -> Nat]
    /\ feed \in Seq(Events)
    /\ got \in [Conns -> Seq(Nat)]

RoomInit ==
    /\ room = {}
    /\ gone = {}
    /\ told = [c \in Conns |-> 0]
    /\ feed = <<>>
    /\ got = [c \in Conns |-> <<>>]

(* The addressees of the last event that have not received it yet. *)
Due == {c \in Conns : /\ feed # <<>>
                      /\ c \in feed[Len(feed)].to
                      /\ \A k \in DOMAIN got[c] : got[c][k] # Len(feed)}

(* A hello is followed by the join of the same connection and by nothing else. *)
Announcing(c) == /\ feed # <<>>
                 /\ feed[Len(feed)].what = "hello"
                 /\ feed[Len(feed)].from = c

(* c has been let in or refused: it is never answered again. *)
Answered(c) == \E k \in DOMAIN feed : feed[k].from = c

(* An event is posted only when nobody who still listens waits for the last one. *)
Post(what, c, n, to) ==
    /\ Due \subseteq gone
    /\ what = "join" <=> \E d \in Conns : Announcing(d)
    /\ \E r \in Residues :
          feed' = Append(feed, [what |-> what, from |-> c, text |-> n, tail |-> r, to |-> to])
    /\ UNCHANGED <<gone, got>>

Enter(c) ==
    /\ ~Answered(c)
    /\ room' = room \cup {c}
    /\ Post("hello", c, 0, {c})
    /\ UNCHANGED told

Announce(c) ==
    /\ c \in room
    /\ Announcing(c)
    /\ Post("join", c, 0, room \ {c})
    /\ UNCHANGED <<room, told>>

(* Lines are told in the order they were typed; several may be told at once. *)
Say(c) ==
    /\ c \in room
    /\ \E n \in (told[c] + 1)..MaxTyped :
          /\ told' = [told EXCEPT ![c] = n]
          /\ Post("say", c, n, room \ {c})
    /\ UNCHANGED room

Leave(c) ==
    /\ c \in room \cap gone
    /\ room' = room \ {c}
    /\ Post("leave", c, 0, room \ {c})
    /\ UNCHANGED told

Refuse(c) ==
    /\ ~Answered(c)
    /\ Post("refuse", c, 0, {c})
    /\ UNCHANGED <<room, told>>

Deliver(c) ==
    /\ c \in Due \ gone
    /\ got' = [got EXCEPT ![c] = Append(@, Len(feed))]
    /\ UNCHANGED <<room, gone, told, feed>>

HangUp(c) ==
    /\ gone' = gone \cup {c}
    /\ UNCHANGED <<room, told, feed, got>>

RoomNext ==
    \E c \in Conns :
        Enter(c) \/ Announce(c) \/ Say(c) \/ Leave(c) \/ Refuse(c) \/ Deliver(c) \/ HangUp(c)

RoomSpec == RoomInit /\ [][RoomNext]_roomVars
-------------------------------------------------------------------------------
(* The kinds of event in the order in which c was handed them. *)
Heard(c) == [k \in DOMAIN got[c] |-> feed[got[c][k]]]

(* Whoever is handed anything is greeted or refused first, once, and one who  *)
(* was refused hears nothing more (add_client_connection, server4.c 93-111).  *)
GreetedFirst ==
    \A c \in Conns : \A k \in DOMAIN got[c] :
        k = 1 <=> Heard(c)[k].what \in {"hello", "refuse"} /\ Heard(c)[k].from = c

(* Two people in the room never hear two events in opposite orders, nor one   *)
(* event twice: the single thread sends every event to everybody before it    *)
(* looks at the next (handle_client_action, server4.c 146-166).               *)
SameOrderForAll ==
    \A c \in Conns : \A j, k \in DOMAIN got[c] : j < k => got[c][j] < got[c][k]
===============================================================================
