---------------------------- MODULE ChatRoomProofs ----------------------------
(***************************************************************************)
(* Theorems about the room, for any number of connections and of lines.    *)
(***************************************************************************)
EXTENDS ChatRoom, TLAPS

(* Only events that were posted are handed out. *)
Posted == \A c \in Conns : \A k \in DOMAIN got[c] : got[c][k] \in 1..Len(feed)

RoomInv == RoomTypeOK /\ Posted /\ SameOrderForAll

LEMMA RoomInitInv == RoomInit => RoomInv
<1> SUFFICES ASSUME RoomInit PROVE RoomInv
    OBVIOUS
<1>1. RoomTypeOK
    BY DEF RoomInit, RoomTypeOK
<1>2. Posted /\ SameOrderForAll
    BY DEF RoomInit, Posted, SameOrderForAll
<1> QED
    BY <1>1, <1>2 DEF RoomInv

LEMMA PostInv ==
    ASSUME RoomInv, NEW what \in Kinds, NEW c \in Conns, NEW n \in Nat,
           NEW to \in SUBSET Conns, Post(what, c, n, to),
           room' \in SUBSET Conns, told' \in [Conns -> Nat]
    PROVE  RoomInv'
<1>1. PICK r \in Residues :
         feed' = Append(feed, [what |-> what, from |-> c, text |-> n, tail |-> r, to |-> to])
    BY DEF Post
<1>2. [what |-> what, from |-> c, text |-> n, tail |-> r, to |-> to] \in Events
    BY DEF Events
<1>3. feed \in Seq(Events)
    BY DEF RoomInv, RoomTypeOK
<1>4. feed' \in Seq(Events) /\ Len(feed') = Len(feed) + 1 /\ Len(feed) \in Nat
    BY <1>1, <1>2, <1>3
<1>5. gone' = gone /\ got' = got
    BY DEF Post
<1>6. RoomTypeOK'
    BY <1>4, <1>5 DEF RoomInv, RoomTypeOK
<1>7. Posted' /\ SameOrderForAll'
    BY <1>4, <1>5 DEF RoomInv, Posted, SameOrderForAll
<1> QED
    BY <1>6, <1>7 DEF RoomInv

LEMMA DeliverInv ==
    ASSUME RoomInv, NEW c \in Conns, Deliver(c)
    PROVE  RoomInv'
<1>0. RoomTypeOK /\ Posted /\ SameOrderForAll
    BY DEF RoomInv
<1>1. /\ feed # <<>> /\ feed \in Seq(Events) /\ feed' = feed
      /\ \A k \in DOMAIN got[c] : got[c][k] # Len(feed)
    BY <1>0 DEF Deliver, Due, RoomTypeOK
<1>2. Len(feed) \in Nat \ {0}
    BY <1>1
<1>3. /\ got[c] \in Seq(Nat)
      /\ got'[c] = Append(got[c], Len(feed))
      /\ \A d \in Conns \ {c} : got'[d] = got[d]
    BY <1>0 DEF Deliver, RoomTypeOK
<1>4. /\ Len(got[c]) \in Nat
      /\ DOMAIN got[c] = 1..Len(got[c])
      /\ DOMAIN got'[c] = 1..(Len(got[c]) + 1)
      /\ got'[c][Len(got[c]) + 1] = Len(feed)
      /\ \A k \in DOMAIN got[c] : got'[c][k] = got[c][k]
    BY <1>2, <1>3
<1>5. \A k \in DOMAIN got[c] : got[c][k] \in 1..(Len(feed) - 1)
    BY <1>0, <1>1, <1>2 DEF Posted
<1>6. RoomTypeOK'
    BY <1>0, <1>2 DEF Deliver, RoomTypeOK
<1>7. Posted'
    <2> SUFFICES ASSUME NEW d \in Conns, NEW k \in DOMAIN got'[d]
                 PROVE  got'[d][k] \in 1..Len(feed)
        BY <1>1 DEF Posted
    <2>1. CASE d = c
        BY <1>2, <1>4, <1>5, <2>1
    <2>2. CASE d # c
        BY <1>0, <1>3, <2>2 DEF Posted
    <2> QED
        BY <2>1, <2>2
<1>8. SameOrderForAll'
    <2> SUFFICES ASSUME NEW d \in Conns, NEW j \in DOMAIN got'[d], NEW k \in DOMAIN got'[d], j < k
                 PROVE  got'[d][j] < got'[d][k]
        BY DEF SameOrderForAll
    <2>1. CASE d = c /\ k = Len(got[c]) + 1
        <3>1. j \in DOMAIN got[c]
            BY <1>4, <2>1
        <3> QED
            BY <1>2, <1>4, <1>5, <2>1, <3>1
    <2>2. CASE d = c /\ k # Len(got[c]) + 1
        <3>1. j \in DOMAIN got[c] /\ k \in DOMAIN got[c]
            BY <1>4, <2>2
        <3> QED
            BY <1>0, <1>4, <2>2, <3>1 DEF SameOrderForAll
    <2>3. CASE d # c
        BY <1>0, <1>3, <2>3 DEF SameOrderForAll
    <2> QED
        BY <2>1, <2>2, <2>3
<1> QED
    BY <1>6, <1>7, <1>8 DEF RoomInv

LEMMA RoomNextInv == RoomInv /\ [RoomNext]_roomVars => RoomInv'
<1> SUFFICES ASSUME RoomInv, [RoomNext]_roomVars PROVE RoomInv'
    OBVIOUS
<1>0. room \in SUBSET Conns /\ gone \in SUBSET Conns /\ told \in [Conns -> Nat]
    BY DEF RoomInv, RoomTypeOK
<1> USE DEF Kinds
<1>1. ASSUME NEW c \in Conns, Enter(c) PROVE RoomInv'
    BY <1>0, <1>1, PostInv DEF Enter
<1>2. ASSUME NEW c \in Conns, Announce(c) PROVE RoomInv'
    BY <1>0, <1>2, PostInv DEF Announce
<1>3. ASSUME NEW c \in Conns, Say(c) PROVE RoomInv'
    <2>1. PICK n \in (told[c] + 1)..MaxTyped :
              told' = [told EXCEPT ![c] = n] /\ Post("say", c, n, room \ {c})
        BY <1>3 DEF Say
    <2>2. n \in Nat
        BY <1>0
    <2>3. told' \in [Conns -> Nat]
        BY <1>0, <2>1, <2>2
    <2> QED
        BY <1>0, <1>3, <2>1, <2>2, <2>3, PostInv DEF Say
<1>4. ASSUME NEW c \in Conns, Leave(c) PROVE RoomInv'
    BY <1>0, <1>4, PostInv DEF Leave
<1>5. ASSUME NEW c \in Conns, Refuse(c) PROVE RoomInv'
    BY <1>0, <1>5, PostInv DEF Refuse
<1>6. ASSUME NEW c \in Conns, HangUp(c) PROVE RoomInv'
    BY <1>0, <1>6 DEF HangUp, RoomInv, RoomTypeOK, Posted, SameOrderForAll
<1>7. CASE UNCHANGED roomVars
    BY <1>7 DEF roomVars, RoomInv, RoomTypeOK, Posted, SameOrderForAll
<1> QED
    BY <1>1, <1>2, <1>3, <1>4, <1>5, <1>6, <1>7, DeliverInv DEF RoomNext

(* Nobody hears an event twice, and no two people hear two events in opposite *)
(* orders, however many people there are and whenever they leave.             *)
THEOREM RoomOrder == RoomSpec => []SameOrderForAll
<1>1. RoomInit => RoomInv
    BY RoomInitInv
<1>2. RoomInv /\ [RoomNext]_roomVars => RoomInv'
    BY RoomNextInv
<1>3. RoomInv => SameOrderForAll
    BY DEF RoomInv
<1> QED
    BY <1>1, <1>2, <1>3, PTL DEF RoomSpec
-------------------------------------------------------------------------------
(* Event e tells c that it is in, or that there is no place. *)
Greets(e, c) == e.what \in {"hello", "refuse"} /\ e.from = c

(* Nothing is addressed to c before it is greeted. *)
GreetedBefore == \A c \in Conns : \A k \in 1..Len(feed) :
                     c \in feed[k].to => \E j \in 1..k : Greets(feed[j], c)

(* c is greeted once, and the greeting is for c. *)
GreetedOnce == \A c \in Conns : \A j, k \in 1..Len(feed) :
                   Greets(feed[j], c) => c \in feed[j].to /\ (Greets(feed[k], c) => j = k)

(* Members were greeted. *)
MembersGreeted == \A c \in room : \E j \in 1..Len(feed) : Greets(feed[j], c)

(* One who is still there has received everything but perhaps the last event. *)
UpToDate == \A c \in Conns \ gone : \A k \in 1..(Len(feed) - 1) :
                c \in feed[k].to => \E i \in DOMAIN got[c] : got[c][i] = k

GreetInv == RoomInv /\ GreetedFirst /\ GreetedBefore /\ GreetedOnce /\ MembersGreeted /\ UpToDate

LEMMA FirstHeard ==
    GreetedFirst <=> \A c \in Conns : \A k \in DOMAIN got[c] : k = 1 <=> Greets(feed[got[c][k]], c)
BY DEF GreetedFirst, Heard, Greets

LEMMA GreetInit == RoomInit => GreetInv
<1> SUFFICES ASSUME RoomInit PROVE GreetInv
    OBVIOUS
<1>1. Len(feed) = 0 /\ room = {} /\ \A c \in Conns : DOMAIN got[c] = {}
    BY DEF RoomInit
<1>2. GreetedFirst /\ GreetedBefore /\ GreetedOnce /\ MembersGreeted /\ UpToDate
    BY <1>1 DEF GreetedFirst, GreetedBefore, GreetedOnce, MembersGreeted, UpToDate
<1> QED
    BY <1>2, RoomInitInv DEF GreetInv

(* What a posting may be: a greeting of somebody not yet answered, or an event *)
(* for members only.                                                           *)
LEMMA PostGreets ==
    ASSUME GreetInv, RoomInv', NEW what \in Kinds, NEW c \in Conns, NEW n \in Nat,
           NEW to \in SUBSET Conns, Post(what, c, n, to),
           what \in {"hello", "refuse"} => ~Answered(c) /\ to = {c},
           what \notin {"hello", "refuse"} => to \subseteq room,
           \A d \in room' : d \in room \/ (d = c /\ what = "hello")
    PROVE  GreetInv'
<1>0. /\ RoomTypeOK /\ Posted /\ GreetedFirst /\ GreetedBefore
      /\ GreetedOnce /\ MembersGreeted /\ UpToDate
    BY DEF GreetInv, RoomInv
<1>1. PICK r \in Residues :
         feed' = Append(feed, [what |-> what, from |-> c, text |-> n, tail |-> r, to |-> to])
    BY DEF Post
<1>2. feed \in Seq(Events) /\ gone' = gone /\ got' = got /\ room \in SUBSET Conns
    BY <1>0 DEF Post, RoomTypeOK
<1> DEFINE m == Len(feed)
<1>3. /\ m \in Nat /\ Len(feed') = m + 1 /\ DOMAIN feed = 1..m
      /\ \A k \in 1..m : feed'[k] = feed[k]
      /\ feed'[m + 1].what = what /\ feed'[m + 1].from = c /\ feed'[m + 1].to = to
    BY <1>1, <1>2
<1> HIDE DEF m
<1>4. GreetedFirst'
    <2> SUFFICES ASSUME NEW d \in Conns, NEW k \in DOMAIN got[d]
                 PROVE  k = 1 <=> Greets(feed'[got[d][k]], d)
        BY <1>2 DEF GreetedFirst, Heard, Greets
    <2>1. got[d][k] \in 1..m
        BY <1>0 DEF Posted, m
    <2> QED
        BY <1>0, <1>3, <2>1, FirstHeard
<1>5. what \in {"hello", "refuse"} => \A j \in 1..m : feed[j].from # c
    BY <1>3 DEF Answered
<1>6. GreetedBefore'
    <2> SUFFICES ASSUME NEW d \in Conns, NEW k \in 1..(m + 1), d \in feed'[k].to
                 PROVE  \E j \in 1..k : Greets(feed'[j], d)
        BY <1>3 DEF GreetedBefore
    <2>1. CASE k \in 1..m
        <3>1. PICK j \in 1..k : Greets(feed[j], d)
            BY <1>0, <1>3, <2>1 DEF GreetedBefore, m
        <3>2. j \in 1..m
            BY <1>3, <2>1
        <3> QED
            BY <1>3, <3>1, <3>2 DEF Greets
    <2>2. CASE k = m + 1 /\ what \in {"hello", "refuse"}
        <3>1. d = c /\ Greets(feed'[m + 1], d)
            BY <1>3, <2>2 DEF Greets
        <3> QED
            BY <1>3, <2>2, <3>1
    <2>3. CASE k = m + 1 /\ what \notin {"hello", "refuse"}
        <3>1. PICK j \in 1..m : Greets(feed[j], d)
            BY <1>0, <1>3, <2>3 DEF MembersGreeted, m
        <3>2. Greets(feed'[j], d) /\ j \in 1..k
            BY <1>3, <2>3, <3>1 DEF Greets
        <3> QED
            BY <3>2
    <2> QED
        BY <1>3, <2>1, <2>2, <2>3
<1>7. GreetedOnce'
    <2> SUFFICES ASSUME NEW d \in Conns, NEW j \in 1..(m + 1), NEW k \in 1..(m + 1), Greets(feed'[j], d)
                 PROVE  d \in feed'[j].to /\ (Greets(feed'[k], d) => j = k)
        BY <1>3 DEF GreetedOnce
    <2>1. CASE j \in 1..m
        <3>1. Greets(feed[j], d) /\ d \in feed'[j].to
            BY <1>0, <1>3, <2>1 DEF Greets, GreetedOnce, m
        <3>2. ASSUME Greets(feed'[k], d) PROVE j = k
            <4>1. CASE k \in 1..m
                BY <1>0, <1>3, <2>1, <3>1, <3>2, <4>1 DEF Greets, GreetedOnce, m
            <4>2. CASE k = m + 1
                BY <1>3, <1>5, <2>1, <3>1, <3>2, <4>2 DEF Greets
            <4> QED
                BY <1>3, <4>1, <4>2
        <3> QED
            BY <3>1, <3>2
    <2>2. CASE j = m + 1
        <3>1. d = c /\ what \in {"hello", "refuse"} /\ d \in feed'[j].to
            BY <1>3, <2>2 DEF Greets
        <3>2. ASSUME Greets(feed'[k], d), k \in 1..m PROVE FALSE
            BY <1>3, <1>5, <3>1, <3>2 DEF Greets
        <3> QED
            BY <1>3, <2>2, <3>1, <3>2
    <2> QED
        BY <1>3, <2>1, <2>2
<1>8. MembersGreeted'
    <2> SUFFICES ASSUME NEW d \in room' PROVE \E j \in 1..(m + 1) : Greets(feed'[j], d)
        BY <1>3 DEF MembersGreeted
    <2>1. CASE d \in room
        <3>1. PICK j \in 1..m : Greets(feed[j], d)
            BY <1>0, <2>1 DEF MembersGreeted, m
        <3> QED
            BY <1>3, <3>1 DEF Greets
    <2>2. CASE d = c /\ what = "hello"
        <3>1. Greets(feed'[m + 1], d)
            BY <1>3, <2>2 DEF Greets
        <3> QED
            BY <1>3, <3>1
    <2> QED
        BY <2>1, <2>2
<1>9. UpToDate'
    <2> SUFFICES ASSUME NEW d \in Conns \ gone, NEW k \in 1..m, d \in feed'[k].to
                 PROVE  \E i \in DOMAIN got[d] : got[d][i] = k
        BY <1>2, <1>3 DEF UpToDate
    <2>1. CASE k = m
        <3>1. feed # <<>> /\ d \in feed[Len(feed)].to
            BY <1>2, <1>3, <2>1 DEF m
        <3>2. d \notin Due
            BY DEF Post
        <3> QED
            BY <2>1, <3>1, <3>2 DEF Due, m
    <2>2. CASE k \in 1..(m - 1)
        BY <1>0, <1>3, <2>2 DEF UpToDate, m
    <2> QED
        BY <1>3, <2>1, <2>2
<1> QED
    BY <1>4, <1>6, <1>7, <1>8, <1>9 DEF GreetInv

(* The first thing handed to c is its greeting, and no later one is. *)
LEMMA DeliverGreets ==
    ASSUME GreetInv, RoomInv', NEW c \in Conns, Deliver(c)
    PROVE  GreetInv'
<1>0. /\ RoomTypeOK /\ Posted /\ GreetedFirst /\ GreetedBefore
      /\ GreetedOnce /\ MembersGreeted /\ UpToDate
    BY DEF GreetInv, RoomInv
<1> DEFINE m == Len(feed)
<1>1. /\ feed # <<>> /\ feed \in Seq(Events) /\ c \in feed[m].to /\ c \notin gone
      /\ feed' = feed /\ gone' = gone /\ room' = room
      /\ \A k \in DOMAIN got[c] : got[c][k] # m
    BY <1>0 DEF Deliver, Due, RoomTypeOK
<1>2. m \in Nat \ {0}
    BY <1>1
<1> DEFINE l == Len(got[c])
<1>3. /\ got[c] \in Seq(Nat)
      /\ got'[c] = Append(got[c], m)
      /\ \A d \in Conns \ {c} : got'[d] = got[d]
    BY <1>0 DEF Deliver, RoomTypeOK
<1>4. /\ l \in Nat
      /\ DOMAIN got[c] = 1..l
      /\ DOMAIN got'[c] = 1..(l + 1)
      /\ got'[c][l + 1] = m
      /\ \A k \in 1..l : got'[c][k] = got[c][k]
    BY <1>2, <1>3
<1> HIDE DEF m, l
<1>5. l + 1 = 1 <=> Greets(feed[m], c)
    <2>1. PICK j \in 1..m : Greets(feed[j], c)
        BY <1>0, <1>1, <1>2 DEF GreetedBefore, m
    <2>2. CASE l = 0
        <3>1. c \in feed[j].to
            BY <1>0, <2>1 DEF GreetedOnce, m
        <3>2. j \notin 1..(m - 1)
            BY <1>0, <1>1, <1>4, <2>2, <3>1 DEF UpToDate, m
        <3> QED
            BY <1>2, <2>1, <2>2, <3>2
    <2>3. CASE l # 0
        <3>1. 1 \in DOMAIN got[c] /\ got[c][1] \in 1..m /\ got[c][1] # m
            BY <1>0, <1>1, <1>4, <2>3 DEF Posted, m
        <3>2. Greets(feed[got[c][1]], c)
            BY <1>0, <3>1 DEF GreetedFirst, Heard, Greets
        <3>3. ~Greets(feed[m], c)
            BY <1>0, <1>2, <3>1, <3>2 DEF GreetedOnce, m
        <3> QED
            BY <1>4, <2>3, <3>3
    <2> QED
        BY <2>2, <2>3
<1>6. GreetedFirst'
    <2> SUFFICES ASSUME NEW d \in Conns, NEW k \in DOMAIN got'[d]
                 PROVE  k = 1 <=> Greets(feed[got'[d][k]], d)
        BY <1>1 DEF GreetedFirst, Heard, Greets
    <2>1. CASE d # c
        BY <1>0, <1>3, <2>1, FirstHeard
    <2>2. CASE d = c /\ k \in 1..l
        BY <1>0, <1>4, <2>2, FirstHeard
    <2>3. CASE d = c /\ k = l + 1
        BY <1>4, <1>5, <2>3
    <2> QED
        BY <1>4, <2>1, <2>2, <2>3
<1>7. GreetedBefore' /\ GreetedOnce' /\ MembersGreeted'
    BY <1>0, <1>1 DEF GreetedBefore, GreetedOnce, MembersGreeted, Greets
<1>8. UpToDate'
    <2> SUFFICES ASSUME NEW d \in Conns \ gone, NEW k \in 1..(m - 1), d \in feed[k].to
                 PROVE  \E i \in DOMAIN got'[d] : got'[d][i] = k
        BY <1>1 DEF UpToDate, m
    <2>1. PICK i \in DOMAIN got[d] : got[d][i] = k
        BY <1>0 DEF UpToDate, m
    <2>2. i \in DOMAIN got'[d] /\ got'[d][i] = k
        BY <1>3, <1>4, <2>1
    <2> QED
        BY <2>2
<1> QED
    BY <1>6, <1>7, <1>8 DEF GreetInv

LEMMA GreetNext == GreetInv /\ [RoomNext]_roomVars => GreetInv'
<1> SUFFICES ASSUME GreetInv, [RoomNext]_roomVars PROVE GreetInv'
    OBVIOUS
<1>0. /\ RoomInv /\ RoomInv'
      /\ room \in SUBSET Conns /\ told \in [Conns -> Nat]
    BY RoomNextInv DEF GreetInv, RoomInv, RoomTypeOK
<1> USE DEF Kinds
<1>1. ASSUME NEW c \in Conns, Enter(c) PROVE GreetInv'
    BY <1>0, <1>1, PostGreets DEF Enter
<1>2. ASSUME NEW c \in Conns, Announce(c) PROVE GreetInv'
    BY <1>0, <1>2, PostGreets DEF Announce
<1>3. ASSUME NEW c \in Conns, Say(c) PROVE GreetInv'
    <2>1. PICK n \in (told[c] + 1)..MaxTyped : Post("say", c, n, room \ {c})
        BY <1>3 DEF Say
    <2>2. n \in Nat /\ room' = room
        BY <1>0, <1>3 DEF Say
    <2> QED
        BY <1>0, <2>1, <2>2, PostGreets
<1>4. ASSUME NEW c \in Conns, Leave(c) PROVE GreetInv'
    BY <1>0, <1>4, PostGreets DEF Leave
<1>5. ASSUME NEW c \in Conns, Refuse(c) PROVE GreetInv'
    BY <1>0, <1>5, PostGreets DEF Refuse
<1>6. ASSUME NEW c \in Conns, HangUp(c) PROVE GreetInv'
    <2>1. GreetedFirst'
        BY <1>6 DEF HangUp, GreetInv, GreetedFirst, Heard
    <2>2. GreetedBefore' /\ GreetedOnce' /\ MembersGreeted' /\ UpToDate'
        BY <1>6 DEF HangUp, GreetInv, GreetedBefore, GreetedOnce, MembersGreeted, UpToDate
    <2> QED
        BY <1>0, <2>1, <2>2 DEF GreetInv
<1>7. CASE UNCHANGED roomVars
    BY <1>0, <1>7 DEF roomVars, GreetInv, GreetedFirst, Heard, GreetedBefore, GreetedOnce,
                      MembersGreeted, UpToDate, Greets
<1> QED
    BY <1>1, <1>2, <1>3, <1>4, <1>5, <1>6, <1>7, <1>0, DeliverGreets DEF RoomNext

(* Whoever is handed anything was greeted or refused first and only once; one *)
(* who was refused is told nothing else.                                      *)
THEOREM RoomGreets == RoomSpec => []GreetedFirst
<1>1. RoomInit => GreetInv
    BY GreetInit
<1>2. GreetInv /\ [RoomNext]_roomVars => GreetInv'
    BY GreetNext
<1>3. GreetInv => GreetedFirst
    BY DEF GreetInv
<1> QED
    BY <1>1, <1>2, <1>3, PTL DEF RoomSpec
===============================================================================
