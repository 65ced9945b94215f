-------------------------- MODULE DbusNames_proofs --------------------------
(***************************************************************************)
(* Proofs about the D-Bus consumer's tables, for any connections and names *)
(* and any order of queries, timeouts, changes and messages: the two maps  *)
(* fit together, and a header tells what held when its message was sent,   *)
(* or nothing.                                                             *)
(***************************************************************************)
EXTENDS DbusNames, TLAPS

-----------------------------------------------------------------------------
(* What is left of the names when an owner is forgotten.                   *)
LEMMA NamesLeft ==
    ASSUME NEW o
    PROVE  /\ DOMAIN ForgetOwner(o) \subseteq DOMAIN mNametoOwner
           /\ \A k \in DOMAIN ForgetOwner(o) :
                 /\ ForgetOwner(o)[k] = mNametoOwner[k]
                 /\ mNametoOwner[k] # o
BY DEF ForgetOwner, NamesOf, Restrict

-----------------------------------------------------------------------------
(* The names of both maps fit, whatever happens: inductive as it stands.   *)
LEMMA NamesKept ==
    ASSUME NamesLeadToServices, [Next]_vars
    PROVE  NamesLeadToServices'
<1> USE DEF NamesLeadToServices
<1>1. CASE UNCHANGED cacheVars
    BY <1>1 DEF cacheVars
<1>2. ASSUME NEW k \in Keys, InsertService(k)
      PROVE  NamesLeadToServices'
    <2>1. PICK o \in OwnerAnswers(k) :
             /\ mNametoOwner' = InsertIn(mNametoOwner, k, o)
             /\ DOMAIN mUniqueIDtoService' = DOMAIN mUniqueIDtoService \cup {o}
        <3>1. PICK o \in OwnerAnswers(k), pid \in Keys \cup {None} :
                 /\ mNametoOwner' = InsertIn(mNametoOwner, k, o)
                 /\ mUniqueIDtoService' =
                      IF o \in DOMAIN mUniqueIDtoService
                        THEN [mUniqueIDtoService EXCEPT ![o].aliases = @ \cup {k}]
                        ELSE With(mUniqueIDtoService, o,
                                  [pid |-> pid, aliases |-> {k}])
            BY <1>2 DEF InsertService
        <3>2. DOMAIN mUniqueIDtoService' = DOMAIN mUniqueIDtoService \cup {o}
            BY <3>1 DEF With
        <3> QED BY <3>1, <3>2
    <2> QED BY <2>1 DEF InsertIn, With
<1>3. CASE HandleNameOwnerChangeEvent
    <2> DEFINE m == Head(queue)
    <2>1. ASSUME NEW pid, NewOwner(m, pid)
          PROVE  NamesLeadToServices'
        BY <2>1 DEF NewOwner, With, InsertIn
    <2>2. CASE OwnerLost(m)
        BY <2>2, NamesLeft DEF OwnerLost, Without, Restrict
    <2>3. ASSUME NEW pid, OwnerReplaced(m, pid)
          PROVE  NamesLeadToServices'
        <3>1. DOMAIN mUniqueIDtoService'
                = (DOMAIN mUniqueIDtoService \ {m.old}) \cup {m.new}
            BY <2>3 DEF OwnerReplaced, MovedService, InsertIn, With, Without,
                        Restrict
        <3>2. mNametoOwner' = InsertIn(ForgetOwner(m.old), m.name, m.new)
            BY <2>3 DEF OwnerReplaced
        <3> QED BY <3>1, <3>2, NamesLeft DEF InsertIn, With
    <2> QED BY <1>3, <2>1, <2>2, <2>3 DEF HandleNameOwnerChangeEvent
<1>4. CASE Next
    <2>1. CASE \E c \in Conns : ConnectionOpens(c) \/ ConnectionCloses(c)
        BY <1>1, <2>1 DEF ConnectionOpens, ConnectionCloses
    <2>2. CASE \E n \in Names, c \in Conns \cup {None} : OwnerChanges(n, c)
        BY <1>1, <2>2 DEF OwnerChanges
    <2>3. CASE \E s \in Conns, r \in Keys \cup {None} : MessageSent(s, r)
        BY <1>1, <2>3 DEF MessageSent
    <2>4. CASE ListNames \/ Subscribe \/ CreateDbusMessageHeader
        BY <1>1, <2>4 DEF ListNames, Subscribe, CreateDbusMessageHeader
    <2> QED BY <1>2, <1>3, <1>4, <2>1, <2>2, <2>3, <2>4 DEF Next
<1> QED BY <1>1, <1>4 DEF vars

-----------------------------------------------------------------------------
(* Of a connection the consumer knows the right process, or none.          *)
ServicesTrue ==
    \A o \in DOMAIN mUniqueIDtoService \ Names :
        mUniqueIDtoService[o].pid \in {o, None}

(* What stands in the queue comes from a connection, and changes owners    *)
(* only among connections.                                                 *)
Entry == [kind : {"ownerChanged"}, name : Keys, old : Conns \cup {None},
          new : Conns \cup {None}]
         \cup [kind : {"message"}, sender : Conns, receiver : Keys \cup {None},
               names : SUBSET Names, owner : Conns \cup {None}]

QueueTyped == queue \in Seq(Entry)

OwnersTyped == /\ alive \subseteq Conns
               /\ owner \in [Names -> Conns \cup {None}]

(* The sender a header names is the one whose process it gives.            *)
SenderTold == header.pid \in {header.sender, None}

SenderInv == /\ ServicesTrue
             /\ QueueTyped
             /\ OwnersTyped
             /\ SenderTold

LEMMA SenderInit == Init => SenderInv
BY NamesAssumption
   DEF Init, SenderInv, ServicesTrue, QueueTyped, OwnersTyped, SenderTold,
       Emptied, NoHeader

(* A query about a connection tells of this connection.                    *)
LEMMA AnswerTrue ==
    ASSUME NEW k, k \notin Names, NEW pid \in ServiceAnswers(k)
    PROVE  pid \in {k, None}
BY DEF ServiceAnswers

(* The bus appends entries of their kind.                                  *)
LEMMA BusKeeps ==
    ASSUME SenderInv,
           \/ \E c \in Conns : ConnectionOpens(c) \/ ConnectionCloses(c)
           \/ \E n \in Names, c \in Conns \cup {None} : OwnerChanges(n, c)
           \/ \E s \in Conns, r \in Keys \cup {None} : MessageSent(s, r)
    PROVE  SenderInv'
<1> USE DEF SenderInv, ServicesTrue, OwnersTyped, SenderTold, cacheVars, busVars
<1>1. ASSUME NEW n \in Keys, NEW old \in Conns \cup {None},
             NEW new \in Conns \cup {None}, Changed(n, old, new)
      PROVE  QueueTyped'
    <2> DEFINE e == [kind |-> "ownerChanged", name |-> n, old |-> old,
                     new |-> new]
    <2>1. e \in Entry
        BY DEF Entry
    <2>2. queue' = queue \/ queue' = Append(queue, e)
        BY <1>1 DEF Changed
    <2> HIDE DEF e
    <2> QED BY <2>1, <2>2 DEF QueueTyped
<1>2. ASSUME NEW c \in Conns, ConnectionOpens(c) PROVE SenderInv'
    BY <1>1, <1>2 DEF ConnectionOpens, Keys
<1>3. ASSUME NEW c \in Conns, ConnectionCloses(c) PROVE SenderInv'
    BY <1>1, <1>3 DEF ConnectionCloses, Keys
<1>4. ASSUME NEW n \in Names, NEW c \in Conns \cup {None}, OwnerChanges(n, c)
      PROVE  SenderInv'
    BY <1>1, <1>4 DEF OwnerChanges, Keys
<1>5. ASSUME NEW s \in Conns, NEW r \in Keys \cup {None}, MessageSent(s, r)
      PROVE  SenderInv'
    <2> DEFINE e == [kind |-> "message", sender |-> s, receiver |-> r,
                     names |-> OwnedBy(s),
                     owner |-> IF r \in Names THEN owner[r] ELSE r]
    <2>1. e.owner \in Conns \cup {None}
        BY DEF Keys
    <2>2. e \in Entry
        BY <2>1 DEF Entry, OwnedBy
    <2>3. queue' = Append(queue, e)
        BY <1>5 DEF MessageSent
    <2> HIDE DEF e
    <2>4. QueueTyped'
        BY <2>2, <2>3 DEF QueueTyped
    <2> QED BY <1>5, <2>4 DEF MessageSent
<1> QED BY <1>2, <1>3, <1>4, <1>5

(* The consumer's queries before the match rules.                          *)
LEMMA InsertKeeps ==
    ASSUME SenderInv, NEW k \in Keys, InsertService(k)
    PROVE  SenderInv'
<1> USE DEF SenderInv, ServicesTrue, QueueTyped, OwnersTyped, SenderTold
<1>1. PICK o \in OwnerAnswers(k), pid \in Keys \cup {None} :
         /\ pid \in ServiceAnswers(o)
         /\ mUniqueIDtoService' =
              IF o \in DOMAIN mUniqueIDtoService
                THEN [mUniqueIDtoService EXCEPT ![o].aliases = @ \cup {k}]
                ELSE With(mUniqueIDtoService, o,
                          [pid |-> pid, aliases |-> {k}])
    BY DEF InsertService
<1>2. CASE o \in DOMAIN mUniqueIDtoService
    <2>1. DOMAIN mUniqueIDtoService' = DOMAIN mUniqueIDtoService
        BY <1>1, <1>2
    <2>2. \A x \in DOMAIN mUniqueIDtoService :
             mUniqueIDtoService'[x].pid = mUniqueIDtoService[x].pid
        BY <1>1, <1>2
    <2>3. ServicesTrue'
        BY <2>1, <2>2
    <2> QED BY <2>3 DEF InsertService, busVars
<1>3. CASE o \notin DOMAIN mUniqueIDtoService
    <2>1. mUniqueIDtoService'
            = With(mUniqueIDtoService, o, [pid |-> pid, aliases |-> {k}])
        BY <1>1, <1>3
    <2>2. ServicesTrue'
        BY <1>1, <1>3, <2>1, AnswerTrue DEF With
    <2> QED BY <2>2 DEF InsertService, busVars
<1> QED BY <1>2, <1>3

(* A change of an owner replaces what was known of it.                     *)
LEMMA ChangeKeeps ==
    ASSUME SenderInv, HandleNameOwnerChangeEvent
    PROVE  SenderInv'
<1> DEFINE m == Head(queue)
<1>1. m \in Entry /\ m.kind = "ownerChanged" /\ Tail(queue) \in Seq(Entry)
    BY DEF HandleNameOwnerChangeEvent, SenderInv, QueueTyped
<1>2. m.new \in Conns \cup {None}
    BY <1>1 DEF Entry
<1>3. m.new \notin Names
    BY <1>2, NamesAssumption
<1>4. ASSUME NEW pid \in ServiceAnswers(m.new), NewOwner(m, pid)
      PROVE  ServicesTrue'
    <2>1. NewService(m, pid).pid \in {m.new, None}
        BY <1>3, <1>4, AnswerTrue DEF NewService
    <2>2. mUniqueIDtoService'
            = With(mUniqueIDtoService, m.new, NewService(m, pid))
        BY <1>4 DEF NewOwner
    <2> QED BY <2>1, <2>2 DEF ServicesTrue, SenderInv, With
<1>5. ASSUME OwnerLost(m)
      PROVE  ServicesTrue'
    <2> DEFINE f == Without(mUniqueIDtoService, m.old)
    <2>1. mUniqueIDtoService' = f
        BY <1>5 DEF OwnerLost
    <2>2. \A x \in DOMAIN f \ Names : f[x].pid \in {x, None}
        BY DEF ServicesTrue, SenderInv, Without, Restrict
    <2> HIDE DEF f
    <2> QED BY <2>1, <2>2 DEF ServicesTrue
<1>6. ASSUME NEW pid \in ServiceAnswers(m.new), OwnerReplaced(m, pid)
      PROVE  ServicesTrue'
    <2>1. NewService(m, pid).pid \in {m.new, None}
        BY <1>3, <1>6, AnswerTrue DEF NewService
    <2> DEFINE f == Without(mUniqueIDtoService, m.old)
    <2>2. mUniqueIDtoService' = InsertIn(f, m.new, NewService(m, pid))
        BY <1>6 DEF OwnerReplaced, MovedService
    <2>3. \A x \in DOMAIN f \ Names : f[x].pid \in {x, None}
        BY DEF ServicesTrue, SenderInv, Without, Restrict
    <2> HIDE DEF f
    <2> QED BY <2>1, <2>2, <2>3 DEF ServicesTrue, InsertIn, With
<1>7. ServicesTrue'
    <2>1. \/ \E pid \in ServiceAnswers(m.new) : NewOwner(m, pid)
          \/ OwnerLost(m)
          \/ \E pid \in ServiceAnswers(m.new) : OwnerReplaced(m, pid)
        BY DEF HandleNameOwnerChangeEvent
    <2> QED BY <1>4, <1>5, <1>6, <2>1
<1>8. SenderTold'
    BY DEF HandleNameOwnerChangeEvent, SenderTold, NoHeader
<1> QED
    BY <1>1, <1>7, <1>8
       DEF HandleNameOwnerChangeEvent, SenderInv, QueueTyped, OwnersTyped,
           busVars

(* The header of a message is made from what is known of its sender.       *)
LEMMA HeaderKeeps ==
    ASSUME SenderInv, CreateDbusMessageHeader
    PROVE  SenderInv'
<1> DEFINE m == Head(queue)
<1>1. m \in Entry /\ m.kind = "message" /\ Tail(queue) \in Seq(Entry)
    BY DEF CreateDbusMessageHeader, SenderInv, QueueTyped
<1>2. m.sender \in Conns \ Names
    BY <1>1, NamesAssumption DEF Entry
<1>3. PidOf(m.sender) \in {m.sender, None}
    BY <1>2 DEF PidOf, SenderInv, ServicesTrue
<1>4. header'.sender = m.sender /\ header'.pid = PidOf(m.sender)
    BY DEF CreateDbusMessageHeader
<1>5. SenderTold'
    BY <1>3, <1>4 DEF SenderTold
<1> QED
    BY <1>1, <1>5
       DEF CreateDbusMessageHeader, SenderInv, QueueTyped, OwnersTyped,
           ServicesTrue, busVars, cacheVars

LEMMA SenderNext == SenderInv /\ [Next]_vars => SenderInv'
<1> SUFFICES ASSUME SenderInv, [Next]_vars PROVE SenderInv'
    OBVIOUS
<1>1. CASE ListNames \/ Subscribe \/ UNCHANGED vars
    BY <1>1 DEF ListNames, Subscribe, vars, busVars, cacheVars, SenderInv,
                ServicesTrue, QueueTyped, OwnersTyped, SenderTold
<1> QED
    BY <1>1, BusKeeps, InsertKeeps, ChangeKeeps, HeaderKeeps DEF Next

-----------------------------------------------------------------------------
(* The rest of HeadersTellTheTruth needs to know who owned what when.  The *)
(* queue is a diary of the bus: a function truth gives the owners of the   *)
(* names after each of its entries; the last of them is the truth of now,  *)
(* and the consumer knows no more than the first.                          *)

Owners == [Names -> Conns \cup {None}]

(* What an entry says of the owners before and after it.                   *)
Follows(m, before, after) ==
    \/ /\ m.kind = "message"
       /\ after = before
       /\ m.names = {n \in Names : before[n] = m.sender}
       /\ m.owner = IF m.receiver \in Names THEN before[m.receiver]
                                            ELSE m.receiver
    \/ /\ m.kind = "ownerChanged"
       /\ m.old # m.new
       /\ m.name \in Names
       /\ before[m.name] = m.old
       /\ after = [before EXCEPT ![m.name] = m.new]
    \/ /\ m.kind = "ownerChanged"
       /\ m.old # m.new
       /\ m.name \in Conns
       /\ {m.old, m.new} \subseteq {None, m.name}
       /\ after = before

Diary(truth) ==
    /\ truth \in [0..Len(queue) -> Owners]
    /\ truth[Len(queue)] = owner
    /\ \A i \in 1..Len(queue) : Follows(queue[i], truth[i - 1], truth[i])

(* A name the consumer resolves is resolved as it was then ...             *)
NamesRight(now) ==
    \A k \in DOMAIN mNametoOwner :
        /\ k \in Keys
        /\ mNametoOwner[k] \in Conns
        /\ mNametoOwner[k] = IF k \in Names THEN now[k] ELSE k

(* ... and a service it knows has no process and no names but its own.     *)
ServicesRight(now) ==
    \A o \in DOMAIN mUniqueIDtoService :
        /\ o \in Conns
        /\ mUniqueIDtoService[o].pid \in {o, None}
        /\ \A a \in mUniqueIDtoService[o].aliases :
              a = o \/ (a \in Names /\ now[a] = o)

CacheRight ==
    exact => \E truth : /\ Diary(truth)
                        /\ NamesRight(truth[0])
                        /\ ServicesRight(truth[0])

(* Before the match rules nothing is captured, and before the queries      *)
(* nothing is known.                                                       *)
PhasesInOrder ==
    /\ phase # "subscribed" => queue = <<>>
    /\ phase = "list" => /\ DOMAIN mUniqueIDtoService = {}
                         /\ DOMAIN mNametoOwner = {}

HeaderTold ==
    exact => /\ header.receiverPid \in {header.owner, None}
             /\ header.aliases \subseteq header.names

HeaderInv == /\ SenderInv
             /\ PhasesInOrder
             /\ CacheRight
             /\ HeaderTold

(* A diary of nothing says that the owners are what they are.              *)
LEMMA EmptyDiary ==
    ASSUME queue = <<>>, owner \in Owners
    PROVE  /\ Diary([i \in {0} |-> owner])
           /\ \A truth : Diary(truth) => truth[0] = owner
<1>1. Len(queue) = 0 /\ 0..Len(queue) = {0}
    OBVIOUS
<1> QED BY <1>1 DEF Diary

LEMMA HeaderInit == Init => HeaderInv
<1> SUFFICES ASSUME Init PROVE HeaderInv
    OBVIOUS
<1>1. SenderInv
    BY SenderInit
<1>2. owner \in Owners /\ queue = <<>>
    BY DEF Init, Owners
<1>3. /\ DOMAIN mUniqueIDtoService = {}
      /\ DOMAIN mNametoOwner = {}
    BY DEF Init, Emptied
<1>4. CacheRight
    <2> DEFINE truth == [i \in {0} |-> owner]
    <2>1. Diary(truth)
        BY <1>2, EmptyDiary
    <2>2. NamesRight(truth[0]) /\ ServicesRight(truth[0])
        BY <1>3 DEF NamesRight, ServicesRight
    <2> HIDE DEF truth
    <2> QED BY <2>1, <2>2 DEF CacheRight
<1>5. PhasesInOrder /\ HeaderTold
    BY <1>2, <1>3 DEF Init, PhasesInOrder, HeaderTold, NoHeader
<1> QED BY <1>1, <1>4, <1>5 DEF HeaderInv

(* The bus writes one more entry; what is known stays right.               *)
LEMMA DiaryGrows ==
    ASSUME CacheRight, QueueTyped, OwnersTyped, exact' => exact,
           NEW m \in Entry, queue' = Append(queue, m),
           owner' \in Owners, Follows(m, owner, owner'),
           UNCHANGED cacheVars
    PROVE  CacheRight'
<1> SUFFICES ASSUME exact'
             PROVE  \E t : Diary(t)' /\ NamesRight(t[0])' /\ ServicesRight(t[0])'
    BY DEF CacheRight
<1>1. PICK truth : /\ Diary(truth)
                   /\ NamesRight(truth[0])
                   /\ ServicesRight(truth[0])
    BY DEF CacheRight
<1> DEFINE n == Len(queue)
<1> PICK t : t = [i \in 0..(n + 1) |-> IF i = n + 1 THEN owner' ELSE truth[i]]
    OBVIOUS
<1>2. /\ n \in Nat
      /\ Len(queue') = n + 1
      /\ \A i \in 1..n : queue'[i] = queue[i]
      /\ queue'[n + 1] = m
    BY DEF QueueTyped
<1>3. /\ t[0] = truth[0]
      /\ t[n + 1] = owner'
      /\ t[n] = owner
      /\ t \in [0..(n + 1) -> Owners]
      /\ \A i \in 1..n : t[i] = truth[i] /\ t[i - 1] = truth[i - 1]
    BY <1>1, <1>2 DEF Diary
<1> HIDE DEF n
<1>4. \A i \in 1..(n + 1) : Follows(queue'[i], t[i - 1], t[i])
    <2> SUFFICES ASSUME NEW i \in 1..(n + 1)
                 PROVE  Follows(queue'[i], t[i - 1], t[i])
        OBVIOUS
    <2>1. CASE i = n + 1
        BY <1>2, <1>3, <2>1
    <2>2. CASE i # n + 1
        <3>1. i \in 1..n
            BY <1>2, <2>2
        <3>2. Follows(queue[i], truth[i - 1], truth[i])
            BY <1>1, <3>1 DEF Diary, n
        <3> QED BY <1>2, <1>3, <3>1, <3>2
    <2> QED BY <2>1, <2>2
<1>5. Diary(t)'
    BY <1>2, <1>3, <1>4 DEF Diary
<1>6. NamesRight(t[0])' /\ ServicesRight(t[0])'
    <2>1. UNCHANGED mNametoOwner /\ UNCHANGED mUniqueIDtoService
        BY DEF cacheVars
    <2>2. NamesRight(truth[0])' /\ ServicesRight(truth[0])'
        BY <1>1, <2>1 DEF NamesRight, ServicesRight
    <2> QED BY <1>3, <2>2
<1> QED BY <1>5, <1>6

(* The bus: nothing known changes, and the diary goes on.                  *)
LEMMA ChangeNoted ==
    ASSUME HeaderInv, NEW n \in Keys, NEW old \in Conns \cup {None},
           NEW new \in Conns \cup {None}, Changed(n, old, new),
           old # new, owner' \in Owners,
           \/ /\ n \in Names
              /\ owner[n] = old
              /\ owner' = [owner EXCEPT ![n] = new]
           \/ /\ n \in Conns
              /\ {old, new} \subseteq {None, n}
              /\ owner' = owner,
           UNCHANGED <<phase, cacheVars, header>>
    PROVE  CacheRight' /\ PhasesInOrder' /\ HeaderTold'
<1> USE DEF HeaderInv
<1> DEFINE e == [kind |-> "ownerChanged", name |-> n, old |-> old, new |-> new]
<1>1. CASE phase = "subscribed"
    <2>1. queue' = Append(queue, e) /\ exact' = exact
        BY <1>1 DEF Changed
    <2>2. e \in Entry
        BY DEF Entry
    <2>3. Follows(e, owner, owner')
        BY DEF Follows
    <2> HIDE DEF e
    <2>4. CacheRight'
        BY <2>1, <2>2, <2>3, DiaryGrows DEF SenderInv
    <2> QED BY <1>1, <2>1, <2>4 DEF PhasesInOrder, HeaderTold
<1>2. CASE phase # "subscribed"
    <2>1. queue' = <<>> /\ exact' = (exact /\ phase = "list")
        BY <1>2 DEF Changed, PhasesInOrder
    <2>2. PhasesInOrder' /\ HeaderTold'
        BY <2>1 DEF PhasesInOrder, HeaderTold, cacheVars
    <2>3. CASE phase = "list"
        <3> DEFINE t == [i \in {0} |-> owner]
        <3>1. Diary(t)'
            <4>1. Len(queue') = 0 /\ 0..Len(queue') = {0}
                BY <2>1
            <4> QED BY <4>1 DEF Diary
        <3>2. NamesRight(t[0])' /\ ServicesRight(t[0])'
            BY <2>3 DEF NamesRight, ServicesRight, PhasesInOrder, cacheVars
        <3> HIDE DEF t
        <3>3. CacheRight'
            BY <3>1, <3>2 DEF CacheRight
        <3> QED BY <2>2, <3>3
    <2>4. CASE phase # "list"
        BY <2>1, <2>2, <2>4 DEF CacheRight
    <2> QED BY <2>3, <2>4
<1> QED BY <1>1, <1>2

LEMMA BusKeepsDiary ==
    ASSUME HeaderInv,
           \/ \E c \in Conns : ConnectionOpens(c) \/ ConnectionCloses(c)
           \/ \E n \in Names, c \in Conns \cup {None} : OwnerChanges(n, c)
           \/ \E s \in Conns, r \in Keys \cup {None} : MessageSent(s, r)
    PROVE  HeaderInv'
<1>1. SenderInv' /\ OwnersTyped /\ owner \in Owners /\ owner' \in Owners
    BY BusKeeps DEF HeaderInv, SenderInv, OwnersTyped, Owners
<1>2. ASSUME NEW c \in Conns, ConnectionOpens(c) \/ ConnectionCloses(c)
      PROVE  CacheRight' /\ PhasesInOrder' /\ HeaderTold'
    <2>1. PICK old \in {None, c}, new \in {None, c} :
             old # new /\ Changed(c, old, new)
        BY <1>2, NamesAssumption DEF ConnectionOpens, ConnectionCloses
    <2>2. owner' = owner /\ UNCHANGED <<phase, cacheVars, header>>
        BY <1>2 DEF ConnectionOpens, ConnectionCloses
    <2> QED BY <1>1, <2>1, <2>2, ChangeNoted DEF Keys
<1>3. ASSUME NEW n \in Names, NEW c \in Conns \cup {None}, OwnerChanges(n, c)
      PROVE  CacheRight' /\ PhasesInOrder' /\ HeaderTold'
    <2>1. owner[n] \in Conns \cup {None} /\ owner[n] # c
        BY <1>1, <1>3 DEF Owners, OwnerChanges
    <2> QED BY <1>1, <1>3, <2>1, ChangeNoted DEF Keys, OwnerChanges
<1>4. ASSUME NEW s \in Conns, NEW r \in Keys \cup {None}, MessageSent(s, r)
      PROVE  CacheRight' /\ PhasesInOrder' /\ HeaderTold'
    <2> DEFINE e == [kind |-> "message", sender |-> s, receiver |-> r,
                     names |-> OwnedBy(s),
                     owner |-> IF r \in Names THEN owner[r] ELSE r]
    <2>1. e.owner \in Conns \cup {None}
        BY <1>1 DEF Keys, Owners
    <2>2. e \in Entry
        BY <2>1 DEF Entry, OwnedBy
    <2>3. queue' = Append(queue, e) /\ exact' = exact /\ phase = "subscribed"
        BY <1>4 DEF MessageSent
    <2>4. Follows(e, owner, owner') /\ UNCHANGED <<cacheVars, header, phase>>
        BY <1>4 DEF Follows, MessageSent, OwnedBy, busVars
    <2> HIDE DEF e
    <2>5. CacheRight'
        BY <1>1, <2>2, <2>3, <2>4, DiaryGrows DEF HeaderInv, SenderInv
    <2> QED
        BY <2>3, <2>4, <2>5 DEF PhasesInOrder, HeaderTold, HeaderInv, cacheVars
<1> QED BY <1>1, <1>2, <1>3, <1>4 DEF HeaderInv

(* The queries: an exact answer is the owner.                              *)
LEMMA InsertKeepsDiary ==
    ASSUME HeaderInv, NEW k \in Keys, InsertService(k)
    PROVE  HeaderInv'
<1> USE DEF HeaderInv
<1>1. SenderInv'
    BY InsertKeeps
<1>2. PhasesInOrder' /\ HeaderTold' /\ queue' = <<>>
    BY DEF InsertService, PhasesInOrder, HeaderTold
<1>3. ASSUME exact' PROVE CacheRight'
    <2>1. PICK o \in OwnerAnswers(k), pid \in Keys \cup {None} :
             /\ pid \in ServiceAnswers(o)
             /\ mNametoOwner' = InsertIn(mNametoOwner, k, o)
             /\ mUniqueIDtoService' =
                  IF o \in DOMAIN mUniqueIDtoService
                    THEN [mUniqueIDtoService EXCEPT ![o].aliases = @ \cup {k}]
                    ELSE With(mUniqueIDtoService, o,
                              [pid |-> pid, aliases |-> {k}])
             /\ exact' = (exact /\ o \in Conns)
        BY DEF InsertService
    <2>2. exact /\ o \in Conns /\ o \notin Names
        BY <1>3, <2>1, NamesAssumption
    <2>3. queue = <<>> /\ owner \in Owners /\ owner' = owner
        BY <1>2 DEF InsertService, busVars, SenderInv, OwnersTyped, Owners
    <2>4. Diary([i \in {0} |-> owner]) /\ NamesRight(owner)
          /\ ServicesRight(owner)
        BY <2>2, <2>3, EmptyDiary DEF CacheRight
    <2>5. Diary([i \in {0} |-> owner])'
        BY <1>2, <2>3, <2>4 DEF Diary
    <2>6. o = IF k \in Names THEN owner[k] ELSE k
        BY <2>2, NamesAssumption DEF OwnerAnswers, Keys
    <2>7. NamesRight(owner)'
        BY <2>1, <2>2, <2>3, <2>4, <2>6 DEF NamesRight, InsertIn, With
    <2>8. k = o \/ (k \in Names /\ owner[k] = o)
        BY <2>6
    <2>9. CASE o \in DOMAIN mUniqueIDtoService
        <3>1. DOMAIN mUniqueIDtoService' = DOMAIN mUniqueIDtoService
            BY <2>1, <2>9
        <3>2. ASSUME NEW x \in DOMAIN mUniqueIDtoService
              PROVE  /\ mUniqueIDtoService'[x].pid = mUniqueIDtoService[x].pid
                     /\ mUniqueIDtoService'[x].aliases
                          \subseteq mUniqueIDtoService[x].aliases
                                    \cup IF x = o THEN {k} ELSE {}
            BY <2>1, <2>9
        <3>3. ServicesRight(owner)'
            BY <2>3, <2>4, <2>8, <3>1, <3>2 DEF ServicesRight
        <3> QED BY <2>3, <2>5, <2>7, <3>3 DEF CacheRight
    <2>10. CASE o \notin DOMAIN mUniqueIDtoService
        <3>1. pid \in {o, None}
            BY <2>1, <2>2, AnswerTrue
        <3>2. mUniqueIDtoService'
                = With(mUniqueIDtoService, o, [pid |-> pid, aliases |-> {k}])
            BY <2>1, <2>10
        <3>3. ServicesRight(owner)'
            BY <2>2, <2>3, <2>4, <2>8, <2>10, <3>1, <3>2
               DEF ServicesRight, With
        <3> QED BY <2>3, <2>5, <2>7, <3>3 DEF CacheRight
    <2> QED BY <2>9, <2>10
<1> QED BY <1>1, <1>2, <1>3 DEF CacheRight

(* The consumer takes the first entry: the diary begins after it.          *)
LEMMA DiaryTail ==
    ASSUME QueueTyped, queue # <<>>, NEW truth, Diary(truth),
           queue' = Tail(queue), owner' = owner
    PROVE  /\ Follows(Head(queue), truth[0], truth[1])
           /\ truth[0] \in Owners
           /\ \E t : Diary(t)' /\ t[0] = truth[1]
<1> DEFINE n == Len(queue)
<1> PICK t : t = [i \in 0..(n - 1) |-> truth[i + 1]]
    OBVIOUS
<1>1. /\ n \in Nat \ {0}
      /\ Head(queue) = queue[1]
      /\ Len(queue') = n - 1
      /\ \A i \in 1..(n - 1) : queue'[i] = queue[i + 1]
    BY DEF QueueTyped
<1>2. /\ t \in [0..(n - 1) -> Owners]
      /\ t[n - 1] = truth[n]
      /\ \A i \in 1..(n - 1) : t[i - 1] = truth[i] /\ t[i] = truth[i + 1]
      /\ t[0] = truth[1]
    BY <1>1 DEF Diary
<1>3. Follows(queue[1], truth[0], truth[1]) /\ truth[0] \in Owners
    BY <1>1 DEF Diary
<1>4. \A i \in 1..(n - 1) : Follows(queue[i + 1], truth[i], truth[i + 1])
    <2> SUFFICES ASSUME NEW i \in 1..(n - 1)
                 PROVE  Follows(queue[i + 1], truth[i], truth[i + 1])
        OBVIOUS
    <2>1. i + 1 \in 1..n /\ (i + 1) - 1 = i
        BY <1>1
    <2>2. Follows(queue[i + 1], truth[(i + 1) - 1], truth[i + 1])
        BY <2>1 DEF Diary
    <2> QED BY <2>1, <2>2
<1>5. Diary(t)'
    <2>1. t[Len(queue')] = owner'
        BY <1>1, <1>2 DEF Diary
    <2>2. \A i \in 1..Len(queue') : Follows(queue'[i], t[i - 1], t[i])
        BY <1>1, <1>2, <1>4
    <2> HIDE DEF n
    <2> QED BY <1>1, <1>2, <2>1, <2>2 DEF Diary
<1> QED BY <1>1, <1>2, <1>3, <1>5

(* The three kinds of changes, seen from the owners before and after.      *)
LEMMA ChangeKnown ==
    ASSUME HeaderInv, NEW m \in Entry, m.kind = "ownerChanged",
           NEW before \in Owners, NEW after, Follows(m, before, after),
           NamesRight(before), ServicesRight(before),
           \/ /\ m.old = None
              /\ \E pid \in ServiceAnswers(m.new) : NewOwner(m, pid)
           \/ /\ m.new = None
              /\ OwnerLost(m)
           \/ /\ None \notin {m.old, m.new}
              /\ \E pid \in ServiceAnswers(m.new) : OwnerReplaced(m, pid)
    PROVE  NamesRight(after)' /\ ServicesRight(after)'
<1>1. /\ m.name \in Keys
      /\ m.old \in Conns \cup {None}
      /\ m.new \in Conns \cup {None}
      /\ m.old # m.new
      /\ m.new \notin Names
    BY NamesAssumption DEF Entry, Follows
<1>2. \/ /\ m.name \in Names
         /\ before[m.name] = m.old
         /\ after[m.name] = m.new
         /\ \A k \in Names \ {m.name} : after[k] = before[k]
      \/ /\ m.name \in Conns
         /\ m.name \notin Names
         /\ {m.old, m.new} \subseteq {None, m.name}
         /\ after = before
    BY NamesAssumption DEF Follows, Owners
<1>3. ASSUME m.new # None, NEW pid \in ServiceAnswers(m.new)
      PROVE  /\ NewService(m, pid).pid \in {m.new, None}
             /\ \A a \in NewService(m, pid).aliases :
                   a = m.new \/ (a \in Names /\ after[a] = m.new)
    <2>1. NewService(m, pid).pid \in {m.new, None}
        BY <1>1, AnswerTrue DEF NewService
    <2>2. m.name = m.new \/ (m.name \in Names /\ after[m.name] = m.new)
        BY <1>2, <1>3
    <2> QED BY <2>1, <2>2 DEF NewService
<1>4. CASE m.old = None
    <2>1. PICK pid \in ServiceAnswers(m.new) : NewOwner(m, pid)
        BY <1>1, <1>4
    <2>2. m.new # None
        BY <1>1, <1>4
    <2>3. NamesRight(after)'
        <3>1. mNametoOwner' = InsertIn(mNametoOwner, m.name, m.new)
            BY <2>1 DEF NewOwner
        <3>2. m.name \in Names => m.name \notin DOMAIN mNametoOwner
            BY <1>2, <1>4, NamesAssumption DEF NamesRight
        <3>3. m.name \notin Names => m.name = m.new
            BY <1>2, <2>2
        <3> QED BY <1>1, <1>2, <2>2, <3>1, <3>2, <3>3
                DEF NamesRight, InsertIn, With
    <2>4. ServicesRight(after)'
        <3>1. mUniqueIDtoService'
                = With(mUniqueIDtoService, m.new, NewService(m, pid))
            BY <2>1 DEF NewOwner
        <3>2. \A o \in DOMAIN mUniqueIDtoService :
                 \A a \in mUniqueIDtoService[o].aliases :
                    a = o \/ (a \in Names /\ after[a] = o)
            BY <1>2, <1>4, NamesAssumption DEF ServicesRight
        <3> QED BY <1>1, <1>3, <2>2, <3>1, <3>2 DEF ServicesRight, With
    <2> QED BY <2>3, <2>4
<1>5. CASE m.new = None
    <2>1. OwnerLost(m) /\ m.old \in Conns
        BY <1>1, <1>5
    <2>2. NamesRight(after)'
        <3>1. mNametoOwner' = ForgetOwner(m.old)
            BY <2>1 DEF OwnerLost
        <3>2. \A k \in DOMAIN ForgetOwner(m.old) : k \in Names => after[k] = before[k]
            BY <1>2, NamesLeft DEF NamesRight
        <3> QED BY <3>1, <3>2, NamesLeft DEF NamesRight
    <2>3. ServicesRight(after)'
        <3> DEFINE f == Without(mUniqueIDtoService, m.old)
        <3>1. mUniqueIDtoService' = f
            BY <2>1 DEF OwnerLost
        <3>2. /\ DOMAIN f = DOMAIN mUniqueIDtoService \ {m.old}
              /\ \A o \in DOMAIN f : f[o] = mUniqueIDtoService[o]
            BY DEF Without, Restrict
        <3> HIDE DEF f
        <3>3. ASSUME NEW o \in DOMAIN f, NEW a \in f[o].aliases
              PROVE  a = o \/ (a \in Names /\ after[a] = o)
            BY <1>2, <3>2, <3>3 DEF ServicesRight
        <3> QED BY <3>1, <3>2, <3>3 DEF ServicesRight
    <2> QED BY <2>2, <2>3
<1>6. CASE None \notin {m.old, m.new}
    <2>1. PICK pid \in ServiceAnswers(m.new) : OwnerReplaced(m, pid)
        BY <1>6
    <2>2. /\ m.old \in Conns
          /\ m.new \in Conns
          /\ m.name \in Names
          /\ before[m.name] = m.old
          /\ after[m.name] = m.new
          /\ \A k \in Names \ {m.name} : after[k] = before[k]
        BY <1>1, <1>2, <1>6
    <2>3. NamesRight(after)'
        <3>1. mNametoOwner' = InsertIn(ForgetOwner(m.old), m.name, m.new)
            BY <2>1 DEF OwnerReplaced
        <3>2. m.name \notin DOMAIN ForgetOwner(m.old)
            BY <2>2, NamesLeft DEF NamesRight
        <3> DEFINE f == ForgetOwner(m.old)
        <3>3. \A k \in DOMAIN f : /\ k \in Keys
                                  /\ f[k] \in Conns
                                  /\ f[k] = IF k \in Names THEN after[k] ELSE k
            BY <2>2, <3>2, NamesLeft DEF NamesRight
        <3>4. mNametoOwner' = With(f, m.name, m.new)
            BY <3>1, <3>2 DEF InsertIn
        <3> HIDE DEF f
        <3> QED BY <1>1, <2>2, <3>3, <3>4 DEF NamesRight, With
    <2>4. ServicesRight(after)'
        <3> DEFINE f == Without(mUniqueIDtoService, m.old)
        <3>1. mUniqueIDtoService' = InsertIn(f, m.new, NewService(m, pid))
            BY <2>1 DEF OwnerReplaced, MovedService
        <3>2. /\ DOMAIN f = DOMAIN mUniqueIDtoService \ {m.old}
              /\ \A o \in DOMAIN f : f[o] = mUniqueIDtoService[o]
            BY DEF Without, Restrict
        <3> HIDE DEF f
        <3>3. \A o \in DOMAIN f : /\ o \in Conns
                                  /\ f[o].pid \in {o, None}
            BY <3>2 DEF ServicesRight
        <3>4. ASSUME NEW o \in DOMAIN f, NEW a \in f[o].aliases
              PROVE  a = o \/ (a \in Names /\ after[a] = o)
            BY <2>2, <3>2, <3>4 DEF ServicesRight
        <3>5. CASE m.new \in DOMAIN f
            BY <3>1, <3>3, <3>4, <3>5 DEF ServicesRight, InsertIn
        <3>6. CASE m.new \notin DOMAIN f
            <4>1. mUniqueIDtoService' = With(f, m.new, NewService(m, pid))
                BY <3>1, <3>6 DEF InsertIn
            <4>2. /\ NewService(m, pid).pid \in {m.new, None}
                  /\ \A a \in NewService(m, pid).aliases :
                        a = m.new \/ (a \in Names /\ after[a] = m.new)
                BY <1>3, <1>6
            <4> QED BY <2>2, <3>3, <3>4, <4>1, <4>2 DEF ServicesRight, With
        <3> QED BY <3>5, <3>6
    <2> QED BY <2>3, <2>4
<1> QED BY <1>4, <1>5, <1>6

LEMMA ChangeKeepsDiary ==
    ASSUME HeaderInv, HandleNameOwnerChangeEvent
    PROVE  HeaderInv'
<1> USE DEF HeaderInv
<1> DEFINE m == Head(queue)
<1>1. SenderInv' /\ QueueTyped
    BY ChangeKeeps DEF SenderInv
<1>2. /\ queue # <<>>
      /\ m.kind = "ownerChanged"
      /\ queue' = Tail(queue)
      /\ header' = NoHeader
      /\ UNCHANGED <<owner, phase, exact>>
    BY DEF HandleNameOwnerChangeEvent, busVars
<1>3. m \in Entry /\ phase = "subscribed"
    BY <1>1, <1>2 DEF QueueTyped, PhasesInOrder
<1>4. PhasesInOrder' /\ HeaderTold'
    BY <1>2, <1>3 DEF PhasesInOrder, HeaderTold, NoHeader
<1>5. ASSUME exact PROVE CacheRight'
    <2>1. PICK truth : /\ Diary(truth)
                       /\ NamesRight(truth[0])
                       /\ ServicesRight(truth[0])
        BY <1>5 DEF CacheRight
    <2>2. /\ Follows(m, truth[0], truth[1])
          /\ truth[0] \in Owners
          /\ \E t : Diary(t)' /\ t[0] = truth[1]
        BY <1>1, <1>2, <2>1, DiaryTail
    <2>3. \/ /\ m.old = None
             /\ \E pid \in ServiceAnswers(m.new) : NewOwner(m, pid)
          \/ /\ m.new = None
             /\ OwnerLost(m)
          \/ /\ None \notin {m.old, m.new}
             /\ \E pid \in ServiceAnswers(m.new) : OwnerReplaced(m, pid)
        BY DEF HandleNameOwnerChangeEvent
    <2> HIDE DEF m
    <2>4. NamesRight(truth[1])' /\ ServicesRight(truth[1])'
        BY <1>2, <1>3, <2>1, <2>2, <2>3, ChangeKnown
    <2> QED BY <2>2, <2>4 DEF CacheRight
<1> QED BY <1>1, <1>2, <1>4, <1>5 DEF CacheRight

(* A header is made from what was true when its message was sent.          *)
LEMMA HeaderKeepsDiary ==
    ASSUME HeaderInv, CreateDbusMessageHeader
    PROVE  HeaderInv'
<1> USE DEF HeaderInv
<1> DEFINE m == Head(queue)
<1>1. SenderInv' /\ QueueTyped
    BY HeaderKeeps DEF SenderInv
<1>2. /\ queue # <<>>
      /\ m.kind = "message"
      /\ queue' = Tail(queue)
      /\ UNCHANGED <<owner, phase, exact, cacheVars>>
    BY DEF CreateDbusMessageHeader, busVars
<1>3. m \in Entry /\ m.kind = "message" /\ phase = "subscribed"
    BY <1>1, <1>2 DEF QueueTyped, PhasesInOrder
<1>4. PhasesInOrder'
    BY <1>2, <1>3 DEF PhasesInOrder
<1>5. /\ header'.aliases = AliasesOf(m.sender)
      /\ header'.names = m.names
      /\ header'.receiverPid = PidOf(UniqueConnectionName(m.receiver))
      /\ header'.owner = m.owner
    BY DEF CreateDbusMessageHeader
<1>6. ASSUME exact
      PROVE  /\ CacheRight'
             /\ header'.receiverPid \in {header'.owner, None}
             /\ header'.aliases \subseteq header'.names
    <2>1. PICK truth : /\ Diary(truth)
                       /\ NamesRight(truth[0])
                       /\ ServicesRight(truth[0])
        BY <1>6 DEF CacheRight
    <2>2. /\ Follows(m, truth[0], truth[1])
          /\ \E t : Diary(t)' /\ t[0] = truth[1]
        BY <1>1, <1>2, <2>1, DiaryTail
    <2>3. /\ truth[1] = truth[0]
          /\ m.names = {n \in Names : truth[0][n] = m.sender}
          /\ m.owner = IF m.receiver \in Names THEN truth[0][m.receiver]
                                               ELSE m.receiver
        BY <1>2, <2>2 DEF Follows
    <2>4. m.receiver \in Keys \cup {None} /\ m.owner \in Conns \cup {None}
        BY <1>3 DEF Entry
    <2> HIDE DEF m
    <2>5. NamesRight(truth[1])' /\ ServicesRight(truth[1])'
        BY <1>2, <2>1, <2>3 DEF NamesRight, ServicesRight, cacheVars
    <2>6. CacheRight'
        BY <2>2, <2>5 DEF CacheRight
    <2>7. AliasesOf(m.sender) \subseteq m.names
        BY <2>1, <2>3 DEF AliasesOf, ServicesRight
    <2>8. PidOf(UniqueConnectionName(m.receiver)) \in {m.owner, None}
        <3>1. CASE m.receiver \in DOMAIN mNametoOwner
            BY <2>1, <2>3, <3>1
               DEF UniqueConnectionName, PidOf, NamesRight, ServicesRight
        <3>2. CASE m.receiver \notin DOMAIN mNametoOwner
            BY <2>1, <3>2, NamesAssumption
               DEF UniqueConnectionName, PidOf, ServicesRight
        <3> QED BY <3>1, <3>2
    <2> QED BY <1>5, <2>6, <2>7, <2>8
<1> QED BY <1>1, <1>2, <1>4, <1>6 DEF CacheRight, HeaderTold

LEMMA HeaderNext == HeaderInv /\ [Next]_vars => HeaderInv'
<1> SUFFICES ASSUME HeaderInv, [Next]_vars PROVE HeaderInv'
    OBVIOUS
<1>1. CASE ListNames \/ Subscribe \/ UNCHANGED vars
    <2>1. SenderInv'
        BY SenderNext DEF HeaderInv
    <2>2. /\ UNCHANGED <<owner, queue, cacheVars, header>>
          /\ exact' => exact
        BY <1>1 DEF ListNames, Subscribe, vars, busVars
    <2>3. PhasesInOrder' /\ HeaderTold'
        BY <1>1, <2>2
           DEF ListNames, Subscribe, vars, HeaderInv, PhasesInOrder,
               HeaderTold, cacheVars
    <2>4. ASSUME exact' PROVE CacheRight'
        <3>1. PICK truth : /\ Diary(truth)
                           /\ NamesRight(truth[0])
                           /\ ServicesRight(truth[0])
            BY <2>2, <2>4 DEF HeaderInv, CacheRight
        <3>2. /\ Diary(truth)'
              /\ NamesRight(truth[0])'
              /\ ServicesRight(truth[0])'
            BY <2>2, <3>1 DEF Diary, NamesRight, ServicesRight, cacheVars
        <3> QED BY <3>2 DEF CacheRight
    <2> QED BY <2>1, <2>3, <2>4 DEF HeaderInv, CacheRight
<1> QED
    BY <1>1, BusKeepsDiary, InsertKeepsDiary, ChangeKeepsDiary, HeaderKeepsDiary
       DEF Next

-----------------------------------------------------------------------------
(* A name that the consumer resolves leads to a service it knows.          *)
THEOREM NamesAlwaysLead == Spec => []NamesLeadToServices
<1>1. Init => NamesLeadToServices
    BY DEF Init, NamesLeadToServices, Emptied
<1>2. NamesLeadToServices /\ [Next]_vars => NamesLeadToServices'
    BY NamesKept
<1> QED BY <1>1, <1>2, PTL DEF Spec

(* A header gives the process of its sender, or none: never another one's, *)
(* although the services are looked up later and by name.                  *)
THEOREM SenderNeverMistaken == Spec => []SenderTold
<1>1. SenderInv => SenderTold
    BY DEF SenderInv
<1> QED BY <1>1, SenderInit, SenderNext, PTL DEF Spec

(* Headers tell the truth of when their message was sent, as long as no    *)
(* query timed out and no change fell between queries and match rules.     *)
THEOREM HeadersAlwaysTrue == Spec => []HeadersTellTheTruth
<1>1. HeaderInv => HeadersTellTheTruth
    BY DEF HeaderInv, HeaderTold, SenderInv, SenderTold, HeadersTellTheTruth
<1> QED BY <1>1, HeaderInit, HeaderNext, PTL DEF Spec
=============================================================================
