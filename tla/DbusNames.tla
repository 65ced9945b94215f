----------------------------- MODULE DbusNames -----------------------------
(***************************************************************************)
(* What CDBusConsumer knows about the connections of a bus, and what it    *)
(* writes into the header of a traced message.  The bus daemon's truth is  *)
(* in `alive` and `owner`; the consumer has two maps, filled by queries    *)
(* before the match rules are added and kept up to date by the             *)
(* NameOwnerChanged signals among the captured messages afterwards.        *)
(*                                                                         *)
(* A unique name (":1.7") is a connection and is never used again; its     *)
(* process and user id are the connection itself here.  A query may time   *)
(* out.  The payload of a message is left out.                             *)
(***************************************************************************)
EXTENDS Naturals, Sequences, FiniteSets, Functions

CONSTANTS Conns,     \* connections to the bus, by unique name
          Names,     \* well-known names
          MaxQueue,  \* bound: captured messages not yet handled
          None       \* no owner, no receiver, INVALID_PROCESS_ID

ASSUME NamesAssumption == /\ None \notin Conns \cup Names
                          /\ Conns \cap Names = {}
                          /\ MaxQueue \in Nat

VARIABLES
    alive,        \* connections on the bus
    gone,         \* connections that have left it
    owner,        \* the owner of each well-known name, or None
    phase,        \* of the consumer: "list", "insert", "subscribed"
    listed,       \* names of the ListNames reply still to be inserted
    queue,        \* captured messages
    mUniqueIDtoService,
    mNametoOwner,
    header,       \* history: the last header made, and the truth about it
    exact         \* history: no query for an owner timed out, and nothing
                  \* changed between the queries and the match rules

busVars   == <<alive, gone, owner>>
cacheVars == <<mUniqueIDtoService, mNametoOwner>>
vars == <<busVars, phase, listed, queue, cacheVars, header, exact>>

-----------------------------------------------------------------------------
Keys == Conns \cup Names

OwnedBy(c) == {n \in Names : owner[n] = c}

Emptied == [k \in {} |-> None]

With(f, k, v)  == [x \in DOMAIN f \cup {k} |-> IF x = k THEN v ELSE f[x]]
Without(f, k)  == Restrict(f, DOMAIN f \ {k})

(* std::map::insert leaves an element that is there alone.                 *)
InsertIn(f, k, v) == IF k \in DOMAIN f THEN f ELSE With(f, k, v)

NoHeader == [sender |-> None, pid |-> None, aliases |-> {}, receiver |-> None,
             receiverPid |-> None, names |-> {}, owner |-> None]

Init == /\ alive \in SUBSET Conns
        /\ gone = {}
        /\ owner \in [Names -> alive \cup {None}]
        /\ phase = "list"
        /\ listed = {}
        /\ queue = <<>>
        /\ mUniqueIDtoService = Emptied
        /\ mNametoOwner = Emptied
        /\ header = NoHeader
        /\ exact = TRUE

-----------------------------------------------------------------------------
(* The bus: the daemon announces each change of an owner to subscribers.   *)
Changed(n, old, new) ==
    IF phase = "subscribed"
      THEN /\ Len(queue) < MaxQueue
           /\ queue' = Append(queue, [kind |-> "ownerChanged", name |-> n,
                                      old |-> old, new |-> new])
           /\ UNCHANGED exact
      ELSE exact' = (exact /\ phase = "list") /\ UNCHANGED queue

ConnectionOpens(c) ==
    /\ c \notin alive \cup gone
    /\ alive' = alive \cup {c}
    /\ Changed(c, None, c)
    /\ UNCHANGED <<gone, owner, phase, listed, cacheVars, header>>

ConnectionCloses(c) ==
    /\ c \in alive
    /\ OwnedBy(c) = {}
    /\ alive' = alive \ {c}
    /\ gone' = gone \cup {c}
    /\ Changed(c, c, None)
    /\ UNCHANGED <<owner, phase, listed, cacheVars, header>>

OwnerChanges(n, new) ==
    /\ new \in alive \cup {None}
    /\ new # owner[n]
    /\ owner' = [owner EXCEPT ![n] = new]
    /\ Changed(n, owner[n], new)
    /\ UNCHANGED <<alive, gone, phase, listed, cacheVars, header>>

(* A message to a connection, to a name or (a signal) to everybody; with   *)
(* it, as history, the names of its sender and the owner of its receiver.  *)
MessageSent(s, r) ==
    /\ phase = "subscribed"
    /\ Len(queue) < MaxQueue
    /\ s \in alive
    /\ r \in alive \cup {n \in Names : owner[n] # None} \cup {None}
    /\ queue' = Append(queue,
                  [kind |-> "message", sender |-> s, receiver |-> r,
                   names |-> OwnedBy(s),
                   owner |-> IF r \in Names THEN owner[r] ELSE r])
    /\ UNCHANGED <<busVars, phase, listed, cacheVars, header, exact>>

-----------------------------------------------------------------------------
(* Queries: an answer, or None after a timeout or an error.                *)

(* getServicePID and getServiceUID of a unique name, or of a well-known    *)
(* name that was taken for its own owner.                                  *)
ServiceAnswers(k) ==
    {None} \cup (IF k \in Names THEN {owner[k]} ELSE {k} \cap alive)

(* dbusGetNameOwner falls back on the name itself.                         *)
OwnerAnswers(k) ==
    IF k \in Conns THEN {k} ELSE {k} \cup ({owner[k]} \ {None})

(* dbusListNames; a reply that does not come leaves the list empty.        *)
ListNames ==
    /\ phase = "list"
    /\ \/ /\ listed' = alive \cup {n \in Names : owner[n] # None}
          /\ UNCHANGED exact
       \/ /\ listed' = {}
          /\ exact' = FALSE
    /\ phase' = "insert"
    /\ UNCHANGED <<busVars, queue, cacheVars, header>>

(* insertService, for one name of the list.                                *)
InsertService(k) ==
    /\ phase = "insert"
    /\ k \in listed
    /\ listed' = listed \ {k}
    /\ \E o \in OwnerAnswers(k), pid \in Keys \cup {None} :
          /\ pid \in ServiceAnswers(o)
          /\ mNametoOwner' = InsertIn(mNametoOwner, k, o)
          /\ mUniqueIDtoService' =
               IF o \in DOMAIN mUniqueIDtoService
                 THEN [mUniqueIDtoService EXCEPT ![o].aliases = @ \cup {k}]
                 ELSE With(mUniqueIDtoService, o,
                           [pid |-> pid, aliases |-> {k}])
          /\ exact' = (exact /\ o \in Conns)
    /\ UNCHANGED <<busVars, phase, queue, header>>

(* populateDataPool is done, and the producer adds the match rules.        *)
Subscribe ==
    /\ phase = "insert"
    /\ listed = {}
    /\ phase' = "subscribed"
    /\ UNCHANGED <<busVars, listed, queue, cacheVars, header, exact>>

-----------------------------------------------------------------------------
(* handleNameOwnerChangeEvent.                                             *)

NamesOf(o) == {k \in DOMAIN mNametoOwner : mNametoOwner[k] = o}

(* A service made from one event knows one alias, the name of the event.   *)
NewService(m, pid) == [pid |-> pid, aliases |-> {m.name}]

(* A name gets an owner: what was known of this owner is replaced.         *)
NewOwner(m, pid) ==
    /\ mUniqueIDtoService' = With(mUniqueIDtoService, m.new, NewService(m, pid))
    /\ mNametoOwner' = InsertIn(mNametoOwner, m.name, m.new)

(* Faulty variant: the names of an owner are kept.                         *)
ForgetNames(o) == Restrict(mNametoOwner, DOMAIN mNametoOwner \ {})

(* A name loses its owner: all the names of this owner are forgotten.      *)
ForgetOwner(o) == Restrict(mNametoOwner, DOMAIN mNametoOwner \ NamesOf(o))

OwnerLost(m) ==
    /\ mUniqueIDtoService' = Without(mUniqueIDtoService, m.old)
    /\ mNametoOwner' = ForgetOwner(m.old)

(* Faulty variant: the new owner's service takes the old one's aliases.    *)
TransferService(m, pid) ==
    InsertIn(Without(mUniqueIDtoService, m.old), m.new,
             [pid |-> pid,
              aliases |-> IF m.old \in DOMAIN mUniqueIDtoService
                            THEN mUniqueIDtoService[m.old].aliases
                            ELSE {m.name}])

(* A service of the new owner that is known already is not touched.        *)
MovedService(m, pid) ==
    InsertIn(Without(mUniqueIDtoService, m.old), m.new, NewService(m, pid))

OwnerReplaced(m, pid) ==
    /\ mUniqueIDtoService' = MovedService(m, pid)
    /\ mNametoOwner' = InsertIn(ForgetOwner(m.old), m.name, m.new)

HandleNameOwnerChangeEvent ==
    /\ queue # <<>>
    /\ Head(queue).kind = "ownerChanged"
    /\ LET m == Head(queue) IN
         \/ /\ m.old = None
            /\ \E pid \in ServiceAnswers(m.new) : NewOwner(m, pid)
         \/ /\ m.new = None
            /\ OwnerLost(m)
         \/ /\ None \notin {m.old, m.new}
            /\ \E pid \in ServiceAnswers(m.new) : OwnerReplaced(m, pid)
    /\ queue' = Tail(queue)
    /\ header' = NoHeader
    /\ UNCHANGED <<busVars, phase, listed, exact>>

(* populateSenderInfo and populateReceiverInfo: None if nothing is known.  *)
PidOf(o) ==
    IF o \in DOMAIN mUniqueIDtoService THEN mUniqueIDtoService[o].pid ELSE None

AliasesOf(o) ==
    IF o \in DOMAIN mUniqueIDtoService
      THEN mUniqueIDtoService[o].aliases \ {o}
      ELSE {}

(* getUniqueConnectionName.                                                *)
UniqueConnectionName(r) ==
    IF r \in DOMAIN mNametoOwner THEN mNametoOwner[r] ELSE None

(* createDbusMessageHeader; the kinds of messages differ in other fields.  *)
CreateDbusMessageHeader ==
    /\ queue # <<>>
    /\ Head(queue).kind = "message"
    /\ LET m == Head(queue) IN
         header' = [sender |-> m.sender,
                    pid |-> PidOf(m.sender),
                    aliases |-> AliasesOf(m.sender),
                    receiver |-> m.receiver,
                    receiverPid |-> PidOf(UniqueConnectionName(m.receiver)),
                    names |-> m.names,
                    owner |-> m.owner]
    /\ queue' = Tail(queue)
    /\ UNCHANGED <<busVars, phase, listed, cacheVars, exact>>

-----------------------------------------------------------------------------
Next == \/ \E c \in Conns : ConnectionOpens(c) \/ ConnectionCloses(c)
        \/ \E n \in Names, c \in Conns \cup {None} : OwnerChanges(n, c)
        \/ \E s \in Conns, r \in Keys \cup {None} : MessageSent(s, r)
        \/ ListNames
        \/ \E k \in Keys : InsertService(k)
        \/ Subscribe
        \/ HandleNameOwnerChangeEvent
        \/ CreateDbusMessageHeader

Spec == Init /\ [][Next]_vars

-----------------------------------------------------------------------------
(* The two maps stay together: a name that the cache resolves leads to a   *)
(* service, whatever was missed or timed out.                              *)
NamesLeadToServices ==
    \A k \in DOMAIN mNametoOwner :
        mNametoOwner[k] \in DOMAIN mUniqueIDtoService

(* A traced message never names the process of another connection as its   *)
(* sender; nor, if the cache started exact, one that did not own the name  *)
(* it was addressed to or an alias its sender did not own when it was      *)
(* sent, although all of this is looked up later.                          *)
HeadersTellTheTruth ==
    /\ header.pid \in {header.sender, None}
    /\ exact => /\ header.receiverPid \in {header.owner, None}
                /\ header.aliases \subseteq header.names
=============================================================================
