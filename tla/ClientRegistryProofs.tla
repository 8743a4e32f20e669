------------------------ MODULE ClientRegistryProofs ------------------------
(***************************************************************************)
(* What ClientRegistry promises, for any clients, keys, administrators,    *)
(* readers and inodes, and any number of faults and power losses.          *)
(***************************************************************************)
EXTENDS ClientRegistry, TLAPS

-----------------------------------------------------------------------------
(* The inductive invariant: commands.                                      *)

\* The path names a regular file with some content, or nothing to read.
PathShape(f) ==
  /\ f.ino \in Inodes \cup {Absent, Special}
  /\ f.ino \notin Inodes => f.content = Broken
  /\ f.time <= clock

\* flock lets one command past.
LockHeld ==
  \A a \in Admins :
    admin[a].pc \in {"locked", "deliver", "write", "sync"} => lock = {a}

\* new is the next revision of old, changed for one client, and every client
\* that is revoked in old is in new.
Follows(old, new) ==
  /\ new.revision = old.revision + 1
  /\ \E c \in Clients : \A d \in Clients \ {c} : new.rows[d] = old.rows[d]
  /\ Tombstones(old.rows) \subseteq Tombstones(new.rows)

\* What a command is about to write is still made from what is there.
Pending ==
  \A a \in Admins :
    /\ admin[a].pc \in {"deliver", "write", "sync"} => admin[a].next # Broken
    /\ faults = 0 /\ admin[a].pc \in {"deliver", "write"} =>
         Current = Broken \/ Follows(Current, admin[a].next)
    /\ faults = 0 /\ admin[a].pc = "sync" => Current = admin[a].next

\* Every client in gone is revoked in content.
Bars(content, gone) ==
  \A c \in gone : content # Broken /\ c \in Tombstones(content.rows)

\* Revocations that were reported are in force now and after a power loss.
Reported == faults = 0 => Bars(path.content, revoked) /\ Bars(durable.content, revoked)

KeysIn(content, known) ==
  content # Broken =>
    \A c \in Registered(content.rows) : content.rows[c].key \in known

\* Keys in force, and keys about to be, are in the hands of their clients.
Handed ==
  /\ KeysIn(path.content, delivered \cup Minted)
  /\ KeysIn(durable.content, delivered \cup Minted)
  /\ \A a \in Admins :
       /\ admin[a].pc = "deliver" =>
            /\ admin[a].key \in issued
            /\ KeysIn(admin[a].next, delivered \cup Minted \cup {admin[a].key})
       /\ admin[a].pc = "write" => KeysIn(admin[a].next, delivered \cup Minted)

AdminInv ==
  /\ TypeOK
  /\ PathShape(path) /\ PathShape(durable)
  /\ LockHeld
  /\ Pending
  /\ Reported
  /\ Handed

-----------------------------------------------------------------------------
(* The inductive invariant: readers.                                       *)

\* A descriptor of the file the path names sees the same file, and nothing a
\* reader knows comes from the future.
Descriptor(s) ==
  /\ store[s].fd.ino \in Inodes \cup {Closed}
  /\ store[s].fd.ino = path.ino => store[s].fd = path
  /\ store[s].fd.time <= clock
  /\ store[s].before[2] <= clock
  /\ store[s].stamp[2] <= clock
  /\ call[s].began <= clock

\* The cache is what the path holds as long as the fingerprint says so.
Cache(s) ==
  store[s].stamp = Fingerprint(path) =>
    Current # Broken /\ store[s].clients = Current.rows

\* What has been read was in the registry during the call, and is what the
\* descriptor holds as long as the fingerprint says so.
Reading(s) ==
  /\ InCall(s) => Current \in call[s].seen
  /\ store[s].pc \in {"read", "fstat"} =>
       /\ store[s].fd.ino \in Inodes
       /\ store[s].before[1] \in Inodes
       /\ store[s].fd.content \in call[s].seen
  /\ store[s].pc = "fstat" =>
       /\ store[s].raw \in call[s].seen
       /\ Fingerprint(store[s].fd) = store[s].before =>
            store[s].fd.content = store[s].raw
  /\ Answered(s) => \E r \in call[s].seen \ {Broken} : store[s].answer = r.rows

\* A call that nothing disturbs has the file of the path in hand.
Undisturbed(s) ==
  call[s].began = clock /\ ~call[s].error /\ Current # Broken =>
    /\ store[s].pc \in {"read", "fstat"} =>
         store[s].fd = path /\ store[s].before = Fingerprint(path)
    /\ store[s].pc = "fstat" => store[s].raw = Current
    /\ store[s].pc = "done" => store[s].answer = Current.rows

\* Whatever the registry was during a call, it barred those who were barred
\* when the call began.
Barred(s) ==
  /\ call[s].barred \subseteq revoked
  /\ faults = 0 => \A r \in call[s].seen : Bars(r, call[s].barred)

ReaderInv ==
  \A s \in Stores :
    Descriptor(s) /\ Cache(s) /\ Reading(s) /\ Undisturbed(s) /\ Barred(s)

IInv == AdminInv /\ ReaderInv

-----------------------------------------------------------------------------
(* Commands, up to the moment they write.                                  *)

\* What a command leaves to do once it has decided: a registry that follows
\* the one there is, and perhaps a key to deliver before it is written.
Prepares(a) ==
  \E next \in Content, key \in Keys \cup {NoKey} :
    /\ admin[a].pc = "locked"
    /\ admin' = [admin EXCEPT ![a] =
                   [pc   |-> IF key = NoKey THEN "write" ELSE "deliver",
                    next |-> next, key |-> key]]
    /\ issued' = issued \cup ({key} \ {NoKey})
    /\ UNCHANGED <<fileVars, lock, delivered, revoked, store, faults, outages, call>>
    /\ Current = Broken \/ Follows(Current, next)
    /\ KeysIn(next, delivered \cup Minted \cup ({key} \ {NoKey}))

LEMMA PreparedFacts ==
  ASSUME NEW a \in Admins, NEW revision \in Nat, NEW rows \in Rows,
         NEW key \in Keys \cup {NoKey},
         admin[a].pc = "locked",
         Prepared(a, revision, rows, key),
         Current = Broken \/ Follows(Current, Registry(2, revision + 1, rows)),
         \A c \in Registered(rows) :
           rows[c].key \in delivered \cup Minted \cup ({key} \ {NoKey})
  PROVE  Prepares(a)
<1>1. Registry(2, revision + 1, rows) \in Content
  BY DEF Registry, Content
<1>2. Registry(2, revision + 1, rows).rows = rows
  BY DEF Registry
<1> QED
  BY <1>1, <1>2 DEF Prepared, Prepares, KeysIn

LEMMA ExpandedType == Expanded(Legacy) \in Rows
<1>1. ASSUME NEW c \in Clients, Legacy[c] # NoRow
      PROVE  [Legacy[c] EXCEPT !.scopes = @ \cup Capabilities] \in Row
  <2>1. Legacy[c] \in Row
    BY <1>1, RegistryAssumption DEF RegistryAssumption, Rows
  <2>2. Legacy[c].scopes \cup Capabilities \in ScopeSets
    BY <2>1, RegistryAssumption DEF RegistryAssumption, Row, ScopeSets, Transports
  <2> QED BY <2>1, <2>2 DEF Row
<1> QED
  BY <1>1, RegistryAssumption DEF RegistryAssumption, Rows, Expanded

LEMMA ExpandedKeys ==
  \A c \in Registered(Expanded(Legacy)) : Expanded(Legacy)[c].key \in Minted
<1> SUFFICES ASSUME NEW c \in Registered(Expanded(Legacy))
             PROVE  Expanded(Legacy)[c].key \in Minted
  OBVIOUS
<1>1. c \in Clients /\ Expanded(Legacy)[c] # NoRow
  BY DEF Registered
<1>2. Legacy[c] # NoRow
  BY <1>1 DEF Expanded
<1>3. Legacy[c] \in Row /\ Legacy[c].key \in Minted
  BY <1>1, <1>2, RegistryAssumption DEF RegistryAssumption, Rows, Registered
<1>4. Expanded(Legacy)[c].key = Legacy[c].key
  BY <1>1, <1>3 DEF Expanded, Row
<1> QED BY <1>3, <1>4

\* A command that changes the row of one client, and leaves a revoked client
\* revoked, makes a registry that follows the old one.
LEMMA AmendedFacts ==
  ASSUME AdminInv, NEW a \in Admins, Administrable(a),
         NEW c \in Clients, NEW row \in Row, NEW key \in Keys \cup {NoKey},
         c \in Tombstones(Current.rows) => row.revoked,
         row.key \in delivered \cup Minted \cup ({key} \ {NoKey}),
         Prepared(a, Current.revision, [Current.rows EXCEPT ![c] = row], key)
  PROVE  Prepares(a)
<1> DEFINE rows == [Current.rows EXCEPT ![c] = row]
<1>1. Current \in Content /\ Current.rows \in Rows /\ Current.revision \in Nat
  BY DEF AdminInv, TypeOK, Administrable, Current, Files, Content
<1>2. rows \in Rows
  BY <1>1 DEF Rows
<1>3. \A d \in Clients : rows[d] = IF d = c THEN row ELSE Current.rows[d]
  BY <1>1 DEF Rows
<1>4. \A d \in Clients \ {c} : rows[d] = Current.rows[d]
  BY <1>3
<1>5. NoRow \notin Row
  BY RegistryAssumption DEF RegistryAssumption
<1>6. Tombstones(Current.rows) \subseteq Tombstones(rows)
  BY <1>3, <1>5 DEF Tombstones, Registered
<1>7. Follows(Current, Registry(2, Current.revision + 1, rows))
  BY <1>4, <1>6 DEF Follows, Registry
<1>8. \A d \in Registered(rows) :
        rows[d].key \in delivered \cup Minted \cup ({key} \ {NoKey})
  BY <1>3 DEF Registered, AdminInv, Handed, KeysIn, Administrable, Current
<1> QED
  BY <1>1, <1>2, <1>7, <1>8, PreparedFacts DEF Administrable

LEMMA CommandPrepares ==
  ASSUME AdminInv, NEW a \in Admins, Command(a), ~Refused(a)
  PROVE  Prepares(a)
<1>1. CASE InitRegistry(a) \/ Migrate(a)
  <2>1. admin[a].pc = "locked" /\ path.ino = Absent /\ Current = Broken
    BY <1>1, RegistryAssumption
    DEF InitRegistry, Migrate, AdminInv, PathShape, Current, RegistryAssumption
  <2>2. Empty \in Rows /\ Registered(Empty) = {}
    BY DEF Empty, Rows, Registered
  <2>3. 0 \in Nat /\ NoKey \in Keys \cup {NoKey}
    OBVIOUS
  <2>4. CASE InitRegistry(a)
    BY <2>1, <2>2, <2>3, <2>4, PreparedFacts DEF InitRegistry
  <2>5. CASE Migrate(a)
    BY <2>1, <2>3, <2>5, ExpandedType, ExpandedKeys, PreparedFacts DEF Migrate
  <2> QED BY <1>1, <2>4, <2>5
<1>2. ASSUME NEW k \in Keys
      PROVE  /\ ToDeliver(k) \in Keys \cup {NoKey}
             /\ k \in delivered \cup Minted \cup ({ToDeliver(k)} \ {NoKey})
  BY RegistryAssumption DEF ToDeliver, RegistryAssumption
<1>3. ASSUME NEW c \in Clients, NEW k \in Keys, NEW sc \in ScopeSets, Create(a, c, k, sc)
      PROVE  Prepares(a)
  <2> DEFINE row == [key |-> k, scopes |-> sc, enabled |-> TRUE, revoked |-> FALSE]
  <2>1. row \in Row /\ row.key = k
    BY DEF Row
  <2>2. c \notin Tombstones(Current.rows)
    BY <1>3 DEF Create, Tombstones, Registered
  <2>3. /\ Administrable(a)
        /\ Prepared(a, Current.revision, [Current.rows EXCEPT ![c] = row], ToDeliver(k))
    BY <1>3 DEF Create
  <2> HIDE DEF row
  <2> QED BY <1>2, <2>1, <2>2, <2>3, AmendedFacts
<1>4. ASSUME NEW c \in Clients, Administrable(a), Current.rows[c] # NoRow
      PROVE  /\ Current.rows[c] \in Row
             /\ Current.rows[c].key \in delivered \cup Minted
             /\ Current.rows \in Rows
             /\ c \in Tombstones(Current.rows) <=> Current.rows[c].revoked
  <2>1. Current \in Content
    BY <1>4 DEF Administrable, Current, AdminInv, TypeOK, Files
  <2>2. Current.rows \in Rows
    BY <2>1 DEF Content
  <2> QED
    BY <1>4, <2>2 DEF Rows, AdminInv, Handed, KeysIn, Registered, Administrable,
                      Current, Tombstones
<1>5. ASSUME NEW c \in Clients, NEW k \in Keys, Rotate(a, c, k)
      PROVE  Prepares(a)
  <2> DEFINE row == [Current.rows[c] EXCEPT !.key = k]
  <2>1. Administrable(a) /\ Current.rows[c] # NoRow /\ ~Current.rows[c].revoked
    BY <1>5 DEF Rotate, Amendable
  <2>2. row \in Row /\ row.key = k
    BY <1>4, <2>1 DEF Row
  <2>3. c \notin Tombstones(Current.rows)
    BY <1>4, <2>1
  <2>4. Prepared(a, Current.revision, [Current.rows EXCEPT ![c] = row], ToDeliver(k))
    BY <1>5 DEF Rotate
  <2> HIDE DEF row
  <2> QED BY <1>2, <2>1, <2>2, <2>3, <2>4, AmendedFacts
<1>6. ASSUME NEW c \in Clients, NEW row \in Row,
             Administrable(a), Current.rows[c] # NoRow,
             row.key = Current.rows[c].key,
             Current.rows[c].revoked => row.revoked,
             Prepared(a, Current.revision, [Current.rows EXCEPT ![c] = row], NoKey)
      PROVE  Prepares(a)
  BY <1>4, <1>6, AmendedFacts
<1>7. ASSUME NEW c \in Clients, NEW sc \in ScopeSets, SetScopes(a, c, sc)
      PROVE  Prepares(a)
  <2> DEFINE row == [Current.rows[c] EXCEPT !.scopes = sc]
  <2>1. Administrable(a) /\ Current.rows[c] # NoRow /\ ~Current.rows[c].revoked
    BY <1>7 DEF SetScopes, Amendable
  <2>2. row \in Row /\ row.key = Current.rows[c].key
    BY <1>4, <2>1 DEF Row
  <2>3. Prepared(a, Current.revision, [Current.rows EXCEPT ![c] = row], NoKey)
    BY <1>7 DEF SetScopes
  <2> HIDE DEF row
  <2> QED BY <1>6, <2>1, <2>2, <2>3
<1>8. ASSUME NEW c \in Clients, NEW enabled \in BOOLEAN, SetEnabled(a, c, enabled)
      PROVE  Prepares(a)
  <2> DEFINE row == [Current.rows[c] EXCEPT !.enabled = enabled]
  <2>1. Administrable(a) /\ Current.rows[c] # NoRow /\ ~Current.rows[c].revoked
    BY <1>8 DEF SetEnabled, Amendable
  <2>2. row \in Row /\ row.key = Current.rows[c].key
    BY <1>4, <2>1 DEF Row
  <2>3. Prepared(a, Current.revision, [Current.rows EXCEPT ![c] = row], NoKey)
    BY <1>8 DEF SetEnabled
  <2> HIDE DEF row
  <2> QED BY <1>6, <2>1, <2>2, <2>3
<1>9. ASSUME NEW c \in Clients, Revoke(a, c)
      PROVE  Prepares(a)
  <2> DEFINE row == [Current.rows[c] EXCEPT !.enabled = FALSE, !.revoked = TRUE]
  <2>1. Administrable(a) /\ Current.rows[c] # NoRow
    BY <1>9 DEF Revoke
  <2>2. row \in Row /\ row.key = Current.rows[c].key /\ row.revoked
    BY <1>4, <2>1 DEF Row
  <2>3. [Current.rows EXCEPT ![c].enabled = FALSE, ![c].revoked = TRUE]
          = [Current.rows EXCEPT ![c] = row]
    BY <1>4, <2>1 DEF Rows
  <2>4. Prepared(a, Current.revision, [Current.rows EXCEPT ![c] = row], NoKey)
    BY <1>9, <2>3 DEF Revoke
  <2> HIDE DEF row
  <2> QED BY <1>6, <2>1, <2>2, <2>4
<1> QED
  BY <1>1, <1>3, <1>5, <1>7, <1>8, <1>9 DEF Command

-----------------------------------------------------------------------------
(* Changes of the path.                                                    *)

\* What a change of the path does to a descriptor: it changes the file the
\* path named, and the path never comes to name another open one.
FdMoved(s) ==
  /\ store'[s] = [store[s] EXCEPT !.fd = store'[s].fd]
  /\ \/ store[s].fd.ino # path.ino /\ store'[s].fd = store[s].fd
     \/ /\ store[s].fd.ino = path.ino
        /\ store'[s].fd.ino = path.ino
        /\ store'[s].fd.time = clock'
        /\ store'[s].fd.content \in {store[s].fd.content, path'.content}
  /\ store'[s].fd.ino = path'.ino => store'[s].fd = path'

Moved(content) ==
  /\ clock' = clock + 1
  /\ path' \in Files /\ path'.content = content /\ PathShape(path)'
  /\ path'.ino \in Inodes => path'.time = clock'
  /\ store' \in [Stores -> Readers]
  /\ call' \in [Stores -> Calls]
  /\ \A s \in Stores : FdMoved(s)
  /\ Watch

\* The history of the calls keeps its type when the path changes.
LEMMA WatchType ==
  ASSUME TypeOK, path'.content \in Content \cup {Broken}, Watch
  PROVE  call' \in [Stores -> Calls]
<1>1. ASSUME NEW s \in Stores
      PROVE  [call[s] EXCEPT !.seen = @ \cup {path'.content}] \in Calls
  BY DEF TypeOK, Calls
<1> QED BY <1>1 DEF TypeOK, Watch

\* Only the times of the file that loses its name change.
LEMMA TouchedFd ==
  ASSUME TypeOK, ReaderInv, PathShape(path), clock' = clock + 1,
         path' \in Files,
         path'.ino \notin InUse \/ path'.ino \in {Absent, Special} \ {path.ino},
         store' = [s \in Stores |->
                     IF store[s].fd.ino = path.ino
                     THEN [store[s] EXCEPT !.fd.time = clock + 1] ELSE store[s]]
  PROVE  /\ store' \in [Stores -> Readers]
         /\ \A s \in Stores : FdMoved(s)
<1>1. ASSUME NEW s \in Stores
      PROVE  store'[s] \in Readers /\ FdMoved(s)
  <2>1. store[s] \in Readers /\ store[s].fd \in Files /\ clock + 1 \in Nat
    BY DEF TypeOK, Readers
  <2> DEFINE fd == [store[s].fd EXCEPT !.time = clock + 1]
  <2>2. /\ fd \in Files /\ fd.ino = store[s].fd.ino
        /\ fd.time = clock + 1 /\ fd.content = store[s].fd.content
    BY <2>1 DEF Files
  <2>3. store[s].fd.ino # path'.ino
    BY RegistryAssumption DEF InUse, ReaderInv, Descriptor, RegistryAssumption
  <2>4. CASE store[s].fd.ino = path.ino
    <3>1. store'[s] = [store[s] EXCEPT !.fd = fd]
      BY <2>4
    <3> HIDE DEF fd
    <3>2. store'[s] \in Readers /\ store'[s].fd = fd
      BY <2>1, <2>2, <3>1 DEF Readers
    <3> QED BY <2>2, <2>3, <2>4, <3>1, <3>2 DEF FdMoved
  <2>5. CASE store[s].fd.ino # path.ino
    <3>1. store'[s] = store[s]
      BY <2>5
    <3>2. store[s] = [store[s] EXCEPT !.fd = store[s].fd]
      BY <2>1 DEF Readers
    <3> QED BY <2>1, <2>3, <2>5, <3>1, <3>2 DEF FdMoved
  <2> QED BY <2>4, <2>5
<1> QED BY <1>1

LEMMA RenamedMoves ==
  ASSUME IInv, NEW content \in Content \cup {Broken}, Renamed(content)
  PROVE  Moved(content)
<1>0. TypeOK /\ ReaderInv /\ PathShape(path)
  BY DEF IInv, AdminInv
<1>1. PICK i \in Inodes \ InUse : path' = File(i, clock + 1, content)
  BY DEF Renamed
<1>2. /\ path' \in Files /\ path'.ino = i /\ path'.content = content
      /\ path'.time = clock + 1 /\ clock' = clock + 1
  BY <1>0, <1>1 DEF File, Files, TypeOK, Renamed
<1>3. PathShape(path)'
  BY <1>0, <1>2 DEF PathShape, TypeOK
<1>4. store' \in [Stores -> Readers] /\ \A s \in Stores : FdMoved(s)
  BY <1>0, <1>2, TouchedFd DEF Renamed
<1>5. Watch
  BY DEF Renamed
<1> QED BY <1>0, <1>2, <1>3, <1>4, <1>5, WatchType DEF Moved

LEMMA UnlinkedMoves ==
  ASSUME IInv, NEW why \in {Absent, Special}, Unlinked(why)
  PROVE  Moved(Broken)
<1>0. TypeOK /\ ReaderInv /\ PathShape(path)
  BY DEF IInv, AdminInv
<1>1. /\ path' \in Files /\ path'.ino = why /\ path'.content = Broken
      /\ path'.time = 0 /\ clock' = clock + 1
  BY DEF File, NoFile, Files, Unlinked
<1>2. PathShape(path)' /\ path'.ino \notin Inodes
  BY <1>0, <1>1, RegistryAssumption DEF PathShape, TypeOK, RegistryAssumption
<1>3. path'.ino \in {Absent, Special} \ {path.ino}
  BY <1>1 DEF Unlinked
<1>4. store' \in [Stores -> Readers] /\ \A s \in Stores : FdMoved(s)
  BY <1>0, <1>1, <1>3, TouchedFd DEF Unlinked
<1>5. Watch
  BY DEF Unlinked
<1> QED BY <1>0, <1>1, <1>2, <1>4, <1>5, WatchType DEF Moved

LEMMA RewrittenMoves ==
  ASSUME IInv, NEW content \in Content \cup {Broken}, Rewritten(content)
  PROVE  Moved(content)
<1>0. TypeOK /\ ReaderInv /\ PathShape(path)
  BY DEF IInv, AdminInv
<1>1. /\ path' \in Files /\ path'.ino = path.ino /\ path'.content = content
      /\ path'.time = clock + 1 /\ clock' = clock + 1 /\ path.ino \in Inodes
  BY <1>0 DEF File, Files, TypeOK, Rewritten
<1>2. PathShape(path)'
  BY <1>0, <1>1 DEF PathShape, TypeOK
<1>3. ASSUME NEW s \in Stores
      PROVE  store'[s] \in Readers /\ FdMoved(s)
  <2>1. store[s] \in Readers
    BY <1>0 DEF TypeOK
  <2>2. CASE store[s].fd.ino = path.ino
    <3>1. store'[s] = [store[s] EXCEPT !.fd = path']
      BY <2>2 DEF Rewritten
    <3>2. store'[s] \in Readers /\ store'[s].fd = path'
      BY <1>1, <2>1, <3>1 DEF Readers
    <3> QED BY <1>1, <2>2, <3>1, <3>2 DEF FdMoved
  <2>3. CASE store[s].fd.ino # path.ino
    <3>1. store'[s] = store[s]
      BY <2>3 DEF Rewritten
    <3>2. store[s] = [store[s] EXCEPT !.fd = store[s].fd]
      BY <2>1 DEF Readers
    <3> QED BY <1>1, <2>1, <2>3, <3>1, <3>2 DEF FdMoved
  <2> QED BY <2>2, <2>3
<1>4. store' \in [Stores -> Readers] /\ \A s \in Stores : FdMoved(s)
  BY <1>3 DEF Rewritten
<1>5. Watch
  BY DEF Rewritten
<1> QED BY <1>0, <1>1, <1>2, <1>4, <1>5, WatchType DEF Moved

\* Readers notice every change of the path: times only grow, so neither the
\* cache nor a read that straddles the change is taken for the new content.
LEMMA MovedReaders ==
  ASSUME IInv, NEW content \in Content \cup {Broken}, Moved(content),
         revoked' = revoked,
         faults' = 0 => faults = 0 /\ Bars(content, revoked)
  PROVE  ReaderInv'
<1> SUFFICES ASSUME NEW s \in Stores
             PROVE  (Descriptor(s) /\ Cache(s) /\ Reading(s) /\ Undisturbed(s) /\ Barred(s))'
  BY DEF ReaderInv
<1>0. /\ TypeOK /\ PathShape(path)
      /\ Descriptor(s) /\ Cache(s) /\ Reading(s) /\ Undisturbed(s) /\ Barred(s)
  BY DEF IInv, AdminInv, ReaderInv
<1>1. /\ store[s] \in Readers /\ store'[s] \in Readers
      /\ call[s] \in Calls /\ call'[s] \in Calls
      /\ clock \in Nat /\ path \in Files /\ path' \in Files
  BY <1>0 DEF TypeOK, Moved
<1>2. /\ store'[s].pc = store[s].pc /\ store'[s].before = store[s].before
      /\ store'[s].raw = store[s].raw /\ store'[s].stamp = store[s].stamp
      /\ store'[s].clients = store[s].clients /\ store'[s].answer = store[s].answer
  BY <1>1 DEF Moved, FdMoved, Readers
<1>3. /\ call'[s].began = call[s].began /\ call'[s].barred = call[s].barred
      /\ call'[s].error = call[s].error
      /\ call[s].seen \subseteq call'[s].seen
      /\ call'[s].seen \subseteq call[s].seen \cup {content}
      /\ InCall(s) => content \in call'[s].seen
  BY <1>1 DEF Moved, Watch, Calls
<1>4. /\ clock' = clock + 1 /\ path'.content = content
      /\ store[s].before[2] \in Nat /\ store[s].stamp[2] \in Nat
      /\ store[s].fd \in Files /\ store[s].fd.time \in Nat /\ call[s].began \in Nat
  BY <1>1 DEF Moved, Readers, Stamps, Files, Calls
<1>5. Descriptor(s)'
  BY <1>0, <1>1, <1>2, <1>3, <1>4 DEF Descriptor, Moved, FdMoved
<1>6. Cache(s)'
  <2>1. store'[s].stamp # Fingerprint(path')
    <3>1. CASE path'.ino \in Inodes
      BY <1>0, <1>1, <1>2, <1>4, <3>1 DEF Descriptor, Moved, Fingerprint
    <3>2. CASE path'.ino \notin Inodes
      <4>1. path'.ino \in {Absent, Special}
        BY <3>2 DEF Moved, PathShape
      <4>2. store'[s].stamp[1] \in Inodes \cup {Closed}
        BY <1>1 DEF Readers, Stamps
      <4> QED BY <3>2, <4>1, <4>2, RegistryAssumption DEF Fingerprint, RegistryAssumption
    <3> QED BY <3>1, <3>2
  <2> QED BY <2>1 DEF Cache, Fingerprint
<1>7. Reading(s)'
  <2>1. (InCall(s) => Current \in call[s].seen)'
    BY <1>2, <1>3, <1>4 DEF InCall, Current
  <2>2. ASSUME store'[s].pc \in {"read", "fstat"}
        PROVE  /\ store'[s].fd.ino \in Inodes
               /\ store'[s].before[1] \in Inodes
               /\ store'[s].fd.content \in call'[s].seen
    BY <1>0, <1>2, <1>3, <1>4, <2>2 DEF Reading, Moved, FdMoved, InCall
  <2>3. ASSUME store'[s].pc = "fstat"
        PROVE  /\ store'[s].raw \in call'[s].seen
               /\ Fingerprint(store'[s].fd) = store'[s].before =>
                    store'[s].fd.content = store'[s].raw
    BY <1>0, <1>1, <1>2, <1>3, <1>4, <2>3
    DEF Reading, Moved, FdMoved, Fingerprint, Descriptor
  <2>4. Answered(s)' => \E r \in call'[s].seen \ {Broken} : store'[s].answer = r.rows
    BY <1>0, <1>2, <1>3 DEF Reading, Answered
  <2> QED BY <2>1, <2>2, <2>3, <2>4 DEF Reading, Fingerprint
<1>8. Undisturbed(s)'
  BY <1>0, <1>1, <1>3, <1>4 DEF Undisturbed, Descriptor
<1>9. Barred(s)'
  BY <1>0, <1>3 DEF Barred, Bars
<1> QED BY <1>5, <1>6, <1>7, <1>8, <1>9

-----------------------------------------------------------------------------
(* The steps of a command.                                                 *)

LEMMA SameReaders ==
  ASSUME ReaderInv, UNCHANGED <<path, clock, store, call, revoked, faults>>
  PROVE  ReaderInv'
<1> SUFFICES ASSUME NEW s \in Stores
             PROVE  (Descriptor(s) /\ Cache(s) /\ Reading(s) /\ Undisturbed(s) /\ Barred(s))'
  BY DEF ReaderInv
<1>1. Descriptor(s) /\ Cache(s) /\ Reading(s) /\ Undisturbed(s) /\ Barred(s)
  BY DEF ReaderInv
<1>2. Descriptor(s)' /\ Cache(s)'
  BY <1>1 DEF Descriptor, Cache, Fingerprint, Current
<1>3. Reading(s)'
  BY <1>1 DEF Reading, InCall, Answered, Fingerprint, Current
<1>4. Undisturbed(s)' /\ Barred(s)'
  BY <1>1 DEF Undisturbed, Barred, Bars, Tombstones, Registered, Fingerprint, Current
<1> QED BY <1>2, <1>3, <1>4

LEMMA SameAdmins ==
  ASSUME AdminInv, TypeOK', UNCHANGED <<fileVars, adminVars, faults>>
  PROVE  AdminInv'
  BY DEF AdminInv, PathShape, LockHeld, Pending, Follows, Reported, Bars, Handed, KeysIn,
         Tombstones, Registered, Current, fileVars, adminVars, keyVars

LEMMA BeginStep ==
  ASSUME IInv, NEW a \in Admins, Start(a) \/ Acquire(a)
  PROVE  IInv'
<1>0. AdminInv /\ TypeOK /\ ReaderInv
  BY DEF IInv, AdminInv
<1>1. /\ UNCHANGED <<path, durable, clock, issued, delivered, revoked, store, faults, outages, call>>
      /\ admin[a].pc \in {"idle", "wait"}
      /\ \/ lock' = lock /\ admin' = [admin EXCEPT ![a].pc = "wait"]
         \/ lock = {} /\ lock' = {a} /\ admin' = [admin EXCEPT ![a].pc = "locked"]
  BY DEF Start, Acquire, fileVars, keyVars
<1>2. /\ admin'[a].pc \in {"wait", "locked"}
      /\ admin'[a].pc = "locked" => lock = {} /\ lock' = {a}
      /\ admin'[a].pc = "wait" => lock' = lock
      /\ \A b \in Admins \ {a} : admin'[b] = admin[b]
      /\ admin' \in [Admins -> Commands]
  BY <1>0, <1>1 DEF TypeOK, Commands
<1>3. TypeOK'
  BY <1>0, <1>1, <1>2 DEF TypeOK
<1>4. LockHeld'
  BY <1>0, <1>2 DEF AdminInv, LockHeld
<1>5. Pending'
  BY <1>0, <1>1, <1>2 DEF AdminInv, Pending, Follows, Tombstones, Registered, Current
<1>6. (PathShape(path) /\ PathShape(durable) /\ Reported)'
  BY <1>0, <1>1 DEF AdminInv, PathShape, Reported, Bars, Tombstones, Registered
<1>7. Handed'
  BY <1>0, <1>1, <1>2 DEF AdminInv, Handed, KeysIn, Registered
<1>8. ReaderInv'
  BY <1>0, <1>1, SameReaders
<1> QED BY <1>3, <1>4, <1>5, <1>6, <1>7, <1>8 DEF IInv, AdminInv

\* A command ends, in whatever way, and the registry is what it was.
LEMMA LeaveStep ==
  ASSUME IInv, NEW a \in Admins, Leave(a),
         UNCHANGED <<fileVars, keyVars, revoked, store, faults, outages, call>>
  PROVE  IInv'
<1>0. AdminInv /\ TypeOK /\ ReaderInv
  BY DEF IInv, AdminInv
<1>1. UNCHANGED <<path, durable, clock, issued, delivered, revoked, store, faults, outages, call>>
  BY DEF fileVars, keyVars
<1>2. /\ admin'[a].pc = "idle"
      /\ lock' = lock \ {a}
      /\ \A b \in Admins \ {a} : admin'[b] = admin[b]
      /\ admin' \in [Admins -> Commands]
  BY <1>0 DEF TypeOK, Commands, Leave, Idle
<1>3. TypeOK'
  BY <1>0, <1>1, <1>2 DEF TypeOK
<1>4. LockHeld'
  BY <1>0, <1>2 DEF AdminInv, LockHeld
<1>5. Pending'
  BY <1>0, <1>1, <1>2 DEF AdminInv, Pending, Follows, Tombstones, Registered, Current
<1>6. (PathShape(path) /\ PathShape(durable) /\ Reported)'
  BY <1>0, <1>1 DEF AdminInv, PathShape, Reported, Bars, Tombstones, Registered
<1>7. Handed'
  BY <1>0, <1>1, <1>2 DEF AdminInv, Handed, KeysIn, Registered
<1>8. ReaderInv'
  BY <1>0, <1>1, SameReaders
<1> QED BY <1>3, <1>4, <1>5, <1>6, <1>7, <1>8 DEF IInv, AdminInv

LEMMA PreparesStep ==
  ASSUME IInv, NEW a \in Admins, Prepares(a)
  PROVE  IInv'
<1>0. AdminInv /\ TypeOK /\ ReaderInv
  BY DEF IInv, AdminInv
<1>1. PICK next \in Content, key \in Keys \cup {NoKey} :
        /\ admin[a].pc = "locked"
        /\ admin' = [admin EXCEPT ![a] =
                       [pc   |-> IF key = NoKey THEN "write" ELSE "deliver",
                        next |-> next, key |-> key]]
        /\ issued' = issued \cup ({key} \ {NoKey})
        /\ UNCHANGED <<path, durable, clock, lock, delivered, revoked, store, faults,
                       outages, call>>
        /\ Current = Broken \/ Follows(Current, next)
        /\ KeysIn(next, delivered \cup Minted \cup ({key} \ {NoKey}))
  BY DEF Prepares, fileVars
<1>2. /\ admin'[a].pc = IF key = NoKey THEN "write" ELSE "deliver"
      /\ admin'[a].next = next /\ admin'[a].key = key
      /\ \A b \in Admins \ {a} : admin'[b] = admin[b]
      /\ admin' \in [Admins -> Commands]
  BY <1>0, <1>1 DEF TypeOK, Commands
<1>3. TypeOK'
  BY <1>0, <1>1, <1>2 DEF TypeOK
<1>4. LockHeld'
  BY <1>0, <1>1, <1>2 DEF AdminInv, LockHeld
<1>5. Pending'
  BY <1>0, <1>1, <1>2, RegistryAssumption
  DEF AdminInv, Pending, Follows, Tombstones, Registered, Current, RegistryAssumption
<1>6. (PathShape(path) /\ PathShape(durable) /\ Reported)'
  BY <1>0, <1>1 DEF AdminInv, PathShape, Reported, Bars, Tombstones, Registered
<1>7. Handed'
  BY <1>0, <1>1, <1>2 DEF AdminInv, Handed, KeysIn, Registered
<1>8. ReaderInv'
  BY <1>0, <1>1, SameReaders
<1> QED BY <1>3, <1>4, <1>5, <1>6, <1>7, <1>8 DEF IInv, AdminInv

\* The key is on its way to the client before the registry knows it.
LEMMA WriteTokenStep ==
  ASSUME IInv, NEW a \in Admins, WriteToken(a)
  PROVE  IInv'
<1>0. AdminInv /\ TypeOK /\ ReaderInv
  BY DEF IInv, AdminInv
<1>1. /\ admin[a].pc = "deliver"
      /\ delivered' = delivered \cup {admin[a].key}
      /\ admin' = [admin EXCEPT ![a].pc = "write"]
      /\ UNCHANGED <<path, durable, clock, lock, issued, revoked, store, faults, outages, call>>
  BY DEF WriteToken, fileVars
<1>2. /\ admin'[a].pc = "write"
      /\ admin'[a].next = admin[a].next /\ admin'[a].key = admin[a].key
      /\ \A b \in Admins \ {a} : admin'[b] = admin[b]
      /\ admin' \in [Admins -> Commands]
  BY <1>0, <1>1 DEF TypeOK, Commands
<1>3. TypeOK'
  BY <1>0, <1>1, <1>2 DEF TypeOK, AdminInv, Handed
<1>4. LockHeld'
  BY <1>0, <1>1, <1>2 DEF AdminInv, LockHeld
<1>5. Pending'
  BY <1>0, <1>1, <1>2 DEF AdminInv, Pending, Follows, Tombstones, Registered, Current
<1>6. (PathShape(path) /\ PathShape(durable) /\ Reported)'
  BY <1>0, <1>1 DEF AdminInv, PathShape, Reported, Bars, Tombstones, Registered
<1>7. Handed'
  BY <1>0, <1>1, <1>2 DEF AdminInv, Handed, KeysIn, Registered
<1>8. ReaderInv'
  BY <1>0, <1>1, SameReaders
<1> QED BY <1>3, <1>4, <1>5, <1>6, <1>7, <1>8 DEF IInv, AdminInv

\* A registry that follows another bars everybody the other does.
LEMMA FollowsBars ==
  ASSUME NEW old, NEW new, NEW gone, Bars(old, gone), new # Broken,
         old = Broken \/ Follows(old, new)
  PROVE  Bars(new, gone)
  BY DEF Bars, Follows

\* What is written is the next revision of what it replaces: nobody else has
\* been there since the command read the registry.
LEMMA ReplaceStep ==
  ASSUME IInv, NEW a \in Admins, Replace(a)
  PROVE  IInv'
<1>0. AdminInv /\ TypeOK /\ ReaderInv
  BY DEF IInv, AdminInv
<1>1. /\ admin[a].pc = "write"
      /\ Renamed(admin[a].next)
      /\ admin' = [admin EXCEPT ![a].pc = "sync"]
      /\ UNCHANGED <<durable, lock, issued, delivered, revoked, faults, outages>>
  BY DEF Replace, keyVars
<1>2. /\ admin'[a].pc = "sync"
      /\ admin'[a].next = admin[a].next /\ admin'[a].key = admin[a].key
      /\ \A b \in Admins \ {a} : admin'[b] = admin[b]
      /\ admin' \in [Admins -> Commands]
      /\ admin[a].next \in Content \cup {Broken}
  BY <1>0, <1>1 DEF TypeOK, Commands
<1>3. Moved(admin[a].next)
  BY <1>1, <1>2, RenamedMoves
<1>4. TypeOK'
  BY <1>0, <1>1, <1>2, <1>3 DEF TypeOK, Moved
<1>5. /\ lock = {a}
      /\ \A b \in Admins \ {a} :
           admin'[b].pc \notin {"locked", "deliver", "write", "sync"}
  BY <1>0, <1>1, <1>2 DEF AdminInv, LockHeld
<1>6. LockHeld'
  BY <1>1, <1>5 DEF LockHeld
<1>7. /\ path'.content = admin[a].next /\ admin[a].next # Broken
      /\ faults = 0 => Bars(admin[a].next, revoked)
  <2>1. admin[a].next # Broken
    BY <1>0, <1>1 DEF AdminInv, Pending
  <2>2. faults = 0 => Current = Broken \/ Follows(Current, admin[a].next)
    BY <1>0, <1>1 DEF AdminInv, Pending
  <2>3. faults = 0 => Bars(Current, revoked)
    BY <1>0 DEF AdminInv, Reported, Current
  <2> QED BY <1>3, <2>1, <2>2, <2>3, FollowsBars DEF Moved
<1>8. Pending'
  BY <1>2, <1>5, <1>7 DEF Pending, Current
<1>9. Reported'
  BY <1>0, <1>1, <1>7 DEF AdminInv, Reported, Bars, Tombstones, Registered
<1>10. (PathShape(path) /\ PathShape(durable))'
  BY <1>0, <1>1, <1>3 DEF AdminInv, PathShape, Moved, TypeOK, Files
<1>11. Handed'
  BY <1>0, <1>1, <1>2, <1>7 DEF AdminInv, Handed, KeysIn, Registered
<1>12. ReaderInv'
  BY <1>1, <1>2, <1>3, <1>7, MovedReaders
<1> QED BY <1>4, <1>6, <1>8, <1>9, <1>10, <1>11, <1>12 DEF IInv, AdminInv

\* What is reported is on disk.
LEMMA ReportStep ==
  ASSUME IInv, NEW a \in Admins, Report(a)
  PROVE  IInv'
<1>0. AdminInv /\ TypeOK /\ ReaderInv
  BY DEF IInv, AdminInv
<1>1. /\ admin[a].pc = "sync"
      /\ durable' = path
      /\ Leave(a)
      /\ revoked' = revoked \cup Tombstones(admin[a].next.rows)
      /\ UNCHANGED <<path, clock, issued, delivered, store, faults, outages, call>>
  BY DEF Report, keyVars
<1>2. /\ admin'[a].pc = "idle"
      /\ lock' = lock \ {a}
      /\ \A b \in Admins \ {a} : admin'[b] = admin[b]
      /\ admin' \in [Admins -> Commands]
  BY <1>0, <1>1 DEF TypeOK, Commands, Leave, Idle
<1>3. TypeOK'
  BY <1>0, <1>1, <1>2 DEF TypeOK, Tombstones, Registered
<1>4. LockHeld'
  BY <1>0, <1>2 DEF AdminInv, LockHeld
<1>5. Pending'
  BY <1>0, <1>1, <1>2 DEF AdminInv, Pending, Follows, Tombstones, Registered, Current
<1>6. Reported'
  <2>1. admin[a].next # Broken /\ (faults = 0 => path.content = admin[a].next)
    BY <1>0, <1>1 DEF AdminInv, Pending, Current
  <2>2. faults = 0 => Bars(path.content, revoked')
    BY <1>0, <1>1, <2>1 DEF AdminInv, Reported, Bars
  <2> QED BY <1>1, <2>2 DEF Reported, Bars, Tombstones, Registered
<1>7. (PathShape(path) /\ PathShape(durable))'
  BY <1>0, <1>1 DEF AdminInv, PathShape
<1>8. Handed'
  BY <1>0, <1>1, <1>2 DEF AdminInv, Handed, KeysIn, Registered
<1>9. ReaderInv'
  <2> SUFFICES ASSUME NEW s \in Stores
               PROVE  (Descriptor(s) /\ Cache(s) /\ Reading(s) /\ Undisturbed(s) /\ Barred(s))'
    BY DEF ReaderInv
  <2>1. Descriptor(s) /\ Cache(s) /\ Reading(s) /\ Undisturbed(s) /\ Barred(s)
    BY <1>0 DEF ReaderInv
  <2>2. Descriptor(s)' /\ Cache(s)' /\ Reading(s)'
    BY <1>1, <2>1 DEF Descriptor, Cache, Reading, InCall, Answered, Fingerprint, Current
  <2>3. Undisturbed(s)'
    BY <1>1, <2>1 DEF Undisturbed, Fingerprint, Current
  <2>4. Barred(s)'
    BY <1>1, <2>1 DEF Barred, Bars, Tombstones, Registered
  <2> QED BY <2>2, <2>3, <2>4
<1> QED BY <1>3, <1>4, <1>5, <1>6, <1>7, <1>8, <1>9 DEF IInv, AdminInv

LEMMA AdministrationStep ==
  ASSUME IInv, Administration
  PROVE  IInv'
<1> PICK a \in Admins : Start(a) \/ Acquire(a) \/ Proceed(a) \/ Crash(a)
  BY DEF Administration
<1>1. CASE Refused(a) \/ DeliveryFails(a) \/ WriteFails(a) \/ SyncFails(a) \/ Crash(a)
  BY <1>1, LeaveStep DEF Refused, DeliveryFails, WriteFails, SyncFails, Crash
<1>2. CASE Command(a) /\ ~Refused(a)
  BY <1>2, CommandPrepares, PreparesStep DEF IInv
<1> QED
  BY <1>1, <1>2, BeginStep, WriteTokenStep, ReplaceStep, ReportStep DEF Proceed

-----------------------------------------------------------------------------
(* The world around.                                                       *)

\* Other tools may put anything there, but no key that nobody has.
LEMMA OutsideStep ==
  ASSUME IInv, Outside
  PROVE  IInv'
<1>0. AdminInv /\ TypeOK /\ ReaderInv
  BY DEF IInv, AdminInv
<1>1. /\ faults' = faults + 1
      /\ UNCHANGED <<durable, lock, admin, issued, delivered, revoked, outages>>
  BY DEF Outside, adminVars, keyVars
<1>2. \E content \in Content \cup {Broken} :
        Moved(content) /\ KeysIn(content, delivered \cup Minted)
  <2>1. CASE Rewritten(Broken)
    BY <2>1, RewrittenMoves DEF KeysIn
  <2>2. CASE Unlinked(Absent) \/ Unlinked(Special)
    BY <2>2, UnlinkedMoves DEF KeysIn
  <2>3. CASE Renamed(Registry(1, 0, Legacy))
    <3>1. Registry(1, 0, Legacy) \in Content /\ Registry(1, 0, Legacy).rows = Legacy
      BY RegistryAssumption DEF Registry, Content, RegistryAssumption
    <3>2. KeysIn(Registry(1, 0, Legacy), delivered \cup Minted)
      BY <3>1, RegistryAssumption DEF KeysIn, RegistryAssumption
    <3> QED BY <2>3, <3>1, <3>2, RenamedMoves
  <2>4. ASSUME Current # Broken,
               NEW c \in Registered(Current.rows),
               Rewritten([Current EXCEPT !.rows[c].enabled = ~@])
        PROVE  \E content \in Content : Moved(content) /\ KeysIn(content, delivered \cup Minted)
    <3>1. Current \in Content /\ Current.rows \in Rows
      BY <1>0, <2>4 DEF TypeOK, Files, Content, Current
    <3>2. c \in Clients /\ Current.rows[c] \in Row
      BY <3>1 DEF Registered, Rows
    <3> DEFINE row == [Current.rows[c] EXCEPT !.enabled = ~@]
               rows == [Current.rows EXCEPT ![c] = row]
               content == [Current EXCEPT !.rows = rows]
    <3>3. row \in Row /\ row.key = Current.rows[c].key
      BY <3>2 DEF Row
    <3>4. content = [Current EXCEPT !.rows[c].enabled = ~@]
      OBVIOUS
    <3> HIDE DEF row
    <3>5. rows \in Rows /\ \A d \in Clients : rows[d] = IF d = c THEN row ELSE Current.rows[d]
      BY <3>1, <3>2, <3>3 DEF Rows
    <3> HIDE DEF rows
    <3>6. content \in Content /\ content.rows = rows
      BY <3>1, <3>5 DEF Content
    <3>7. KeysIn(content, delivered \cup Minted)
      <4>1. \A d \in Registered(rows) : d \in Registered(Current.rows)
        BY <3>5 DEF Registered
      <4>2. \A d \in Registered(rows) : rows[d].key = Current.rows[d].key
        BY <3>3, <3>5 DEF Registered
      <4>3. KeysIn(Current, delivered \cup Minted)
        BY <1>0 DEF AdminInv, Handed, Current
      <4> QED BY <2>4, <3>6, <4>1, <4>2, <4>3 DEF KeysIn
    <3> QED BY <2>4, <3>4, <3>6, <3>7, RewrittenMoves
  <2> QED BY <2>1, <2>2, <2>3, <2>4 DEF Outside
<1>3. PICK content \in Content \cup {Broken} :
        Moved(content) /\ KeysIn(content, delivered \cup Minted)
  BY <1>2
<1>4. faults' # 0 /\ faults' \in Nat
  BY <1>0, <1>1 DEF TypeOK
<1>5. TypeOK'
  BY <1>0, <1>1, <1>3, <1>4 DEF TypeOK, Moved
<1>6. LockHeld' /\ Pending' /\ Reported'
  BY <1>0, <1>1, <1>4 DEF AdminInv, LockHeld, Pending, Reported
<1>7. (PathShape(path) /\ PathShape(durable))'
  BY <1>0, <1>1, <1>3 DEF AdminInv, PathShape, Moved, TypeOK, Files
<1>8. Handed'
  <2>1. path'.content = content
    BY <1>3 DEF Moved
  <2> QED BY <1>0, <1>1, <1>3, <2>1 DEF AdminInv, Handed, KeysIn, Registered
<1>9. ReaderInv'
  BY <1>1, <1>3, <1>4, MovedReaders
<1> QED BY <1>5, <1>6, <1>7, <1>8, <1>9 DEF IInv, AdminInv

LEMMA WritebackStep ==
  ASSUME IInv, Writeback
  PROVE  IInv'
<1>0. AdminInv /\ TypeOK /\ ReaderInv
  BY DEF IInv, AdminInv
<1>1. /\ durable' = path
      /\ UNCHANGED <<path, clock, lock, admin, issued, delivered, revoked, store, faults,
                     outages, call>>
  BY DEF Writeback, adminVars, keyVars
<1>2. TypeOK' /\ LockHeld'
  BY <1>0, <1>1 DEF TypeOK, AdminInv, LockHeld
<1>3. Pending'
  BY <1>0, <1>1 DEF AdminInv, Pending, Follows, Tombstones, Registered, Current
<1>4. (PathShape(path) /\ PathShape(durable) /\ Reported)'
  BY <1>0, <1>1 DEF AdminInv, PathShape, Reported, Bars, Tombstones, Registered
<1>5. Handed'
  BY <1>0, <1>1 DEF AdminInv, Handed, KeysIn, Registered
<1>6. ReaderInv'
  BY <1>0, <1>1, SameReaders
<1> QED BY <1>2, <1>3, <1>4, <1>5, <1>6 DEF IInv, AdminInv

\* What the readers are when their process starts.
LEMMA NewReader ==
  ASSUME NEW f \in Files, NEW time \in Nat, f.ino \in Inodes \cup {Absent, Special}
  PROVE  /\ NewStore \in Readers /\ NewCall \in Calls
         /\ NewStore.pc = "idle" /\ NewStore.fd.ino = Closed /\ NewStore.fd.time <= time
         /\ NewStore.before[2] <= time /\ NewStore.stamp[2] <= time
         /\ NewStore.fd.ino # f.ino /\ NewStore.stamp # Fingerprint(f)
         /\ NewCall.seen = {} /\ NewCall.barred = {} /\ NewCall.began <= time
<1>1. NoFile(Closed) \in Files /\ NoFile(Closed).ino = Closed /\ NoFile(Closed).time = 0
  BY DEF NoFile, File, Files
<1>2. Empty \in Rows /\ <<Closed, 0>> \in Stamps
  BY DEF Empty, Rows, Stamps
<1>3. NewStore \in Readers
  BY <1>1, <1>2 DEF NewStore, Readers
<1>4. NewCall \in Calls
  BY DEF NewCall, Calls
<1>5. Closed # f.ino
  BY RegistryAssumption DEF RegistryAssumption
<1> QED BY <1>1, <1>3, <1>4, <1>5 DEF NewStore, NewCall, Fingerprint

Restarted ==
  /\ path \in Files /\ clock \in Nat /\ PathShape(path)
  /\ store = [s \in Stores |-> NewStore]
  /\ call = [s \in Stores |-> NewCall]

LEMMA NewReaders ==
  Restarted => store \in [Stores -> Readers] /\ call \in [Stores -> Calls] /\ ReaderInv
<1> SUFFICES ASSUME Restarted
             PROVE  store \in [Stores -> Readers] /\ call \in [Stores -> Calls] /\ ReaderInv
  OBVIOUS
<1> USE DEF Restarted
<1>1. path.ino \in Inodes \cup {Absent, Special}
  BY DEF PathShape
<1>2. store \in [Stores -> Readers] /\ call \in [Stores -> Calls]
  BY <1>1, NewReader
<1>3. ASSUME NEW s \in Stores
      PROVE  Descriptor(s) /\ Cache(s) /\ Reading(s) /\ Undisturbed(s) /\ Barred(s)
  <2>1. store[s] = NewStore /\ call[s] = NewCall
    OBVIOUS
  <2>2. Descriptor(s) /\ Cache(s)
    BY <1>1, <2>1, NewReader DEF Descriptor, Cache
  <2>3. Reading(s)
    BY <1>1, <2>1, NewReader DEF Reading, InCall, Answered
  <2>4. Undisturbed(s) /\ Barred(s)
    BY <1>1, <2>1, NewReader DEF Undisturbed, Barred
  <2> QED BY <2>2, <2>3, <2>4
<1> QED BY <1>2, <1>3 DEF ReaderInv

\* After a power loss the path names what it named, or what was on disk.
LEMMA OutageStep ==
  ASSUME IInv, Outage
  PROVE  IInv'
<1>0. AdminInv /\ TypeOK
  BY DEF IInv, AdminInv
<1>1. /\ path' \in {path, durable} /\ durable' = path'
      /\ lock' = {} /\ admin' = [a \in Admins |-> Idle]
      /\ store' = [s \in Stores |-> NewStore] /\ call' = [s \in Stores |-> NewCall]
      /\ outages' = outages + 1
      /\ UNCHANGED <<clock, issued, delivered, revoked, faults>>
  BY DEF Outage, keyVars
<1>2. Idle \in Commands /\ Idle.pc = "idle"
  BY DEF Idle, Commands
<1>3. (PathShape(path) /\ PathShape(durable) /\ Reported)'
  BY <1>0, <1>1 DEF AdminInv, PathShape, Reported, Bars, Tombstones, Registered
<1>4. Restarted'
  BY <1>0, <1>1, <1>3 DEF Restarted, TypeOK
<1>5. (store \in [Stores -> Readers] /\ call \in [Stores -> Calls] /\ ReaderInv)'
  <2>1. (Restarted => store \in [Stores -> Readers] /\ call \in [Stores -> Calls] /\ ReaderInv)'
    BY NewReaders, PTL
  <2> QED BY <1>4, <2>1
<1>6. TypeOK'
  BY <1>0, <1>1, <1>2, <1>5 DEF TypeOK
<1>7. LockHeld' /\ Pending'
  BY <1>1, <1>2 DEF LockHeld, Pending
<1>8. Handed'
  BY <1>0, <1>1, <1>2 DEF AdminInv, Handed, KeysIn, Registered
<1> QED BY <1>3, <1>5, <1>6, <1>7, <1>8 DEF IInv, AdminInv

LEMMA InitInvariant == Init => IInv
<1> SUFFICES ASSUME Init PROVE IInv
  OBVIOUS
<1>1. Idle \in Commands /\ Idle.pc = "idle"
  BY DEF Idle, Commands
<1>2. /\ path \in Files /\ PathShape(path)
      /\ KeysIn(path.content, delivered \cup Minted)
  <2>1. CASE path = NoFile(Absent)
    <3>1. path.ino = Absent /\ path.time = 0 /\ path.content = Broken /\ path \in Files
      BY <2>1 DEF NoFile, File, Files
    <3> QED BY <3>1, RegistryAssumption DEF PathShape, KeysIn, Init, RegistryAssumption
  <2>2. ASSUME NEW i \in Inodes,
               path = File(i, 0, Registry(2, 1, Expanded(Legacy)))
        PROVE  /\ path \in Files /\ PathShape(path)
               /\ KeysIn(path.content, delivered \cup Minted)
    <3>1. /\ Registry(2, 1, Expanded(Legacy)) \in Content
          /\ Registry(2, 1, Expanded(Legacy)).rows = Expanded(Legacy)
      BY ExpandedType DEF Registry, Content
    <3>2. /\ path.ino = i /\ path.time = 0 /\ path \in Files
          /\ path.content = Registry(2, 1, Expanded(Legacy))
      BY <2>2, <3>1 DEF File, Files
    <3>3. PathShape(path)
      BY <3>2 DEF PathShape, Init
    <3> QED BY <3>1, <3>2, <3>3, ExpandedKeys DEF KeysIn
  <2> QED BY <2>1, <2>2 DEF Init
<1>3. Restarted
  BY <1>2 DEF Init, Restarted
<1>4. TypeOK /\ ReaderInv
  BY <1>1, <1>2, <1>3, NewReaders DEF Init, TypeOK
<1>5. PathShape(durable) /\ LockHeld /\ Pending
  BY <1>1, <1>2 DEF Init, LockHeld, Pending
<1>6. Reported /\ Handed
  BY <1>1, <1>2 DEF Init, Reported, Bars, Handed
<1> QED BY <1>2, <1>4, <1>5, <1>6 DEF IInv, AdminInv

-----------------------------------------------------------------------------
(* The steps of a reader.                                                  *)

\* Only the reader that takes a step needs to be looked at.
LEMMA OneReader ==
  ASSUME IInv, NEW s \in Stores,
         UNCHANGED <<fileVars, adminVars, faults, outages>>,
         NEW st \in Readers, store' = [store EXCEPT ![s] = st],
         NEW c \in Calls, call' = [call EXCEPT ![s] = c],
         (Descriptor(s) /\ Cache(s) /\ Reading(s) /\ Undisturbed(s) /\ Barred(s))'
  PROVE  IInv'
<1>0. AdminInv /\ TypeOK /\ ReaderInv
  BY DEF IInv, AdminInv
<1>1. UNCHANGED <<path, durable, clock, lock, admin, issued, delivered, revoked>>
  BY DEF fileVars, adminVars, keyVars
<1>2. TypeOK'
  BY <1>0, <1>1 DEF TypeOK
<1>3. ASSUME NEW r \in Stores \ {s}
      PROVE  (Descriptor(r) /\ Cache(r) /\ Reading(r) /\ Undisturbed(r) /\ Barred(r))'
  <2>1. store'[r] = store[r] /\ call'[r] = call[r]
    BY <1>0 DEF TypeOK
  <2>2. Descriptor(r) /\ Cache(r) /\ Reading(r) /\ Undisturbed(r) /\ Barred(r)
    BY <1>0 DEF ReaderInv
  <2>3. Descriptor(r)' /\ Cache(r)'
    BY <1>1, <2>1, <2>2 DEF Descriptor, Cache, Fingerprint, Current
  <2>4. Reading(r)'
    BY <1>1, <2>1, <2>2 DEF Reading, InCall, Answered, Fingerprint, Current
  <2>5. Undisturbed(r)' /\ Barred(r)'
    BY <1>1, <2>1, <2>2
    DEF Undisturbed, Barred, Bars, Tombstones, Registered, Fingerprint, Current
  <2> QED BY <2>3, <2>4, <2>5
<1>4. ReaderInv'
  BY <1>3 DEF ReaderInv
<1> QED BY <1>0, <1>2, <1>4, SameAdmins DEF IInv

\* What a reader looks like after it has answered, or has raised.
LEMMA AnswerFacts ==
  ASSUME NEW st \in Readers, NEW clients \in Rows \cup {Unavailable}
  PROVE  /\ Answer(st, clients) \in Readers
         /\ Answer(st, clients).pc = "done"
         /\ Answer(st, clients).answer = clients
         /\ Answer(st, clients).fd = NoFile(Closed)
         /\ Answer(st, clients).before = <<Closed, 0>>
         /\ Answer(st, clients).stamp = st.stamp
         /\ Answer(st, clients).clients = st.clients
<1>1. NoFile(Closed) \in Files
  BY DEF NoFile, File, Files
<1>2. <<Closed, 0>> \in Stamps
  BY DEF Stamps
<1> QED BY <1>1, <1>2 DEF Answer, Readers

LEMMA RaiseFacts ==
  ASSUME NEW st \in Readers
  PROVE  /\ Raise(st) \in Readers
         /\ Raise(st).pc = "done"
         /\ Raise(st).answer = Unavailable
         /\ Raise(st).fd = NoFile(Closed)
         /\ Raise(st).before = <<Closed, 0>>
         /\ Raise(st).stamp = <<Closed, 0>>
<1>1. Answer(st, Unavailable) \in Readers
  BY AnswerFacts
<1>2. Empty \in Rows /\ <<Closed, 0>> \in Stamps
  BY DEF Empty, Rows, Stamps
<1> HIDE DEF Answer
<1>3. Raise(st) \in Readers /\ Raise(st).stamp = <<Closed, 0>>
  BY <1>1, <1>2 DEF Raise, Readers
<1>4. /\ Raise(st).pc = Answer(st, Unavailable).pc
      /\ Raise(st).answer = Answer(st, Unavailable).answer
      /\ Raise(st).fd = Answer(st, Unavailable).fd
      /\ Raise(st).before = Answer(st, Unavailable).before
  BY <1>1 DEF Raise, Readers
<1> QED BY <1>3, <1>4, AnswerFacts

\* A call that raises: the cache is dropped, and it raises only when the
\* registry is broken, has changed since the call began, or cannot be read.
LEMMA RaiseStep ==
  ASSUME IInv, NEW s \in Stores,
         UNCHANGED <<fileVars, adminVars, faults, outages>>,
         InCall(s),
         store' = [store EXCEPT ![s] = Raise(store[s])],
         NEW c \in Calls, call' = [call EXCEPT ![s] = c],
         c.seen = call[s].seen, c.began = call[s].began, c.barred = call[s].barred,
         c.began = clock => c.error \/ Current = Broken
  PROVE  IInv'
<1>0. /\ TypeOK /\ PathShape(path)
      /\ Descriptor(s) /\ Reading(s) /\ Barred(s)
  BY DEF IInv, AdminInv, ReaderInv
<1>1. store[s] \in Readers /\ clock \in Nat
  BY <1>0 DEF TypeOK
<1>2. store'[s] = Raise(store[s]) /\ call'[s] = c /\ Raise(store[s]) \in Readers
  BY <1>0, <1>1, RaiseFacts DEF TypeOK
<1>3. UNCHANGED <<path, clock, revoked>>
  BY DEF fileVars, adminVars
<1>4. /\ store'[s].pc = "done" /\ store'[s].answer = Unavailable
      /\ store'[s].fd = NoFile(Closed) /\ store'[s].before = <<Closed, 0>>
      /\ store'[s].stamp = <<Closed, 0>>
  BY <1>1, <1>2, RaiseFacts
<1>5. NoFile(Closed).ino = Closed /\ NoFile(Closed).time = 0
  BY DEF NoFile, File
<1>6. Closed # path.ino
  BY <1>0, RegistryAssumption DEF PathShape, RegistryAssumption
<1>7. Descriptor(s)'
  BY <1>0, <1>1, <1>2, <1>3, <1>4, <1>5, <1>6 DEF Descriptor
<1>8. Cache(s)'
  BY <1>3, <1>4, <1>6 DEF Cache, Fingerprint
<1>9. Reading(s)'
  BY <1>0, <1>2, <1>3, <1>4 DEF Reading, InCall, Answered, Current
<1>10. Undisturbed(s)'
  BY <1>2, <1>3 DEF Undisturbed, Current
<1>11. Barred(s)'
  BY <1>0, <1>2, <1>3 DEF Barred, Bars, Tombstones, Registered
<1> QED BY <1>2, <1>7, <1>8, <1>9, <1>10, <1>11, OneReader

\* A reader is in the same call before and after its own steps.
LEMMA SameCall ==
  ASSUME TypeOK, NEW s \in Stores, UNCHANGED call
  PROVE  call[s] \in Calls /\ call' = [call EXCEPT ![s] = call[s]]
  BY DEF TypeOK

LEMMA CallStep ==
  ASSUME IInv, NEW s \in Stores, Call(s)
  PROVE  IInv'
<1>0. /\ TypeOK /\ PathShape(path) /\ Reported
      /\ Descriptor(s) /\ Cache(s)
  BY DEF IInv, AdminInv, ReaderInv
<1> DEFINE st == [store[s] EXCEPT !.pc = "lstat"]
           c == [seen |-> {Current}, began |-> clock, barred |-> revoked, error |-> FALSE]
<1>1. store[s] \in Readers /\ st \in Readers /\ clock \in Nat /\ c \in Calls
  <2>1. {Current} \in SUBSET (Content \cup {Broken}) /\ clock \in Nat /\ revoked \in SUBSET Clients
    BY <1>0 DEF TypeOK, Files, Current
  <2>2. c \in Calls
    BY <2>1 DEF Calls
  <2> QED BY <1>0, <2>1, <2>2 DEF TypeOK, Readers
<1>2. /\ store' = [store EXCEPT ![s] = st] /\ call' = [call EXCEPT ![s] = c]
      /\ UNCHANGED <<fileVars, adminVars, faults, outages>>
      /\ UNCHANGED <<path, clock, revoked>>
  BY DEF Call, fileVars, adminVars
<1>3. /\ store'[s].pc = "lstat" /\ store'[s].fd = store[s].fd
      /\ store'[s].before = store[s].before /\ store'[s].stamp = store[s].stamp
      /\ store'[s].clients = store[s].clients
      /\ call'[s].seen = {Current} /\ call'[s].began = clock /\ call'[s].barred = revoked
  BY <1>0, <1>1, <1>2 DEF TypeOK, Readers
<1> HIDE DEF st, c
<1>4. Descriptor(s)' /\ Cache(s)'
  BY <1>0, <1>1, <1>2, <1>3 DEF Descriptor, Cache, Fingerprint, Current
<1>5. Reading(s)' /\ Undisturbed(s)'
  BY <1>2, <1>3 DEF Reading, Undisturbed, InCall, Answered, Current
<1>6. Barred(s)'
  BY <1>0, <1>2, <1>3 DEF Barred, Reported, Bars, Tombstones, Registered, Current
<1> QED BY <1>1, <1>2, <1>4, <1>5, <1>6, OneReader

\* A path that is not a file makes the call raise; the cache answers only when
\* the fingerprint says that the path holds what was loaded.
LEMMA LstatStep ==
  ASSUME IInv, NEW s \in Stores, Lstat(s)
  PROVE  IInv'
<1>0. /\ TypeOK /\ PathShape(path)
      /\ Descriptor(s) /\ Cache(s) /\ Reading(s) /\ Undisturbed(s) /\ Barred(s)
  BY DEF IInv, AdminInv, ReaderInv
<1>1. /\ store[s] \in Readers /\ clock \in Nat /\ call[s] \in Calls
      /\ call' = [call EXCEPT ![s] = call[s]]
      /\ store[s].pc = "lstat" /\ InCall(s) /\ call'[s] = call[s]
      /\ UNCHANGED <<fileVars, adminVars, faults, outages>>
      /\ UNCHANGED <<path, clock, revoked>>
  BY <1>0, SameCall DEF TypeOK, Lstat, InCall, fileVars, adminVars
<1>2. CASE path.ino \notin Inodes
  BY <1>0, <1>1, <1>2, RaiseStep DEF Lstat, PathShape, Current
<1>3. CASE path.ino \in Inodes /\ Fingerprint(path) = store[s].stamp
  <2> DEFINE st == Answer(store[s], store[s].clients)
  <2>1. store' = [store EXCEPT ![s] = st] /\ store'[s] = st
    BY <1>0, <1>3 DEF Lstat, TypeOK
  <2>2. store[s].clients \in Rows
    BY <1>1 DEF Readers
  <2>3. /\ st \in Readers /\ st.pc = "done" /\ st.answer = store[s].clients
        /\ st.fd = NoFile(Closed) /\ st.before = <<Closed, 0>>
        /\ st.stamp = store[s].stamp /\ st.clients = store[s].clients
    BY <1>1, <2>2, AnswerFacts
  <2> HIDE DEF st
  <2>4. NoFile(Closed).ino = Closed /\ NoFile(Closed).time = 0
    BY DEF NoFile, File
  <2>5. Current # Broken /\ store[s].clients = Current.rows /\ Current \in call[s].seen
    BY <1>0, <1>1, <1>3 DEF Cache, Reading
  <2>6. Closed # path.ino
    BY <1>0, RegistryAssumption DEF PathShape, RegistryAssumption
  <2>7. Descriptor(s)'
    BY <1>0, <1>1, <2>1, <2>3, <2>4, <2>6 DEF Descriptor
  <2>8. Cache(s)' /\ Undisturbed(s)'
    BY <1>1, <2>1, <2>3, <2>5 DEF Cache, Undisturbed, Fingerprint, Current
  <2>9. Reading(s)'
    BY <1>1, <2>1, <2>3, <2>5 DEF Reading, InCall, Answered, Current
  <2>10. Barred(s)'
    BY <1>0, <1>1 DEF Barred, Bars, Tombstones, Registered
  <2> QED BY <1>1, <2>1, <2>3, <2>7, <2>8, <2>9, <2>10, OneReader
<1>4. CASE path.ino \in Inodes /\ Fingerprint(path) # store[s].stamp
  <2> DEFINE st == [store[s] EXCEPT !.pc = "open"]
  <2>1. store' = [store EXCEPT ![s] = st] /\ store'[s] = st
    BY <1>0, <1>4 DEF Lstat, TypeOK
  <2>2. /\ st \in Readers /\ st.pc = "open" /\ st.fd = store[s].fd
        /\ st.before = store[s].before /\ st.stamp = store[s].stamp
        /\ st.clients = store[s].clients
    BY <1>1 DEF Readers
  <2> HIDE DEF st
  <2>3. Descriptor(s)' /\ Cache(s)'
    BY <1>0, <1>1, <2>1, <2>2 DEF Descriptor, Cache, Fingerprint, Current
  <2>4. Reading(s)' /\ Undisturbed(s)'
    BY <1>0, <1>1, <2>1, <2>2 DEF Reading, Undisturbed, InCall, Answered, Current
  <2>5. Barred(s)'
    BY <1>0, <1>1 DEF Barred, Bars, Tombstones, Registered
  <2> QED BY <1>1, <2>1, <2>2, <2>3, <2>4, <2>5, OneReader
<1> QED BY <1>2, <1>3, <1>4

LEMMA OpenStep ==
  ASSUME IInv, NEW s \in Stores, Open(s)
  PROVE  IInv'
<1>0. /\ TypeOK /\ PathShape(path)
      /\ Descriptor(s) /\ Cache(s) /\ Reading(s) /\ Barred(s)
  BY DEF IInv, AdminInv, ReaderInv
<1>1. /\ store[s] \in Readers /\ clock \in Nat /\ path \in Files /\ call[s] \in Calls
      /\ call' = [call EXCEPT ![s] = call[s]]
      /\ store[s].pc = "open" /\ InCall(s) /\ call'[s] = call[s]
      /\ UNCHANGED <<fileVars, adminVars, faults, outages>>
      /\ UNCHANGED <<path, clock, revoked>>
  BY <1>0, SameCall DEF TypeOK, Open, InCall, fileVars, adminVars
<1>2. CASE path.ino \notin Inodes
  BY <1>0, <1>1, <1>2, RaiseStep DEF Open, PathShape, Current
<1>3. CASE path.ino \in Inodes
  <2> DEFINE st == [store[s] EXCEPT !.pc = "read", !.fd = path, !.before = Fingerprint(path)]
  <2>1. store' = [store EXCEPT ![s] = st] /\ store'[s] = st
    BY <1>0, <1>3 DEF Open, TypeOK
  <2>2. Fingerprint(path) \in Stamps /\ Fingerprint(path) = <<path.ino, path.time>>
    BY <1>1, <1>3 DEF Fingerprint, Stamps, Files
  <2>3. /\ st \in Readers /\ st.pc = "read" /\ st.fd = path /\ st.before = Fingerprint(path)
        /\ st.stamp = store[s].stamp /\ st.clients = store[s].clients
    BY <1>1, <2>2 DEF Readers
  <2> HIDE DEF st
  <2>4. Descriptor(s)'
    BY <1>0, <1>1, <1>3, <2>1, <2>2, <2>3 DEF Descriptor, PathShape
  <2>5. Cache(s)' /\ Undisturbed(s)'
    BY <1>0, <1>1, <2>1, <2>3 DEF Cache, Undisturbed, Fingerprint, Current
  <2>6. Reading(s)'
    BY <1>0, <1>1, <1>3, <2>1, <2>2, <2>3 DEF Reading, InCall, Answered, Current
  <2>7. Barred(s)'
    BY <1>0, <1>1 DEF Barred, Bars, Tombstones, Registered
  <2> QED BY <1>1, <2>1, <2>3, <2>4, <2>5, <2>6, <2>7, OneReader
<1> QED BY <1>2, <1>3

LEMMA ReadStep ==
  ASSUME IInv, NEW s \in Stores, Read(s)
  PROVE  IInv'
<1>0. /\ TypeOK /\ PathShape(path)
      /\ Descriptor(s) /\ Cache(s) /\ Reading(s) /\ Undisturbed(s) /\ Barred(s)
  BY DEF IInv, AdminInv, ReaderInv
<1>1. /\ store[s] \in Readers /\ clock \in Nat /\ call[s] \in Calls
      /\ call' = [call EXCEPT ![s] = call[s]]
      /\ store[s].pc = "read" /\ InCall(s) /\ call'[s] = call[s]
      /\ UNCHANGED <<fileVars, adminVars, faults, outages>>
      /\ UNCHANGED <<path, clock, revoked>>
  BY <1>0, SameCall DEF TypeOK, Read, InCall, fileVars, adminVars
<1> DEFINE st == [store[s] EXCEPT !.pc = "fstat", !.raw = store[s].fd.content]
<1>2. store' = [store EXCEPT ![s] = st] /\ store'[s] = st
  BY <1>0 DEF Read, TypeOK
<1>3. store[s].fd \in Files /\ store[s].fd.content \in Content \cup {Broken}
  BY <1>1 DEF Readers, Files
<1>4. /\ st \in Readers /\ st.pc = "fstat" /\ st.raw = store[s].fd.content
      /\ st.fd = store[s].fd /\ st.before = store[s].before
      /\ st.stamp = store[s].stamp /\ st.clients = store[s].clients
  BY <1>1, <1>3 DEF Readers
<1> HIDE DEF st
<1>5. Descriptor(s)' /\ Cache(s)'
  BY <1>0, <1>1, <1>2, <1>4 DEF Descriptor, Cache, Fingerprint, Current
<1>6. Reading(s)'
  BY <1>0, <1>1, <1>2, <1>4 DEF Reading, InCall, Answered, Current
<1>7. Undisturbed(s)'
  BY <1>0, <1>1, <1>2, <1>4 DEF Undisturbed, Fingerprint, Current
<1>8. Barred(s)'
  BY <1>0, <1>1 DEF Barred, Bars, Tombstones, Registered
<1> QED BY <1>1, <1>2, <1>4, <1>5, <1>6, <1>7, <1>8, OneReader

\* What was read is kept only if the file did not change meanwhile, and then
\* it is what the path holds, if the path still names that file.
LEMMA FstatStep ==
  ASSUME IInv, NEW s \in Stores, Fstat(s)
  PROVE  IInv'
<1>0. /\ TypeOK /\ PathShape(path)
      /\ Descriptor(s) /\ Cache(s) /\ Reading(s) /\ Undisturbed(s) /\ Barred(s)
  BY DEF IInv, AdminInv, ReaderInv
<1>1. /\ store[s] \in Readers /\ clock \in Nat /\ call[s] \in Calls
      /\ call' = [call EXCEPT ![s] = call[s]]
      /\ store[s].pc = "fstat" /\ InCall(s) /\ call'[s] = call[s]
      /\ UNCHANGED <<fileVars, adminVars, faults, outages>>
      /\ UNCHANGED <<path, clock, revoked>>
  BY <1>0, SameCall DEF TypeOK, Fstat, InCall, fileVars, adminVars
<1>2. CASE ~Loads(store[s])
  <2>1. ~(call[s].began = clock /\ ~call[s].error /\ Current # Broken)
    BY <1>0, <1>1, <1>2 DEF Undisturbed, Loads
  <2>2. store' = [store EXCEPT ![s] = Raise(store[s])]
    BY <1>2 DEF Fstat
  <2> QED BY <1>1, <2>1, <2>2, RaiseStep
<1>3. CASE Loads(store[s])
  <2> DEFINE rows == store[s].raw.rows
             answered == Answer(store[s], rows)
             st == [answered EXCEPT !.clients = rows, !.stamp = Fingerprint(store[s].fd)]
  <2>1. store' = [store EXCEPT ![s] = st] /\ store'[s] = st
    BY <1>0, <1>3 DEF Fstat, TypeOK
  <2>2. /\ Fingerprint(store[s].fd) = store[s].before /\ store[s].raw # Broken
        /\ store[s].fd.content = store[s].raw /\ store[s].raw \in call[s].seen
        /\ store[s].fd.ino \in Inodes /\ Current \in call[s].seen
    BY <1>0, <1>1, <1>3 DEF Loads, Reading
  <2>3. rows \in Rows /\ Fingerprint(store[s].fd) \in Stamps
    BY <1>1, <2>2 DEF Readers, Content
  <2>4. /\ answered \in Readers /\ answered.pc = "done" /\ answered.answer = rows
        /\ answered.fd = NoFile(Closed) /\ answered.before = <<Closed, 0>>
    BY <1>1, <2>3, AnswerFacts
  <2> HIDE DEF answered
  <2>5. /\ st \in Readers /\ st.pc = "done" /\ st.answer = rows
        /\ st.fd = NoFile(Closed) /\ st.before = <<Closed, 0>>
        /\ st.clients = rows /\ st.stamp = Fingerprint(store[s].fd)
    BY <2>3, <2>4 DEF Readers
  <2> HIDE DEF st
  <2>6. NoFile(Closed).ino = Closed /\ NoFile(Closed).time = 0
    BY DEF NoFile, File
  <2>7. Closed # path.ino
    BY <1>0, RegistryAssumption DEF PathShape, RegistryAssumption
  <2>8. Descriptor(s)'
    BY <1>0, <1>1, <2>1, <2>2, <2>5, <2>6, <2>7 DEF Descriptor
  <2>9. Cache(s)'
    <3> SUFFICES ASSUME store'[s].stamp = Fingerprint(path)
                 PROVE  Current # Broken /\ store'[s].clients = Current.rows
      BY <1>1 DEF Cache, Fingerprint, Current
    <3>1. store[s].fd.ino = path.ino
      BY <2>1, <2>5 DEF Fingerprint
    <3>2. store[s].fd = path
      BY <1>0, <3>1 DEF Descriptor
    <3> QED BY <2>1, <2>2, <2>5, <3>2 DEF Current
  <2>10. Reading(s)'
    BY <1>1, <2>1, <2>2, <2>5 DEF Reading, InCall, Answered, Current
  <2>11. Undisturbed(s)'
    BY <1>0, <1>1, <2>1, <2>5 DEF Undisturbed, Fingerprint, Current
  <2>12. Barred(s)'
    BY <1>0, <1>1 DEF Barred, Bars, Tombstones, Registered
  <2> QED BY <1>1, <2>1, <2>5, <2>8, <2>9, <2>10, <2>11, <2>12, OneReader
<1> QED BY <1>2, <1>3

LEMMA ReturnStep ==
  ASSUME IInv, NEW s \in Stores, Return(s)
  PROVE  IInv'
<1>0. /\ TypeOK /\ PathShape(path)
      /\ Descriptor(s) /\ Cache(s)
  BY DEF IInv, AdminInv, ReaderInv
<1> DEFINE st == [store[s] EXCEPT !.pc = "idle", !.answer = Unavailable]
<1>1. store[s] \in Readers /\ st \in Readers /\ clock \in Nat
  BY <1>0 DEF TypeOK, Readers
<1>2. /\ NewCall \in Calls /\ NewCall.seen = {} /\ NewCall.barred = {} /\ NewCall.began = 0
  BY DEF NewCall, Calls
<1>3. /\ store' = [store EXCEPT ![s] = st] /\ call' = [call EXCEPT ![s] = NewCall]
      /\ UNCHANGED <<fileVars, adminVars, faults, outages>>
      /\ UNCHANGED <<path, clock, revoked>>
  BY DEF Return, fileVars, adminVars
<1>4. /\ store'[s].pc = "idle" /\ store'[s].fd = store[s].fd
      /\ store'[s].before = store[s].before /\ store'[s].stamp = store[s].stamp
      /\ store'[s].clients = store[s].clients /\ call'[s] = NewCall
  BY <1>0, <1>1, <1>3 DEF TypeOK, Readers
<1> HIDE DEF st
<1>5. Descriptor(s)' /\ Cache(s)'
  BY <1>0, <1>1, <1>2, <1>3, <1>4 DEF Descriptor, Cache, Fingerprint, Current
<1>6. Reading(s)' /\ Undisturbed(s)' /\ Barred(s)'
  BY <1>2, <1>3, <1>4 DEF Reading, Undisturbed, Barred, InCall, Answered
<1> QED BY <1>1, <1>2, <1>3, <1>5, <1>6, OneReader

LEMMA AuthenticationStep ==
  ASSUME IInv, Authentication
  PROVE  IInv'
<1> PICK s \in Stores : Call(s) \/ Refresh(s) \/ Return(s)
  BY DEF Authentication
<1>1. CASE IOError(s)
  <2>0. TypeOK
    BY DEF IInv, AdminInv
  <2> DEFINE c == [call[s] EXCEPT !.error = TRUE]
  <2>1. call[s] \in Calls
    BY <2>0 DEF TypeOK
  <2>2. /\ c \in Calls /\ c.seen = call[s].seen /\ c.began = call[s].began
        /\ c.barred = call[s].barred /\ c.error
    BY <2>1 DEF Calls
  <2>3. /\ store' = [store EXCEPT ![s] = Raise(store[s])] /\ call' = [call EXCEPT ![s] = c]
        /\ UNCHANGED <<fileVars, adminVars, faults, outages>> /\ InCall(s)
    BY <1>1 DEF IOError, InCall
  <2> HIDE DEF c
  <2> QED BY <2>2, <2>3, RaiseStep
<1> QED
  BY <1>1, CallStep, LstatStep, OpenStep, ReadStep, FstatStep, ReturnStep DEF Refresh

-----------------------------------------------------------------------------
(* Theorems.                                                               *)

LEMMA StepInvariant == IInv /\ [Next]_vars => IInv'
<1> SUFFICES ASSUME IInv, [Next]_vars PROVE IInv'
  OBVIOUS
<1>1. CASE UNCHANGED vars
  <2>1. /\ UNCHANGED <<fileVars, adminVars, faults>>
        /\ UNCHANGED <<path, clock, store, call, revoked, faults>>
    BY <1>1 DEF vars, fileVars, adminVars
  <2>2. TypeOK'
    BY <1>1 DEF IInv, AdminInv, TypeOK, vars, fileVars, adminVars, keyVars
  <2> QED BY <2>1, <2>2, SameAdmins, SameReaders DEF IInv
<1> QED
  BY <1>1, AdministrationStep, AuthenticationStep, OutsideStep, WritebackStep, OutageStep
  DEF Next

\* The inductive invariant holds in every reachable state.
THEOREM Invariance == Spec => []IInv
<1> QED BY InitInvariant, StepInvariant, PTL DEF Spec

\* Every variable keeps its type.
THEOREM TypeCorrect == Spec => []TypeOK
<1>1. IInv => TypeOK
  BY DEF IInv, AdminInv
<1> QED BY <1>1, Invariance, PTL

\* A revocation that was reported as done stays, whatever later commands do
\* and wherever they die, and after any number of power losses, as long as
\* only commands change the registry.
THEOREM RevocationIsForever == Spec => []RevocationHolds
<1>1. IInv => RevocationHolds
  BY DEF IInv, AdminInv, Reported, Bars, RevocationHolds, Current
<1> QED BY <1>1, Invariance, PTL

\* No key is in force that has not been handed to its client, wherever the
\* command died that generated it.
THEOREM KeysAreHandedOver == Spec => []KeyHandedOver
<1>1. IInv => KeyHandedOver
  BY DEF IInv, AdminInv, Handed, KeysIn, KeyHandedOver, Current
<1> QED BY <1>1, Invariance, PTL

\* A call returns the registry of some moment during the call.
THEOREM AnswersAreFresh == Spec => []NoStaleAnswer
<1>1. IInv => NoStaleAnswer
  BY DEF IInv, ReaderInv, Reading, NoStaleAnswer
<1> QED BY <1>1, Invariance, PTL

\* A call that nothing disturbs returns the registry.
THEOREM QuietCallsSucceed == Spec => []QuietCallSucceeds
<1>1. IInv => QuietCallSucceeds
  BY DEF IInv, ReaderInv, Undisturbed, QuietCallSucceeds
<1> QED BY <1>1, Invariance, PTL

\* Who was revoked before a call began is not let in by it.
THEOREM RevokedStayOut == Spec => []RevokedIsRefused
<1>1. IInv => RevokedIsRefused
  <2> SUFFICES ASSUME IInv, faults = 0, NEW s \in Stores, Answered(s),
                      NEW c \in call[s].barred
               PROVE  c \in Tombstones(store[s].answer)
    BY DEF RevokedIsRefused
  <2>1. PICK r \in call[s].seen \ {Broken} : store[s].answer = r.rows
    BY DEF IInv, ReaderInv, Reading
  <2>2. Bars(r, call[s].barred)
    BY <2>1 DEF IInv, ReaderInv, Barred
  <2> QED BY <2>1, <2>2 DEF Bars
<1> QED BY <1>1, Invariance, PTL

\* No command undoes another: what is written follows what it replaces.
THEOREM ChangesAreNotLost == Spec => NoLostChange
<1>1. IInv /\ [Next]_vars =>
        [\A a \in Admins :
           admin[a].pc = "write" /\ admin'[a].pc = "sync" /\ faults = 0 /\ Current # Broken =>
             /\ path'.content.revision = Current.revision + 1
             /\ \E c \in Clients : \A d \in Clients \ {c} :
                  path'.content.rows[d] = Current.rows[d]]_vars
  <2> SUFFICES ASSUME IInv, [Next]_vars, NEW a \in Admins,
                      admin[a].pc = "write", admin'[a].pc = "sync",
                      faults = 0, Current # Broken
               PROVE  /\ path'.content.revision = Current.revision + 1
                      /\ \E c \in Clients : \A d \in Clients \ {c} :
                           path'.content.rows[d] = Current.rows[d]
    OBVIOUS
  <2>0. TypeOK /\ AdminInv
    BY DEF IInv, AdminInv
  <2>1. Replace(a)
    <3>1. ASSUME NEW b \in Admins, Start(b) \/ Acquire(b) \/ Proceed(b) \/ Crash(b)
          PROVE  Replace(a)
      <4>1. CASE Command(b) /\ ~Refused(b)
        <5>1. Prepares(b)
          BY <2>0, <4>1, CommandPrepares
        <5> QED BY <2>0, <5>1 DEF Prepares, TypeOK, Commands
      <4>2. CASE Start(b) \/ Acquire(b) \/ WriteToken(b)
        BY <2>0, <4>2 DEF Start, Acquire, WriteToken, TypeOK, Commands
      <4>3. CASE Leave(b)
        BY <2>0, <4>3 DEF Leave, Idle, TypeOK
      <4>4. CASE Replace(b)
        BY <2>0, <4>4 DEF Replace, TypeOK
      <4> QED
        BY <3>1, <4>1, <4>2, <4>3, <4>4
        DEF Proceed, Refused, DeliveryFails, WriteFails, SyncFails, Report, Crash
    <3>2. CASE Outage
      BY <3>2 DEF Outage, Idle
    <3>3. CASE Authentication \/ Outside \/ Writeback \/ UNCHANGED vars
      BY <3>3 DEF Authentication, Call, Refresh, Lstat, Open, Read, Fstat, IOError, Return,
                  Outside, Writeback, vars, adminVars
    <3> QED BY <3>1, <3>2, <3>3 DEF Next, Administration
  <2>2. path'.content = admin[a].next
    BY <2>1 DEF Replace, Renamed, File
  <2>3. Follows(Current, admin[a].next)
    BY <2>0 DEF AdminInv, Pending
  <2> QED BY <2>2, <2>3 DEF Follows
<1> QED BY <1>1, Invariance, PTL DEF Spec, NoLostChange

=============================================================================
