--------------------------- MODULE ClientRegistry ---------------------------
(***************************************************************************)
(* The client registry: one file, changed by the administrator's command   *)
(* (client_access/admin.py) and read by the TokenStore of the Gateway and  *)
(* of the MCP server (client_access/registry.py) on every authentication.  *)
(*                                                                         *)
(* A command holds an flock from before it reads the registry until after  *)
(* it has replaced it.  Readers take no lock: they compare the fingerprint *)
(* of the path with the one of the file they last loaded, and load again   *)
(* when it differs.  Everything may happen between two of their system     *)
(* calls.  Commands may fail or die at any step, the machine may lose      *)
(* power, and operators may touch the file with other tools.               *)
(*                                                                         *)
(* A file is an inode number, the time of its last change (mtime and ctime *)
(* in one) and its content.  Inode numbers are used again when nobody has  *)
(* the file any more.  Two changes never have the same time.               *)
(***************************************************************************)
EXTENDS Naturals, FiniteSets

CONSTANTS
  Clients, Keys,
  Minted,        \* keys clients make themselves, enrolled by their digest
  Capabilities,  \* CAPABILITIES
  MaxClients,    \* MAX_CLIENTS, or what fits in MAX_REGISTRY_BYTES
  Legacy,        \* the rows of a version 1 registry
  Admins,        \* processes that run the administrator's command
  Stores,        \* processes with a TokenStore
  Inodes,
  MaxClock,      \* bound on the changes of the file
  MaxFaults,     \* bound on changes made with other tools
  MaxOutages,    \* bound on power losses
  IOErrors,      \* whether a reader's system calls may fail for other reasons
  NoRow, NoKey, Broken, Unavailable, Absent, Special, Closed

Transports == {"gateway", "mcp"}

\* What validate_scopes accepts.
ScopeSets ==
  {sc \in SUBSET (Capabilities \cup Transports) :
     sc \cap Transports # {} /\ ("mcp" \in sc => "gateway" \in sc)}

Row == [key : Keys, scopes : ScopeSets, enabled : BOOLEAN, revoked : BOOLEAN]

Rows == [Clients -> Row \cup {NoRow}]

Registered(rows) == {c \in Clients : rows[c] # NoRow}

\* What validate_registry accepts.  Anything else is Broken.
Valid(rows) ==
  /\ Cardinality(Registered(rows)) <= MaxClients
  /\ \A c \in Registered(rows) : rows[c].revoked => ~rows[c].enabled
  /\ \A c, d \in Registered(rows) : rows[c].key = rows[d].key => c = d

Content == [version : {1, 2}, revision : Nat, rows : Rows]

Registry(version, revision, rows) ==
  [version |-> version, revision |-> revision, rows |-> rows]

Empty == [c \in Clients |-> NoRow]

\* The clients of a version 1 registry have their keys already, like those
\* that make them themselves.
ASSUME RegistryAssumption ==
  /\ IsFiniteSet(Clients) /\ IsFiniteSet(Stores)
  /\ Minted \subseteq Keys
  /\ Capabilities \cap Transports = {}
  /\ MaxClients \in Nat /\ MaxClock \in Nat
  /\ MaxFaults \in Nat /\ MaxOutages \in Nat
  /\ IOErrors \in BOOLEAN
  /\ NoRow \notin Row /\ Broken \notin Content
  /\ Legacy \in Rows /\ Valid(Legacy)
  /\ \A c \in Registered(Legacy) : Legacy[c].key \in Minted
  /\ NoKey \notin Keys
  /\ Absent # Special /\ Absent # Closed /\ Special # Closed
  /\ {Absent, Special, Closed} \cap Inodes = {}

VARIABLES
  path,       \* the file the registry's path names
  durable,    \* the file it would name after a power loss
  clock,      \* time of the last change
  lock,       \* the administrators that hold .ai-client.lock
  admin,      \* the command each administrator runs
  issued,     \* keys generated so far
  delivered,  \* keys that were written completely to a delivery file
  store,      \* the TokenStores
  faults, outages,
  revoked,    \* history: clients whose revocation was reported as done
  call        \* history: of each store's call, what has happened since it began

fileVars == <<path, durable, clock>>
keyVars == <<issued, delivered>>
adminVars == <<lock, admin, keyVars, revoked>>
vars == <<fileVars, adminVars, store, faults, outages, call>>

-----------------------------------------------------------------------------
(* Files.                                                                  *)

File(ino, time, content) == [ino |-> ino, time |-> time, content |-> content]

NoFile(why) == File(why, 0, Broken)

\* What somebody who could look at the path in one step would find.
Current == path.content

\* Mutant of Fingerprint: the times are not compared.
FingerprintInodeOnly(f) == <<f.ino, 0>>

Fingerprint(f) == <<f.ino, f.time>>

InUse == {path.ino, durable.ino} \cup {store[s].fd.ino : s \in Stores}

InCall(s) == store[s].pc # "idle"

\* The path changes hands; a reader may have the old file open.
Watch ==
  call' = [s \in Stores |->
             IF InCall(s) THEN [call[s] EXCEPT !.seen = @ \cup {path'.content}] ELSE call[s]]

\* os.replace: another file gets the name.  The file that loses it changes
\* too, in its link count, and so in its ctime.
Renamed(content) ==
  /\ clock < MaxClock
  /\ clock' = clock + 1
  /\ \E i \in Inodes \ InUse : path' = File(i, clock + 1, content)
  /\ store' = [s \in Stores |->
                 IF store[s].fd.ino = path.ino
                 THEN [store[s] EXCEPT !.fd.time = clock + 1] ELSE store[s]]
  /\ Watch

\* The file is written in place.
Rewritten(content) ==
  /\ path.ino \in Inodes
  /\ clock < MaxClock
  /\ clock' = clock + 1
  /\ path' = File(path.ino, clock + 1, content)
  /\ store' = [s \in Stores |->
                 IF store[s].fd.ino = path.ino
                 THEN [store[s] EXCEPT !.fd = path'] ELSE store[s]]
  /\ Watch

\* The path comes to name nothing, or something that is not a regular file.
Unlinked(why) ==
  /\ path.ino # why
  /\ clock < MaxClock
  /\ clock' = clock + 1
  /\ path' = NoFile(why)
  /\ store' = [s \in Stores |->
                 IF store[s].fd.ino = path.ino
                 THEN [store[s] EXCEPT !.fd.time = clock + 1] ELSE store[s]]
  /\ Watch

-----------------------------------------------------------------------------
(* The administrator's command.                                            *)

Idle == [pc |-> "idle", next |-> Broken, key |-> NoKey]

Start(a) ==
  /\ admin[a].pc = "idle"
  /\ admin' = [admin EXCEPT ![a].pc = "wait"]
  /\ UNCHANGED <<fileVars, lock, keyVars, revoked, store, faults, outages, call>>

\* Mutant of Acquire: two commands can hold the lock.
AcquireShared(a) ==
  /\ admin[a].pc = "wait"
  /\ lock' = {a}
  /\ admin' = [admin EXCEPT ![a].pc = "locked"]
  /\ UNCHANGED <<fileVars, keyVars, revoked, store, faults, outages, call>>

\* flock(LOCK_EX) returns.
Acquire(a) ==
  /\ admin[a].pc = "wait"
  /\ lock = {}
  /\ lock' = {a}
  /\ admin' = [admin EXCEPT ![a].pc = "locked"]
  /\ UNCHANGED <<fileVars, keyVars, revoked, store, faults, outages, call>>

\* Mutant of Leave: the lock outlives the process.
LeaveLocked(a) ==
  /\ admin' = [admin EXCEPT ![a] = Idle]
  /\ UNCHANGED lock

\* The command ends, in whatever way: closing the descriptor frees the lock.
Leave(a) ==
  /\ admin' = [admin EXCEPT ![a] = Idle]
  /\ lock' = lock \ {a}

\* A command that is refused, or only lists: the arguments may always be such
\* (no such client, a digest already there, a path that exists).
Refused(a) ==
  /\ admin[a].pc = "locked"
  /\ Leave(a)
  /\ UNCHANGED <<fileVars, keyVars, revoked, store, faults, outages, call>>

\* The changed registry is encoded, and so validated, before a key is
\* delivered.  key is the one to deliver, if the command has generated one.
Prepared(a, revision, rows, key) ==
  /\ Valid(rows)
  /\ admin' = [admin EXCEPT ![a] =
                 [pc   |-> IF key = NoKey THEN "write" ELSE "deliver",
                  next |-> Registry(2, revision + 1, rows),
                  key  |-> key]]
  /\ issued' = issued \cup ({key} \ {NoKey})
  /\ UNCHANGED <<fileVars, lock, delivered, revoked, store, faults, outages, call>>

\* init and migrate refuse a path that exists.
InitRegistry(a) ==
  /\ admin[a].pc = "locked"
  /\ path.ino = Absent
  /\ Prepared(a, 0, Empty, NoKey)

\* Mutant of Expanded: the transports are lost.
ExpandedWithoutTransports(rows) ==
  [c \in Clients |->
     IF rows[c] # NoRow /\ rows[c].scopes \cap Capabilities = {}
     THEN [rows[c] EXCEPT !.scopes = Capabilities] ELSE rows[c]]

\* Rows that name only transports get all capabilities, as they had before.
Expanded(rows) ==
  [c \in Clients |->
     IF rows[c] # NoRow /\ rows[c].scopes \cap Capabilities = {}
     THEN [rows[c] EXCEPT !.scopes = @ \cup Capabilities] ELSE rows[c]]

Migrate(a) ==
  /\ admin[a].pc = "locked"
  /\ path.ino = Absent
  /\ Prepared(a, 0, Expanded(Legacy), NoKey)

\* Every other command reads the registry, which must be of version 2.
Administrable(a) ==
  /\ admin[a].pc = "locked"
  /\ Current # Broken
  /\ Current.version = 2

\* new_digest: a digest the client sent, or a key that is generated here.
NewDigest(k) ==
  /\ \A c \in Registered(Current.rows) : Current.rows[c].key # k
  /\ k \notin issued

ToDeliver(k) == IF k \in Minted THEN NoKey ELSE k

Create(a, c, k, sc) ==
  /\ Administrable(a)
  /\ NewDigest(k)
  /\ Current.rows[c] = NoRow
  /\ Prepared(a, Current.revision,
       [Current.rows EXCEPT ![c] =
          [key |-> k, scopes |-> sc, enabled |-> TRUE, revoked |-> FALSE]],
       ToDeliver(k))

\* The client exists, and a revoked one is not changed any more.
Amendable(a, c) ==
  /\ Administrable(a)
  /\ Current.rows[c] # NoRow
  /\ ~Current.rows[c].revoked

Rotate(a, c, k) ==
  /\ Amendable(a, c)
  /\ NewDigest(k)
  /\ Prepared(a, Current.revision, [Current.rows EXCEPT ![c].key = k], ToDeliver(k))

\* disable and enable.
SetEnabled(a, c, enabled) ==
  /\ Amendable(a, c)
  /\ Prepared(a, Current.revision,
       [Current.rows EXCEPT ![c].enabled = enabled], NoKey)

SetScopes(a, c, sc) ==
  /\ Amendable(a, c)
  /\ Prepared(a, Current.revision, [Current.rows EXCEPT ![c].scopes = sc], NoKey)

Revoke(a, c) ==
  /\ Administrable(a)
  /\ Current.rows[c] # NoRow
  /\ Prepared(a, Current.revision,
       [Current.rows EXCEPT ![c].enabled = FALSE, ![c].revoked = TRUE], NoKey)
-----------------------------------------------------------------------------
(* Delivering the key and replacing the registry.                          *)

\* write_token: a new file for the key, written and synced.  The directory it
\* is in is not.
WriteToken(a) ==
  /\ admin[a].pc = "deliver"
  /\ delivered' = delivered \cup {admin[a].key}
  /\ admin' = [admin EXCEPT ![a].pc = "write"]
  /\ UNCHANGED <<fileVars, lock, issued, revoked, store, faults, outages, call>>

\* Mutant of DeliveryFails: the error is ignored.
DeliveryFailsSilently(a) ==
  /\ admin[a].pc = "deliver"
  /\ admin' = [admin EXCEPT ![a].pc = "write"]
  /\ UNCHANGED <<fileVars, lock, keyVars, revoked, store, faults, outages, call>>

\* The delivery file exists, is in the wrong place or cannot be written.
DeliveryFails(a) ==
  /\ admin[a].pc = "deliver"
  /\ Leave(a)
  /\ UNCHANGED <<fileVars, keyVars, revoked, store, faults, outages, call>>

\* atomic_write, up to os.replace: until then the new file has no name.
Replace(a) ==
  /\ admin[a].pc = "write"
  /\ Renamed(admin[a].next)
  /\ admin' = [admin EXCEPT ![a].pc = "sync"]
  /\ UNCHANGED <<durable, lock, keyVars, revoked, faults, outages>>

WriteFails(a) ==
  /\ admin[a].pc = "write"
  /\ Leave(a)
  /\ UNCHANGED <<fileVars, keyVars, revoked, store, faults, outages, call>>

Tombstones(rows) == {c \in Registered(rows) : rows[c].revoked}

\* Mutant of Report: the directory is not synced.
ReportUnsynced(a) ==
  /\ admin[a].pc = "sync"
  /\ Leave(a)
  /\ revoked' = revoked \cup Tombstones(admin[a].next.rows)
  /\ UNCHANGED <<path, durable, clock, keyVars, store, faults, outages, call>>

\* The directory is synced and the command reports what it did.
Report(a) ==
  /\ admin[a].pc = "sync"
  /\ durable' = path
  /\ Leave(a)
  /\ revoked' = revoked \cup Tombstones(admin[a].next.rows)
  /\ UNCHANGED <<path, clock, keyVars, store, faults, outages, call>>

\* The sync fails: the command reports an error although the registry has
\* been replaced.
SyncFails(a) ==
  /\ admin[a].pc = "sync"
  /\ Leave(a)
  /\ UNCHANGED <<fileVars, keyVars, revoked, store, faults, outages, call>>

\* The process dies.
Crash(a) ==
  /\ admin[a].pc # "idle"
  /\ Leave(a)
  /\ UNCHANGED <<fileVars, keyVars, revoked, store, faults, outages, call>>

Command(a) ==
  \/ Refused(a) \/ InitRegistry(a) \/ Migrate(a)
  \/ \E c \in Clients :
       \/ \E k \in Keys : Rotate(a, c, k) \/ \E sc \in ScopeSets : Create(a, c, k, sc)
       \/ \E sc \in ScopeSets : SetScopes(a, c, sc)
       \/ \E enabled \in BOOLEAN : SetEnabled(a, c, enabled)
       \/ Revoke(a, c)

\* What a command that has the lock does next.
Proceed(a) ==
  \/ Command(a)
  \/ WriteToken(a) \/ DeliveryFails(a)
  \/ Replace(a) \/ WriteFails(a)
  \/ Report(a) \/ SyncFails(a)

-----------------------------------------------------------------------------
(* TokenStore._refresh, one system call at a time.  Its lock lets one call  *)
(* of a process in at a time.                                              *)

NewStore ==
  [pc |-> "idle", fd |-> NoFile(Closed), before |-> <<Closed, 0>>, raw |-> Broken,
   stamp |-> <<Closed, 0>>, clients |-> Empty, answer |-> Unavailable]

NewCall == [seen |-> {}, began |-> 0, barred |-> {}, error |-> FALSE]

Call(s) ==
  /\ store[s].pc = "idle"
  /\ store' = [store EXCEPT ![s].pc = "lstat"]
  /\ call' = [call EXCEPT ![s] =
                [seen |-> {Current}, began |-> clock, barred |-> revoked, error |-> FALSE]]
  /\ UNCHANGED <<fileVars, adminVars, faults, outages>>

Answer(st, clients) ==
  [st EXCEPT !.pc = "done", !.answer = clients,
             !.fd = NoFile(Closed), !.before = <<Closed, 0>>, !.raw = Broken]

\* Mutant of Raise: the stamp is kept.
RaiseKeepingStamp(st) == [Answer(st, Unavailable) EXCEPT !.clients = Empty]

\* RegistryUnavailable; nothing of the cache is kept.
Raise(st) ==
  [Answer(st, Unavailable) EXCEPT !.clients = Empty, !.stamp = <<Closed, 0>>]

\* The path is not a regular file, is the one that was loaded, or is loaded.
Lstat(s) ==
  /\ store[s].pc = "lstat"
  /\ store' = [store EXCEPT ![s] =
       IF path.ino \notin Inodes THEN Raise(@)
       ELSE IF Fingerprint(path) = @.stamp THEN Answer(@, @.clients)
       ELSE [@ EXCEPT !.pc = "open"]]
  /\ UNCHANGED <<fileVars, adminVars, faults, outages, call>>

\* open and the first fstat.
Open(s) ==
  /\ store[s].pc = "open"
  /\ store' = [store EXCEPT ![s] =
       IF path.ino \notin Inodes THEN Raise(@)
       ELSE [@ EXCEPT !.pc = "read", !.fd = path, !.before = Fingerprint(path)]]
  /\ UNCHANGED <<fileVars, adminVars, faults, outages, call>>

Read(s) ==
  /\ store[s].pc = "read"
  /\ store' = [store EXCEPT ![s].pc = "fstat", ![s].raw = store[s].fd.content]
  /\ UNCHANGED <<fileVars, adminVars, faults, outages, call>>

\* Mutant of Loads: a change during the read goes unnoticed.
LoadsUnchecked(st) == st.raw # Broken

\* The second fstat agrees with the first, and the content is valid.
Loads(st) == Fingerprint(st.fd) = st.before /\ st.raw # Broken

Fstat(s) ==
  /\ store[s].pc = "fstat"
  /\ store' = [store EXCEPT ![s] =
       IF ~Loads(@) THEN Raise(@)
       ELSE [Answer(@, @.raw.rows) EXCEPT !.clients = store[s].raw.rows,
                                          !.stamp = Fingerprint(store[s].fd)]]
  /\ UNCHANGED <<fileVars, adminVars, faults, outages, call>>

\* A system call fails for a reason that is not in the file.
IOError(s) ==
  /\ IOErrors
  /\ store[s].pc \in {"lstat", "open", "read", "fstat"}
  /\ store' = [store EXCEPT ![s] = Raise(@)]
  /\ call' = [call EXCEPT ![s].error = TRUE]
  /\ UNCHANGED <<fileVars, adminVars, faults, outages>>

Return(s) ==
  /\ store[s].pc = "done"
  /\ store' = [store EXCEPT ![s].pc = "idle", ![s].answer = Unavailable]
  /\ call' = [call EXCEPT ![s] = NewCall]
  /\ UNCHANGED <<fileVars, adminVars, faults, outages>>

Refresh(s) == Lstat(s) \/ Open(s) \/ Read(s) \/ Fstat(s) \/ IOError(s)

-----------------------------------------------------------------------------
(* The world around.                                                       *)

\* An operator's editor, backup or accident: the file is damaged or edited in
\* place, replaced by an old one, removed, or turned into a link.
Outside ==
  /\ faults < MaxFaults
  /\ faults' = faults + 1
  /\ \/ Rewritten(Broken)
     \/ /\ Current # Broken
        /\ \E c \in Registered(Current.rows) :
             /\ ~Current.rows[c].revoked
             /\ Rewritten([Current EXCEPT !.rows[c].enabled = ~@])
     \/ Renamed(Registry(1, 0, Legacy))
     \/ Unlinked(Absent)
     \/ Unlinked(Special)
  /\ UNCHANGED <<durable, adminVars, outages>>

\* The kernel writes directories back when it likes.
Writeback ==
  /\ durable # path
  /\ durable' = path
  /\ UNCHANGED <<path, clock, adminVars, store, faults, outages, call>>

\* All processes die.  What was not written back may or may not be there.
Outage ==
  /\ outages < MaxOutages
  /\ outages' = outages + 1
  /\ path' \in {path, durable}
  /\ durable' = path'
  /\ lock' = {}
  /\ admin' = [a \in Admins |-> Idle]
  /\ store' = [s \in Stores |-> NewStore]
  /\ call' = [s \in Stores |-> NewCall]
  /\ UNCHANGED <<clock, keyVars, revoked, faults>>

-----------------------------------------------------------------------------

\* No registry yet, or one that was migrated.
Init ==
  /\ \/ path = NoFile(Absent)
     \/ \E i \in Inodes : path = File(i, 0, Registry(2, 1, Expanded(Legacy)))
  /\ durable = path
  /\ clock = 0
  /\ lock = {}
  /\ admin = [a \in Admins |-> Idle]
  /\ issued = {} /\ delivered = {}
  /\ store = [s \in Stores |-> NewStore]
  /\ faults = 0 /\ outages = 0
  /\ revoked = {}
  /\ call = [s \in Stores |-> NewCall]

Administration ==
  \E a \in Admins : Start(a) \/ Acquire(a) \/ Proceed(a) \/ Crash(a)

Authentication == \E s \in Stores : Call(s) \/ Refresh(s) \/ Return(s)

Next == Administration \/ Authentication \/ Outside \/ Writeback \/ Outage

Spec == Init /\ [][Next]_vars

\* Commands run, and flock serves those who wait for it in turn.
FairSpec ==
  /\ Spec
  /\ \A a \in Admins : SF_vars(Acquire(a)) /\ WF_vars(Proceed(a))

-----------------------------------------------------------------------------
(* Properties.                                                             *)

Files == [ino : Inodes \cup {Absent, Special, Closed}, time : Nat, content : Content \cup {Broken}]

Stamps == (Inodes \cup {Closed}) \X Nat

Commands ==
  [pc   : {"idle", "wait", "locked", "deliver", "write", "sync"},
   next : Content \cup {Broken},
   key  : Keys \cup {NoKey}]

Readers ==
  [pc : {"idle", "lstat", "open", "read", "fstat", "done"},
   fd : Files, before : Stamps, raw : Content \cup {Broken},
   stamp : Stamps, clients : Rows, answer : Rows \cup {Unavailable}]

Calls ==
  [seen : SUBSET (Content \cup {Broken}), began : Nat,
   barred : SUBSET Clients, error : BOOLEAN]

TypeOK ==
  /\ path \in Files /\ durable \in Files
  /\ clock \in Nat
  /\ lock \subseteq Admins
  /\ admin \in [Admins -> Commands]
  /\ delivered \subseteq issued /\ issued \subseteq Keys
  /\ store \in [Stores -> Readers]
  /\ faults \in Nat /\ outages \in Nat
  /\ revoked \subseteq Clients
  /\ call \in [Stores -> Calls]

\* No command undoes another: as long as only commands touch the registry,
\* each one is the next revision of what it replaces, in the row of one client.
NoLostChange ==
  [][\A a \in Admins :
       admin[a].pc = "write" /\ admin'[a].pc = "sync" /\ faults = 0 /\ Current # Broken =>
         /\ path'.content.revision = Current.revision + 1
         /\ \E c \in Clients : \A d \in Clients \ {c} :
              path'.content.rows[d] = Current.rows[d]]_vars

\* A revocation that was reported as done stays, whatever later commands do,
\* wherever they die, and after a power loss.
RevocationHolds ==
  faults = 0 => \A c \in revoked : Current # Broken /\ c \in Tombstones(Current.rows)

\* "a delivery failure cannot lock a user out": a generated key comes into
\* force only after it was written to be handed to the client, also when
\* commands die between the two and after a power loss.
KeyHandedOver ==
  Current # Broken =>
    \A c \in Registered(Current.rows) :
      Current.rows[c].key \in delivered \cup Minted

\* Every command gets the lock and ends, also when others die holding it.
CommandsEnd == \A a \in Admins : admin[a].pc = "wait" ~> admin[a].pc = "idle"

Answered(s) == store[s].pc = "done" /\ store[s].answer # Unavailable

\* No stale grants: what a call returns was the registry at some moment of the
\* call, whatever was cached and whatever happened between its steps.
NoStaleAnswer ==
  \A s \in Stores : Answered(s) =>
    \E r \in call[s].seen \ {Broken} : store[s].answer = r.rows

\* A call during which the registry was valid and did not change, and no
\* system call failed, returns it: damage repaired is forgotten.
QuietCallSucceeds ==
  \A s \in Stores :
    store[s].pc = "done" /\ call[s].began = clock /\ ~call[s].error /\ Current # Broken =>
      store[s].answer = Current.rows

\* A client whose revocation was reported before the call is not in force in
\* what the call returns.
RevokedIsRefused ==
  faults = 0 => \A s \in Stores : Answered(s) =>
    \A c \in call[s].barred : c \in Tombstones(store[s].answer)

\* A reader finds the registry unavailable only if it was, at some moment.
UnavailableMeansBroken ==
  \A s \in Stores :
    store[s].pc = "done" /\ store[s].answer = Unavailable => Broken \in call[s].seen

=============================================================================
