----------------------------- MODULE StorageWiring -----------------------------
(***************************************************************************)
(* Archiving of sensor data to S3: which bucket and key prefix a sensor    *)
(* archives under (rows of `sensors` and `storages`), and the notification *)
(* rules on each bucket that announce its uploads, one rule per prefix,    *)
(* which reconcileNotifications derives from the rows.                     *)
(*                                                                         *)
(* One action is one SQL statement or one S3 call.  S3 has no call that    *)
(* changes one rule: every writer gets the whole configuration of a bucket *)
(* and puts it back changed.                                               *)
(***************************************************************************)
EXTENDS Integers

CONSTANTS
  Archivers,       \* sensors
  Buckets, NoBucket,
  Prefixes,        \* normalized prefixes in use
  Nested,          \* pairs of different prefixes, one inside the other
  IngestRequests,  \* concurrent requests of the console
  Notifiers,       \* concurrent invocations of reconcileNotifications
  StorageOps,      \* bound: requests in a behaviour
  StorageFaults    \* bound: failures in a behaviour

ASSUME StorageConstants ==
  /\ NoBucket \notin Buckets /\ Nested \subseteq Prefixes \X Prefixes
  /\ \A p, q \in Prefixes : <<p, q>> \in Nested => p # q /\ <<q, p>> \in Nested
  /\ StorageOps \in Nat /\ StorageFaults \in Nat

VARIABLES
  ingest,          \* rows of `sensors`: the ingest columns
  registered,      \* rows of `storages`
  notify,          \* their column notify
  rules,           \* prefixes our notification rules on a bucket filter on
  foreignRule,     \* buckets with a rule of somebody else
  request, notifier,
  storageOps, storageFaults,
  crossed          \* history: rows last written by a request that was stale

ingestRows == <<ingest, registered, notify>>
s3         == <<rules, foreignRule>>
storageVars == <<ingestRows, s3, request, notifier, storageOps, storageFaults, crossed>>

Path == [bucket : Buckets, prefix : Prefixes] \cup {[bucket |-> NoBucket, prefix |-> ""]}
Detached == [bucket |-> NoBucket, prefix |-> ""]

IngestRow == [present : BOOLEAN, stream : BOOLEAN, archive : BOOLEAN, path : Path]
NoRow == [present |-> FALSE, stream |-> FALSE, archive |-> FALSE, path |-> Detached]

IdleRequest  == [pc |-> "idle", op |-> "", sensor |-> "", given |-> {},
                 next |-> NoRow, bucket |-> NoBucket, other |-> FALSE,
                 stale |-> FALSE]
IdleNotifier == [pc |-> "idle", todo |-> {}, rows |-> {}, want |-> [b \in Buckets |-> {}],
                 cur |-> NoBucket, other |-> FALSE]

StorageTypeOK ==
  /\ ingest \in [Archivers -> IngestRow]
  /\ \A s \in Archivers : ingest[s].archive => ingest[s].path.bucket \in registered
  /\ registered \subseteq Buckets /\ notify \subseteq registered
  /\ rules \in [Buckets -> SUBSET Prefixes] /\ foreignRule \subseteq Buckets
  /\ \A r \in IngestRequests :
       request[r].pc \in {"idle", "exists", "valid", "prefix", "write", "detach",
                          "getRules", "putRules", "delete", "insert"}
  /\ \A n \in Notifiers :
       notifier[n].pc \in {"idle", "archiving", "bucket", "get", "put", "column"}
  /\ storageOps \in 0..StorageOps /\ storageFaults \in 0..StorageFaults
  /\ crossed \subseteq Archivers

StorageFault == storageFaults < StorageFaults /\ storageFaults' = storageFaults + 1

-----------------------------------------------------------------------------
(* Helpers                                                                 *)

(* The sensors that archive to a bucket, by the rows.                      *)
ArchivingTo(b) == {s \in Archivers : ingest[s].archive /\ ingest[s].path.bucket = b}

DesiredPrefixes(b) == {ingest[s].path.prefix : s \in ArchivingTo(b)}

(* findPrefixConflict: equal prefixes share a rule, only nesting conflicts. *)
PrefixesConflict(p, q) == <<p, q>> \in Nested

PrefixConflict(ps) == \E p, q \in ps : PrefixesConflict(p, q)

(* The requests after a write by r to the rows of the sensors in hit: what *)
(* another request has read of these rows, or of their buckets, is stale.  *)
Overtake(r, hit, req) ==
  [q \in IngestRequests |->
     IF q # r /\ req[q].pc \in {"valid", "prefix", "write"}
        /\ \E s \in hit : \/ s = req[q].sensor
                          \/ req[q].next.path.bucket \in
                               {ingest[s].path.bucket, ingest'[s].path.bucket}
     THEN [req[q] EXCEPT !.stale = TRUE] ELSE req[q]]

Answered(r) == [request EXCEPT ![r] = IdleRequest]
Answer(r)   == request' = Answered(r)

StartRequest(r) ==
  /\ request[r].pc = "idle" /\ storageOps < StorageOps
  /\ storageOps' = storageOps + 1

-----------------------------------------------------------------------------
(* Sensors and buckets in place, and wired.                                *)
StorageInit ==
  /\ registered \in SUBSET Buckets
  /\ ingest \in [Archivers -> {NoRow, [NoRow EXCEPT !.present = TRUE, !.stream = TRUE]}
       \cup [present : {TRUE}, stream : {FALSE}, archive : {TRUE},
             path : {p \in Path : p.bucket \in registered}]]
  /\ \A b \in Buckets : ~PrefixConflict(DesiredPrefixes(b))
  /\ rules = [b \in Buckets |-> DesiredPrefixes(b)]
  /\ notify = {b \in Buckets : rules[b] # {}}
  /\ foreignRule \in SUBSET Buckets
  /\ request = [r \in IngestRequests |-> IdleRequest]
  /\ notifier = [n \in Notifiers |-> IdleNotifier]
  /\ storageOps = 0 /\ storageFaults = 0 /\ crossed = {}

-----------------------------------------------------------------------------
(* The registry: addSensor, setSensorIngest, removeSensor                  *)

(* addSensor up to the existence check.                                    *)
BeginAddSensor(r, s) ==
  /\ StartRequest(r)
  /\ ~ingest[s].present
  /\ \E p \in Path, archive \in BOOLEAN :
       /\ archive <=> p.bucket # NoBucket
       /\ request' = [request EXCEPT ![r] =
            [IdleRequest EXCEPT !.op = "add", !.sensor = s,
               !.pc = IF archive THEN "prefix" ELSE "valid",
               !.next = [present |-> TRUE, stream |-> ~archive, archive |-> archive,
                         path |-> p]]]
  /\ UNCHANGED <<ingestRows, s3, notifier, storageFaults, crossed>>

(* The row a PATCH of the given fields leads to; without a bucket there is *)
(* no archive and no prefix.                                               *)
NextIngest(row, given, stream, archive, path) ==
  LET p == IF "path" \in given THEN path ELSE row.path IN
  [present |-> TRUE,
   stream  |-> IF "stream" \in given THEN stream ELSE row.stream,
   archive |-> (IF "archive" \in given THEN archive ELSE row.archive)
                 /\ p.bucket # NoBucket,
   path    |-> p]

(* setSensorIngest reads the row; the fields it is not given keep what was *)
(* read.                                                                   *)
BeginSetIngest(r, s) ==
  /\ StartRequest(r)
  /\ ingest[s].present
  /\ \E given \in {{"stream"}, {"archive", "path"}}, stream, archive \in BOOLEAN, p \in Path :
       /\ "stream" \notin given => stream = FALSE
       /\ "path" \notin given => p = Detached
       /\ archive => p.bucket # NoBucket
       /\ request' = [request EXCEPT ![r] =
            [IdleRequest EXCEPT !.op = "set", !.sensor = s, !.pc = "valid",
               !.given = given,
               !.next = NextIngest(ingest[s], given, stream, archive, p)]]
  /\ UNCHANGED <<ingestRows, s3, notifier, storageFaults, crossed>>

(* assertIngestValid, with its SELECT from storages.                       *)
AssertIngestValid(r) ==
  /\ request[r].pc = "valid"
  /\ LET next == request[r].next
         ok   == /\ next.archive => next.path.bucket # NoBucket
                 /\ next.path.bucket \in registered \cup {NoBucket}
                 /\ next.stream \/ next.archive
     IN IF ~ok THEN Answer(r)
        ELSE request' = [request EXCEPT ![r].pc =
               IF request[r].op = "set" /\ next.archive THEN "prefix" ELSE "write"]
  /\ UNCHANGED <<ingestRows, s3, notifier, storageOps, storageFaults, crossed>>

(* Mutant: the sensors of the bucket are compared only with each other.    *)
MutAssertPrefix(r) ==
  /\ request[r].pc = "prefix"
  /\ LET next   == request[r].next
         others == ArchivingTo(next.path.bucket) \ {request[r].sensor}
     IN IF PrefixConflict({ingest[t].path.prefix : t \in others})
        THEN Answer(r)
        ELSE request' = [request EXCEPT ![r].pc =
               IF request[r].op = "add" THEN "valid" ELSE "write"]
  /\ UNCHANGED <<ingestRows, s3, notifier, storageOps, storageFaults, crossed>>

(* assertPrefixAvailable: 409 if the prefix nests with that of another     *)
(* sensor of the bucket.                                                   *)
AssertPrefixAvailable(r) ==
  /\ request[r].pc = "prefix"
  /\ LET next   == request[r].next
         others == ArchivingTo(next.path.bucket) \ {request[r].sensor}
     IN IF PrefixConflict({ingest[t].path.prefix : t \in others} \cup {next.path.prefix})
        THEN Answer(r)
        ELSE request' = [request EXCEPT ![r].pc =
               IF request[r].op = "add" THEN "valid" ELSE "write"]
  /\ UNCHANGED <<ingestRows, s3, notifier, storageOps, storageFaults, crossed>>

(* The INSERT or UPDATE.  The primary key, the foreign key of the bucket   *)
(* and the check constraint of the table refuse what has become invalid;   *)
(* an UPDATE of a row that is gone changes nothing.                        *)
WriteIngest(r) ==
  /\ request[r].pc = "write"
  /\ LET s == request[r].sensor  next == request[r].next IN
     IF /\ next.path.bucket \in registered \cup {NoBucket}
        /\ ingest[s].present <=> (request[r].op = "set")
     THEN /\ ingest' = [ingest EXCEPT ![s] = next]
          /\ crossed' = IF request[r].stale THEN crossed \cup {s} ELSE crossed \ {s}
          /\ request' = Overtake(r, {s}, Answered(r))
     ELSE UNCHANGED <<ingest, crossed>> /\ Answer(r)
  /\ UNCHANGED <<registered, notify, s3, notifier, storageOps, storageFaults>>

RemoveSensor(r, s) ==
  /\ StartRequest(r)
  /\ ingest[s].present
  /\ ingest' = [ingest EXCEPT ![s] = NoRow]
  /\ request' = Overtake(r, {s}, request)
  /\ crossed' = crossed \ {s}
  /\ UNCHANGED <<registered, notify, s3, notifier, storageFaults>>

-----------------------------------------------------------------------------
(* The bucket registry: addStorage, removeStorage                          *)

(* Name checks, the bucket created or described, and tagged.               *)
BeginAddStorage(r, b) ==
  /\ StartRequest(r) /\ b \notin registered
  /\ request' = [request EXCEPT ![r] =
                   [IdleRequest EXCEPT !.op = "register", !.bucket = b, !.pc = "insert"]]
  /\ UNCHANGED <<ingestRows, s3, notifier, storageFaults, crossed>>

(* Registered with no listener: notify is FALSE, no rule is written.       *)
InsertStorage(r) ==
  /\ request[r].pc = "insert"
  /\ registered' = registered \cup {request[r].bucket}
  /\ Answer(r)
  /\ UNCHANGED <<ingest, notify, s3, notifier, storageOps, storageFaults, crossed>>

BeginRemoveStorage(r, b) ==
  /\ StartRequest(r) /\ b \in registered
  /\ request' = [request EXCEPT ![r] =
                   [IdleRequest EXCEPT !.op = "unregister", !.bucket = b, !.pc = "detach"]]
  /\ UNCHANGED <<ingestRows, s3, notifier, storageFaults, crossed>>

(* The UPDATE that takes every sensor off the bucket.                      *)
DetachSensors(r) ==
  /\ request[r].pc = "detach"
  /\ LET hit == {s \in Archivers : ingest[s].path.bucket = request[r].bucket} IN
     /\ ingest' = [s \in Archivers |->
          IF s \in hit THEN [ingest[s] EXCEPT !.archive = FALSE, !.path = Detached]
          ELSE ingest[s]]
     /\ request' = Overtake(r, hit, [request EXCEPT ![r].pc = "getRules"])
  /\ UNCHANGED <<registered, notify, s3, notifier, storageOps, storageFaults, crossed>>

(* disableObjectNotifications: nothing to put when no rule is ours.        *)
GetForDisable(r) ==
  /\ request[r].pc = "getRules"
  /\ LET b == request[r].bucket IN
     request' = [request EXCEPT ![r].other = b \in foreignRule,
                   ![r].pc = IF rules[b] = {} THEN "delete" ELSE "putRules"]
  /\ UNCHANGED <<ingestRows, s3, notifier, storageOps, storageFaults, crossed>>

(* Mutant: the configuration is put back empty.                            *)
MutWithoutOurRules(b, other, ps) ==
  /\ rules' = [rules EXCEPT ![b] = ps]
  /\ foreignRule' = foreignRule \ {b}

(* The configuration that was read, with our rules replaced, is put.       *)
PutRules(b, other, ps) ==
  /\ rules' = [rules EXCEPT ![b] = ps]
  /\ foreignRule' = IF other THEN foreignRule \cup {b} ELSE foreignRule \ {b}

PutDisabled(r) ==
  /\ request[r].pc = "putRules"
  /\ PutRules(request[r].bucket, request[r].other, {})
  /\ request' = [request EXCEPT ![r].pc = "delete"]
  /\ UNCHANGED <<ingestRows, notifier, storageOps, storageFaults, crossed>>

(* Best effort: the bucket is unregistered even if S3 refuses.             *)
DisableFails(r) ==
  /\ request[r].pc \in {"getRules", "putRules"} /\ StorageFault
  /\ request' = [request EXCEPT ![r].pc = "delete"]
  /\ UNCHANGED <<ingestRows, s3, notifier, storageOps, crossed>>

(* ON DELETE SET NULL meets the check constraint if a sensor has come to   *)
(* archive here again: the statement fails, and the row stays.  Otherwise  *)
(* it writes the rows of sensors that name the bucket without archiving;   *)
(* the prefix they keep counts as none, as it has no bucket.               *)
DeleteStorage(r) ==
  /\ request[r].pc = "delete"
  /\ LET b   == request[r].bucket
         hit == {s \in Archivers : ingest[s].path.bucket = b} IN
     IF ArchivingTo(b) # {} THEN UNCHANGED ingestRows /\ Answer(r)
     ELSE /\ registered' = registered \ {b} /\ notify' = notify \ {b}
          /\ ingest' = [s \in Archivers |->
               IF s \in hit THEN [ingest[s] EXCEPT !.path = Detached] ELSE ingest[s]]
          /\ request' = Overtake(r, hit, Answered(r))
  /\ UNCHANGED <<s3, notifier, storageOps, storageFaults, crossed>>

(* A statement fails, or the Lambda is killed.                             *)
RequestDies(r) ==
  /\ request[r].pc # "idle" /\ StorageFault
  /\ Answer(r)
  /\ UNCHANGED <<ingestRows, s3, notifier, storageOps, crossed>>

-----------------------------------------------------------------------------
(* reconcileNotifications                                                  *)

ReadStorageRows(n) ==
  /\ notifier[n].pc = "idle"
  /\ notifier' = [notifier EXCEPT ![n] =
       [IdleNotifier EXCEPT !.pc = "archiving", !.todo = registered, !.rows = notify]]
  /\ UNCHANGED <<ingestRows, s3, request, storageOps, storageFaults, crossed>>

ReadArchiving(n) ==
  /\ notifier[n].pc = "archiving"
  /\ notifier' = [notifier EXCEPT ![n].pc = "bucket",
       ![n].want = [b \in Buckets |-> DesiredPrefixes(b)]]
  /\ UNCHANGED <<ingestRows, s3, request, storageOps, storageFaults, crossed>>

NextBucket(n) == notifier' = [notifier EXCEPT ![n].pc = "bucket", ![n].cur = NoBucket,
                                              ![n].other = FALSE]

(* Mutant: only presence is compared.                                      *)
MutRulesDiffer(want, have) == (want = {}) # (have = {})

RulesDiffer(want, have) == want # have

(* describeBucket, and what follows from it: nested prefixes end the work  *)
(* on the bucket, equal sets skip to the column.  When the notification    *)
(* configuration cannot be read, the bucket counts as not wired.           *)
DescribeBucket(n) ==
  /\ notifier[n].pc = "bucket"
  /\ \E b \in notifier[n].todo, seen \in {"read", "unreadable"} :
       LET want == notifier[n].want[b]
           have == IF seen = "read" THEN rules[b] ELSE {}
       IN /\ IF seen = "read" THEN UNCHANGED storageFaults ELSE StorageFault
          /\ notifier' = [notifier EXCEPT ![n].todo = @ \ {b},
               ![n].cur = IF PrefixConflict(want) THEN NoBucket ELSE b,
               ![n].pc  = IF PrefixConflict(want) THEN "bucket"
                          ELSE IF RulesDiffer(want, have) THEN "get" ELSE "column"]
  /\ UNCHANGED <<ingestRows, s3, request, storageOps, crossed>>

GetRules(n) ==
  /\ notifier[n].pc = "get"
  /\ LET b == notifier[n].cur IN
     notifier' = [notifier EXCEPT ![n].other = b \in foreignRule,
       ![n].pc = IF notifier[n].want[b] = {} /\ rules[b] = {} THEN "column" ELSE "put"]
  /\ UNCHANGED <<ingestRows, s3, request, storageOps, storageFaults, crossed>>

(* enableObjectNotifications or disableObjectNotifications.                *)
PutBucketRules(n) ==
  /\ notifier[n].pc = "put"
  /\ PutRules(notifier[n].cur, notifier[n].other, notifier[n].want[notifier[n].cur])
  /\ notifier' = [notifier EXCEPT ![n].pc = "column"]
  /\ UNCHANGED <<ingestRows, request, storageOps, storageFaults, crossed>>

(* The column is written when it differs from the row read at the start.   *)
SetNotifyColumn(n) ==
  /\ notifier[n].pc = "column"
  /\ LET b == notifier[n].cur  on == notifier[n].want[b] # {} IN
     notify' = IF (b \in notifier[n].rows) = on \/ b \notin registered THEN notify
               ELSE IF on THEN notify \cup {b} ELSE notify \ {b}
  /\ NextBucket(n)
  /\ UNCHANGED <<ingest, registered, s3, request, storageOps, storageFaults, crossed>>

(* One bucket fails: the error is collected and the next bucket follows.   *)
BucketFails(n) ==
  /\ notifier[n].cur # NoBucket /\ StorageFault
  /\ NextBucket(n)
  /\ UNCHANGED <<ingestRows, s3, request, storageOps, crossed>>

EndNotify(n) ==
  /\ notifier[n].pc = "bucket" /\ notifier[n].todo = {}
  /\ notifier' = [notifier EXCEPT ![n] = IdleNotifier]
  /\ UNCHANGED <<ingestRows, s3, request, storageOps, storageFaults, crossed>>

(* The owner of an adopted bucket (external) adds a rule of his own.       *)
ForeignRuleAdded(b) ==
  /\ b \notin foreignRule /\ StorageFault
  /\ foreignRule' = foreignRule \cup {b}
  /\ UNCHANGED <<ingestRows, rules, request, notifier, storageOps, crossed>>

-----------------------------------------------------------------------------
RequestStep(r) ==
  \/ AssertIngestValid(r) \/ AssertPrefixAvailable(r) \/ WriteIngest(r)
  \/ InsertStorage(r) \/ DetachSensors(r) \/ GetForDisable(r) \/ PutDisabled(r)
  \/ DeleteStorage(r)

NotifyStep(n) ==
  \/ ReadStorageRows(n) \/ ReadArchiving(n) \/ DescribeBucket(n) \/ GetRules(n)
  \/ PutBucketRules(n) \/ SetNotifyColumn(n) \/ EndNotify(n)

StorageNext ==
  \/ \E r \in IngestRequests :
       \/ \E s \in Archivers :
            BeginAddSensor(r, s) \/ BeginSetIngest(r, s) \/ RemoveSensor(r, s)
       \/ \E b \in Buckets : BeginAddStorage(r, b) \/ BeginRemoveStorage(r, b)
       \/ RequestStep(r) \/ DisableFails(r) \/ RequestDies(r)
  \/ \E n \in Notifiers : NotifyStep(n) \/ BucketFails(n)
  \/ \E b \in Buckets : ForeignRuleAdded(b)

StorageSpec == StorageInit /\ [][StorageNext]_storageVars

(* The schedule keeps reconciling, and requests run to their answer.       *)
StorageFairness ==
  /\ \A r \in IngestRequests : WF_storageVars(RequestStep(r))
  /\ \A n \in Notifiers : WF_storageVars(NotifyStep(n))

StorageFairSpec == StorageSpec /\ StorageFairness
-----------------------------------------------------------------------------
(* PROPERTIES                                                              *)

Conflicted(b) == PrefixConflict(DesiredPrefixes(b))

(* Nested prefixes on a bucket, which S3 refuses as a whole, only come     *)
(* from two requests whose checks and writes crossed: the routes check,    *)
(* and nothing holds between the check and the write.                      *)
ConflictNeedsCrossing ==
  \A b \in Buckets : Conflicted(b) => ArchivingTo(b) \cap crossed # {}

(* Fields a request does not send are left alone (setSensorIngest), unless *)
(* the row was written between its read and its UPDATE.                    *)
AbsentLeftAlone ==
  [][\A r \in IngestRequests :
       LET s == request[r].sensor IN
       (/\ request[r].pc = "write" /\ request[r].op = "set"
        /\ request'[r].pc = "idle" /\ ~request[r].stale) =>
         /\ "stream" \notin request[r].given => ingest'[s].stream = ingest[s].stream
         /\ "path" \notin request[r].given => ingest'[s].path = ingest[s].path]_storageVars

(* A rule of somebody else survives every write of the configuration that  *)
(* read it; only one added between a GET and its PUT is lost.              *)
ForeignRuleKept ==
  [][\A b \in foreignRule \ foreignRule' :
       \/ \E r \in IngestRequests :
            request[r].pc = "putRules" /\ request[r].bucket = b /\ ~request[r].other
       \/ \E n \in Notifiers :
            notifier[n].pc = "put" /\ notifier[n].cur = b /\ ~notifier[n].other]_storageVars

(* Whatever order edits, passes and failures come in, a registered bucket  *)
(* ends up announcing exactly the prefixes its sensors archive under, and  *)
(* its column says so, unless the rows conflict.                           *)
WiringConverges ==
  \A b \in Buckets :
    <>[](b \in registered =>
           \/ Conflicted(b)
           \/ /\ rules[b] = DesiredPrefixes(b)
              /\ b \in notify <=> rules[b] # {})

(* Nesting prefixes need two requests that crossed.                        *)
StorageSafety == StorageTypeOK /\ ConflictNeedsCrossing

(* What is not ours on a bucket, and what a request was not given, is left *)
(* alone.                                                                  *)
RestLeftAlone == ForeignRuleKept /\ AbsentLeftAlone
=============================================================================
