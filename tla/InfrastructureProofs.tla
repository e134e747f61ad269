-------------------------- MODULE InfrastructureProofs --------------------------
(***************************************************************************)
(* Proofs about what follows the registry into AWS: the sensors' queues    *)
(* and services (SensorProvisioning), and the archive prefixes and         *)
(* notification rules of the buckets (StorageWiring), for any sensors,     *)
(* buckets, overlapping requests and passes, edits and failures; and about *)
(* the stack they live in (DeploymentStack), for any deploys and failures  *)
(* and whatever is slow.                                                   *)
(***************************************************************************)
EXTENDS SensorProvisioning, StorageWiring, DeploymentStack, TLAPS

-----------------------------------------------------------------------------
(* ARCHIVING.  A request is used after what it was derived from may have   *)
(* changed.  What makes it right all the same is what each step of one     *)
(* that nobody overtook still says about the rows.                         *)

Request ==
  [pc : {"idle", "exists", "valid", "prefix", "write", "detach", "getRules",
         "putRules", "delete", "insert"},
   op : {"", "add", "set", "register", "unregister"},
   sensor : Archivers \cup {""}, given : SUBSET {"stream", "archive", "path"},
   next : IngestRow, bucket : Buckets \cup {NoBucket}, other : BOOLEAN,
   stale : BOOLEAN]

Notifier ==
  [pc : {"idle", "archiving", "bucket", "get", "put", "column"},
   todo : SUBSET Buckets, rows : SUBSET Buckets,
   want : [Buckets -> SUBSET Prefixes], cur : Buckets \cup {NoBucket},
   other : BOOLEAN]

Editing(q) == q.pc \in {"valid", "prefix", "write"}

(* What a request works on, by its step.                                   *)
RequestOK(q) ==
  /\ q \in Request
  /\ Editing(q) => q.sensor \in Archivers /\ q.op \in {"add", "set"}
  /\ q.pc \in {"insert", "detach", "getRules", "putRules", "delete"} => q.bucket \in Buckets
  /\ q.next.archive => q.next.path.bucket \in Buckets

NotifierOK(n) ==
  /\ n \in Notifier
  /\ n.pc \in {"get", "put", "column"} => n.cur \in Buckets

(* Sensors other than s whose prefix, in these rows, nests with that of a  *)
(* row for s, on the same bucket.                                          *)
Nesting(rows, row, s) ==
  {t \in Archivers \ {s} :
     /\ rows[t].archive /\ rows[t].path.bucket = row.path.bucket
     /\ PrefixesConflict(rows[t].path.prefix, row.path.prefix)}

(* A request that is past the check of its prefix, and that nobody has     *)
(* overtaken, would pass it again.                                         *)
StillFree(rows, q) ==
  (/\ ~q.stale /\ q.next.archive
   /\ q.pc = "write" \/ (q.pc = "valid" /\ q.op = "add")) =>
    Nesting(rows, q.next, q.sensor) = {}

(* An edit that nobody has overtaken holds what the row has in the fields  *)
(* it was not given.                                                       *)
StillKnown(rows, q) ==
  (Editing(q) /\ q.op = "set" /\ ~q.stale) =>
    /\ "stream" \notin q.given => q.next.stream = rows[q.sensor].stream
    /\ "path" \notin q.given => q.next.path = rows[q.sensor].path

RequestInv(rows, q) == RequestOK(q) /\ StillFree(rows, q) /\ StillKnown(rows, q)

(* Of two sensors whose prefixes nest, one was written by a request that   *)
(* had been overtaken.                                                     *)
CrossedPairs ==
  \A s \in Archivers :
    ingest[s].archive => Nesting(ingest, ingest[s], s) \subseteq crossed \/ s \in crossed

RowsOK ==
  /\ ingest \in [Archivers -> IngestRow]
  /\ \A s \in Archivers : ingest[s].archive => ingest[s].path.bucket \in registered
  /\ registered \subseteq Buckets /\ notify \subseteq registered
  /\ crossed \subseteq Archivers

S3OK == rules \in [Buckets -> SUBSET Prefixes] /\ foreignRule \subseteq Buckets

CountsOK == storageOps \in 0..StorageOps /\ storageFaults \in 0..StorageFaults

RequestsOK ==
  /\ request \in [IngestRequests -> Request]
  /\ \A r \in IngestRequests : RequestInv(ingest, request[r])

NotifiersOK ==
  /\ notifier \in [Notifiers -> Notifier]
  /\ \A n \in Notifiers : NotifierOK(notifier[n])

StorageInv == RowsOK /\ S3OK /\ CountsOK /\ RequestsOK /\ NotifiersOK /\ CrossedPairs

-----------------------------------------------------------------------------
(* Rows and records.                                                       *)

LEMMA EmptyRow ==
  /\ Detached \in Path /\ Detached.bucket = NoBucket
  /\ NoRow \in IngestRow /\ ~NoRow.archive /\ NoRow.path = Detached
BY DEF Detached, Path, NoRow, IngestRow

LEMMA PathOfBucket ==
  ASSUME NEW p \in Path, p.bucket # NoBucket
  PROVE  p.bucket \in Buckets /\ p.prefix \in Prefixes
<1>1. p \in [bucket : Buckets, prefix : Prefixes] \/ p = [bucket |-> NoBucket, prefix |-> ""]
  BY DEF Path
<1>2. CASE p = [bucket |-> NoBucket, prefix |-> ""]
  <2>1. p.bucket = NoBucket
    BY <1>2
  <2> QED
    BY <2>1
<1> QED
  BY <1>1, <1>2

LEMMA IdleRequestOK ==
  /\ IdleRequest \in Request /\ IdleRequest.pc = "idle" /\ ~IdleRequest.next.archive
  /\ IdleRequest.op = "" /\ ~IdleRequest.stale
<1>1. IdleRequest \in Request
  BY EmptyRow DEF IdleRequest, Request
<1> QED
  BY <1>1, EmptyRow DEF IdleRequest

LEMMA IdleNotifierOK == IdleNotifier \in Notifier /\ IdleNotifier.pc = "idle"
BY DEF IdleNotifier, Notifier

(* A request that is not at an edit of a sensor promises nothing about the *)
(* rows.                                                                   *)
LEMMA NotEditing ==
  ASSUME NEW rows, NEW q, RequestOK(q), ~Editing(q)
  PROVE  RequestInv(rows, q)
BY DEF RequestInv, StillFree, StillKnown, Editing

LEMMA IdleRequestInv == \A rows : RequestInv(rows, IdleRequest)
BY IdleRequestOK, NotEditing DEF RequestOK, Editing

(* One request moves, and the rows stay.                                   *)
LEMMA RequestMoves ==
  ASSUME RequestsOK, NEW r \in IngestRequests, NEW q, RequestInv(ingest, q),
         UNCHANGED ingest, request' = [request EXCEPT ![r] = q]
  PROVE  RequestsOK'
<1>1. q \in Request
  BY DEF RequestInv, RequestOK
<1>2. request' \in [IngestRequests -> Request]
  BY <1>1 DEF RequestsOK
<1>3. ASSUME NEW p \in IngestRequests
      PROVE  RequestInv(ingest, request'[p])
  BY DEF RequestsOK
<1> QED
  BY <1>2, <1>3 DEF RequestsOK

(* A request writes rows: whoever has not been overtaken by it was not     *)
(* looking at them.                                                        *)
LEMMA OthersOvertaken ==
  ASSUME StorageInv, NEW r \in IngestRequests, NEW hit \in SUBSET Archivers,
         NEW req \in [IngestRequests -> Request],
         \A q \in IngestRequests \ {r} : req[q] = request[q],
         RequestOK(req[r]), ~Editing(req[r]),
         RowsOK', \A s \in Archivers \ hit : ingest'[s] = ingest[s],
         request' = Overtake(r, hit, req)
  PROVE  RequestsOK'
<1>1. ASSUME NEW q \in IngestRequests
      PROVE  request'[q] \in Request /\ RequestInv(ingest', request'[q])
  <2>1. CASE q = r
    <3>1. request'[q] = req[r]
      BY <2>1 DEF Overtake
    <3> QED
      BY <3>1, NotEditing
  <2>2. CASE q # r
    <3>1. req[q] = request[q] /\ RequestInv(ingest, req[q]) /\ req[q] \in Request
      BY <2>2 DEF StorageInv, RequestsOK
    <3>2. RequestOK(req[q])
      BY <3>1 DEF RequestInv
    <3>3. CASE request'[q] = [req[q] EXCEPT !.stale = TRUE]
      <4>1. request'[q] \in Request
        BY <3>1, <3>3 DEF Request
      <4>2. /\ request'[q].pc = req[q].pc /\ request'[q].op = req[q].op
            /\ request'[q].sensor = req[q].sensor /\ request'[q].bucket = req[q].bucket
            /\ request'[q].next = req[q].next /\ request'[q].stale
        BY <3>1, <3>3 DEF Request
      <4> QED
        BY <3>2, <4>1, <4>2 DEF RequestInv, RequestOK, StillFree, StillKnown, Editing
    <3>4. CASE ~Editing(req[q]) /\ request'[q] = req[q]
      BY <3>1, <3>2, <3>4, NotEditing
    <3>5. CASE /\ Editing(req[q]) /\ request'[q] = req[q]
               /\ \A s \in hit : /\ s # req[q].sensor
                                 /\ req[q].next.path.bucket # ingest[s].path.bucket
                                 /\ req[q].next.path.bucket # ingest'[s].path.bucket
      <4>1. req[q].sensor \in Archivers
        BY <3>2, <3>5 DEF RequestOK
      <4>2. ingest'[req[q].sensor] = ingest[req[q].sensor]
        BY <3>5, <4>1
      <4>3. Nesting(ingest', req[q].next, req[q].sensor) \subseteq
              Nesting(ingest, req[q].next, req[q].sensor)
        BY <3>5 DEF Nesting
      <4>4. StillFree(ingest', req[q]) /\ StillKnown(ingest', req[q])
        BY <3>1, <4>2, <4>3 DEF RequestInv, StillFree, StillKnown
      <4> QED
        BY <3>1, <3>2, <3>5, <4>4 DEF RequestInv
    <3>6. \/ request'[q] = [req[q] EXCEPT !.stale = TRUE]
          \/ ~Editing(req[q]) /\ request'[q] = req[q]
          \/ /\ Editing(req[q]) /\ request'[q] = req[q]
             /\ \A s \in hit : /\ s # req[q].sensor
                               /\ req[q].next.path.bucket # ingest[s].path.bucket
                               /\ req[q].next.path.bucket # ingest'[s].path.bucket
      BY <2>2 DEF Overtake, Editing
    <3> QED
      BY <3>3, <3>4, <3>5, <3>6
  <2> QED
    BY <2>1, <2>2
<1>2. DOMAIN request' = IngestRequests
  BY DEF Overtake
<1>3. request' \in [IngestRequests -> Request]
  BY <1>1, <1>2 DEF Overtake
<1> QED
  BY <1>1, <1>3 DEF RequestsOK

-----------------------------------------------------------------------------
(* Initially, and one lemma for each action.                               *)

LEMMA StorageInitially == StorageInit => StorageInv
<1> SUFFICES ASSUME StorageInit PROVE StorageInv
  OBVIOUS
<1>1. registered \subseteq Buckets /\ ingest \in [Archivers -> IngestRow]
  BY EmptyRow DEF StorageInit, IngestRow, NoRow
<1>2. ASSUME NEW s \in Archivers, ingest[s].archive
      PROVE  ingest[s].path.bucket \in registered
  BY <1>2, EmptyRow DEF StorageInit, NoRow
<1>3. RowsOK
  <2>1. notify \subseteq registered
    BY <1>1, <1>2 DEF StorageInit, DesiredPrefixes, ArchivingTo
  <2> QED
    BY <1>1, <1>2, <2>1 DEF RowsOK, StorageInit
<1>4. ASSUME NEW s \in Archivers, ingest[s].archive
      PROVE  ingest[s].path.prefix \in Prefixes
  <2>1. ingest[s].path \in Path /\ ingest[s].path.bucket # NoBucket
    BY <1>1, <1>2, <1>4, StorageConstants DEF IngestRow
  <2> QED
    BY <2>1, PathOfBucket
<1>5. S3OK
  <2>1. \A b \in Buckets : DesiredPrefixes(b) \subseteq Prefixes
    BY <1>4 DEF DesiredPrefixes, ArchivingTo
  <2> QED
    BY <2>1 DEF S3OK, StorageInit
<1>6. CountsOK
  BY StorageConstants DEF CountsOK, StorageInit
<1>7. RequestsOK
  BY IdleRequestOK, IdleRequestInv DEF RequestsOK, StorageInit
<1>8. NotifiersOK
  BY IdleNotifierOK DEF NotifiersOK, NotifierOK, StorageInit
<1>9. CrossedPairs
  <2>1. ASSUME NEW s \in Archivers, ingest[s].archive
        PROVE  Nesting(ingest, ingest[s], s) = {}
    <3>1. SUFFICES ASSUME NEW t \in Nesting(ingest, ingest[s], s) PROVE FALSE
      OBVIOUS
    <3> DEFINE b == ingest[s].path.bucket
    <3>2. b \in Buckets
      BY <1>1, <1>2, <2>1
    <3>3. s \in ArchivingTo(b) /\ t \in ArchivingTo(b)
      BY <2>1, <3>1 DEF ArchivingTo, Nesting
    <3>4. PrefixesConflict(ingest[t].path.prefix, ingest[s].path.prefix)
      BY <3>1 DEF Nesting
    <3>5. PrefixConflict(DesiredPrefixes(b))
      BY <3>3, <3>4 DEF PrefixConflict, DesiredPrefixes
    <3> QED
      BY <3>2, <3>5 DEF StorageInit
  <2> QED
    BY <2>1 DEF CrossedPairs
<1> QED
  BY <1>3, <1>5, <1>6, <1>7, <1>8, <1>9 DEF StorageInv

LEMMA FaultsCount ==
  ASSUME CountsOK, StorageFault
  PROVE  storageFaults' \in 0..StorageFaults
BY StorageConstants DEF CountsOK, StorageFault

LEMMA RequestsCount ==
  ASSUME CountsOK, NEW r, StartRequest(r)
  PROVE  storageOps' \in 0..StorageOps
BY StorageConstants DEF CountsOK, StartRequest

(* What stays as long as the rows do.                                      *)
LEMMA RowsStay ==
  ASSUME StorageInv, UNCHANGED <<ingestRows, crossed>>
  PROVE  RowsOK' /\ CrossedPairs'
BY DEF StorageInv, ingestRows, RowsOK, CrossedPairs

LEMMA S3Stays == ASSUME StorageInv, UNCHANGED s3 PROVE S3OK'
BY DEF StorageInv, s3, S3OK

LEMMA NotifiersStay == ASSUME StorageInv, UNCHANGED notifier PROVE NotifiersOK'
BY DEF StorageInv, NotifiersOK

LEMMA RequestsStay == ASSUME StorageInv, UNCHANGED <<ingest, request>> PROVE RequestsOK'
BY DEF StorageInv, RequestsOK

(* A step that only moves a request.                                       *)
LEMMA OnlyRequestMoves ==
  ASSUME StorageInv, NEW r \in IngestRequests, NEW q, RequestInv(ingest, q),
         request' = [request EXCEPT ![r] = q],
         UNCHANGED <<ingestRows, s3, notifier, crossed>>, CountsOK'
  PROVE  StorageInv'
<1>1. RequestsOK'
  BY RequestMoves DEF StorageInv, ingestRows
<1> QED
  BY <1>1, RowsStay, S3Stays, NotifiersStay DEF StorageInv

LEMMA BeginAddSensorKeeps ==
  ASSUME StorageInv, NEW r \in IngestRequests, NEW s \in Archivers, BeginAddSensor(r, s)
  PROVE  StorageInv'
<1>1. PICK p \in Path, archive \in BOOLEAN :
        /\ archive <=> p.bucket # NoBucket
        /\ request' = [request EXCEPT ![r] =
             [IdleRequest EXCEPT !.op = "add", !.sensor = s,
                !.pc = IF archive THEN "prefix" ELSE "valid",
                !.next = [present |-> TRUE, stream |-> ~archive, archive |-> archive,
                          path |-> p]]]
  BY DEF BeginAddSensor
<1> DEFINE row == [present |-> TRUE, stream |-> ~archive, archive |-> archive, path |-> p]
           pc  == IF archive THEN "prefix" ELSE "valid"
           q   == [IdleRequest EXCEPT !.op = "add", !.sensor = s, !.pc = pc, !.next = row]
<1>2. row \in IngestRow /\ row.archive = archive /\ row.path = p
  BY DEF IngestRow
<1>3. pc \in {"prefix", "valid"} /\ (archive => pc = "prefix")
  OBVIOUS
<1> HIDE DEF row, pc
<1>4. q \in Request
  BY <1>2, <1>3, IdleRequestOK DEF Request
<1>5. /\ q.op = "add" /\ q.sensor = s /\ q.pc = pc /\ q.next = row
  BY IdleRequestOK DEF Request
<1>6. request' = [request EXCEPT ![r] = q]
  BY <1>1 DEF row, pc
<1> HIDE DEF q
<1>7. archive => p.bucket \in Buckets
  BY <1>1, PathOfBucket
<1>8. RequestInv(ingest, q)
  BY <1>2, <1>3, <1>4, <1>5, <1>7 DEF RequestInv, RequestOK, StillFree, StillKnown, Editing
<1>9. CountsOK'
  BY RequestsCount DEF BeginAddSensor, StorageInv, CountsOK
<1> QED
  BY <1>6, <1>8, <1>9, OnlyRequestMoves DEF BeginAddSensor

(* The fields a PATCH gives.                                               *)
Givens == {{"stream"}, {"archive", "path"}}

LEMMA NextIngestIs ==
  ASSUME NEW row \in IngestRow, NEW given \in Givens,
         NEW stream \in BOOLEAN, NEW archive \in BOOLEAN, NEW path \in Path
  PROVE  /\ NextIngest(row, given, stream, archive, path) \in IngestRow
         /\ NextIngest(row, given, stream, archive, path).archive =>
              NextIngest(row, given, stream, archive, path).path.bucket \in Buckets
         /\ "stream" \notin given =>
              NextIngest(row, given, stream, archive, path).stream = row.stream
         /\ "path" \notin given =>
              NextIngest(row, given, stream, archive, path).path = row.path
<1> DEFINE p == IF "path" \in given THEN path ELSE row.path
           st == IF "stream" \in given THEN stream ELSE row.stream
           ar == (IF "archive" \in given THEN archive ELSE row.archive) /\ p.bucket # NoBucket
<1>1. p \in Path /\ ("path" \notin given => p = row.path)
  BY DEF IngestRow
<1>2. st \in BOOLEAN /\ ("stream" \notin given => st = row.stream)
  BY DEF IngestRow
<1>3. ar \in BOOLEAN /\ (ar => p.bucket # NoBucket)
  OBVIOUS
<1>4. NextIngest(row, given, stream, archive, path) =
        [present |-> TRUE, stream |-> st, archive |-> ar, path |-> p]
  BY DEF NextIngest
<1> HIDE DEF p, st, ar
<1>5. p.bucket # NoBucket => p.bucket \in Buckets
  BY <1>1, PathOfBucket
<1>6. /\ NextIngest(row, given, stream, archive, path) \in IngestRow
      /\ NextIngest(row, given, stream, archive, path).stream = st
      /\ NextIngest(row, given, stream, archive, path).archive = ar
      /\ NextIngest(row, given, stream, archive, path).path = p
  BY <1>1, <1>2, <1>3, <1>4 DEF IngestRow
<1> QED
  BY <1>1, <1>2, <1>3, <1>5, <1>6

LEMMA BeginSetIngestKeeps ==
  ASSUME StorageInv, NEW r \in IngestRequests, NEW s \in Archivers, BeginSetIngest(r, s)
  PROVE  StorageInv'
<1>1. PICK given \in {{"stream"}, {"archive", "path"}}, stream, archive \in BOOLEAN, p \in Path :
        request' = [request EXCEPT ![r] =
          [IdleRequest EXCEPT !.op = "set", !.sensor = s, !.pc = "valid",
             !.given = given, !.next = NextIngest(ingest[s], given, stream, archive, p)]]
  BY DEF BeginSetIngest
<1> DEFINE row == NextIngest(ingest[s], given, stream, archive, p)
           q   == [IdleRequest EXCEPT !.op = "set", !.sensor = s, !.pc = "valid",
                                      !.given = given, !.next = row]
<1>2. ingest[s] \in IngestRow
  BY DEF StorageInv, RowsOK
<1>3. /\ row \in IngestRow /\ (row.archive => row.path.bucket \in Buckets)
      /\ "stream" \notin given => row.stream = ingest[s].stream
      /\ "path" \notin given => row.path = ingest[s].path
  <2>1. row = NextIngest(ingest[s], given, stream, archive, p)
    BY DEF row
  <2>2. /\ given \in Givens
        /\ stream \in BOOLEAN /\ archive \in BOOLEAN /\ p \in Path
    BY <1>1 DEF Givens
  <2>3. /\ NextIngest(ingest[s], given, stream, archive, p) \in IngestRow
        /\ NextIngest(ingest[s], given, stream, archive, p).archive =>
             NextIngest(ingest[s], given, stream, archive, p).path.bucket \in Buckets
        /\ "stream" \notin given =>
             NextIngest(ingest[s], given, stream, archive, p).stream = ingest[s].stream
        /\ "path" \notin given =>
             NextIngest(ingest[s], given, stream, archive, p).path = ingest[s].path
    <3> HIDE <1>1, <2>1
    <3> QED
      BY <1>2, <2>2, NextIngestIs
  <2> QED
    BY <2>1, <2>3
<1> HIDE DEF row
<1>4. q \in Request
  BY <1>3, IdleRequestOK DEF Request
<1>5. /\ q.op = "set" /\ q.sensor = s /\ q.pc = "valid" /\ q.next = row /\ q.given = given
  BY IdleRequestOK DEF Request
<1>6. request' = [request EXCEPT ![r] = q]
  BY <1>1 DEF row
<1> HIDE DEF q
<1>7. RequestInv(ingest, q)
  BY <1>3, <1>4, <1>5 DEF RequestInv, RequestOK, StillFree, StillKnown, Editing
<1>8. CountsOK'
  BY RequestsCount DEF BeginSetIngest, StorageInv, CountsOK
<1> QED
  BY <1>6, <1>7, <1>8, OnlyRequestMoves DEF BeginSetIngest

LEMMA AssertIngestValidKeeps ==
  ASSUME StorageInv, NEW r \in IngestRequests, AssertIngestValid(r)
  PROVE  StorageInv'
<1> DEFINE q  == request[r]
           pc == IF q.op = "set" /\ q.next.archive THEN "prefix" ELSE "write"
           p  == [q EXCEPT !.pc = pc]
<1>1. q \in Request /\ RequestInv(ingest, q) /\ q.pc = "valid"
  BY DEF StorageInv, RequestsOK, AssertIngestValid
<1>2. \/ request' = [request EXCEPT ![r] = IdleRequest]
      \/ request' = [request EXCEPT ![r] = p]
  BY DEF AssertIngestValid, Answer, Answered
<1>3. RequestInv(ingest, p)
  <2>1. pc \in {"prefix", "write"}
    OBVIOUS
  <2>2. pc = "write" => q.op # "set" \/ ~q.next.archive
    OBVIOUS
  <2> HIDE DEF pc
  <2>3. /\ p \in Request /\ p.pc = pc /\ p.op = q.op /\ p.sensor = q.sensor
        /\ p.given = q.given /\ p.next = q.next /\ p.stale = q.stale /\ p.bucket = q.bucket
    BY <1>1, <2>1 DEF Request
  <2> HIDE DEF p, q
  <2>4. RequestOK(p) /\ q.op \in {"add", "set"}
    BY <1>1, <2>1, <2>3 DEF RequestInv, RequestOK, Editing
  <2>5. StillFree(ingest, p)
    BY <1>1, <2>1, <2>2, <2>3, <2>4 DEF RequestInv, StillFree
  <2>6. StillKnown(ingest, p)
    BY <1>1, <2>1, <2>3 DEF RequestInv, StillKnown, Editing
  <2> QED
    BY <2>4, <2>5, <2>6 DEF RequestInv
<1>4. CountsOK'
  BY DEF AssertIngestValid, StorageInv, CountsOK
<1> HIDE DEF p
<1> QED
  BY <1>2, <1>3, <1>4, IdleRequestInv, OnlyRequestMoves DEF AssertIngestValid

(* The check against the other sensors of the bucket.                      *)
LEMMA AssertPrefixAvailableKeeps ==
  ASSUME StorageInv, NEW r \in IngestRequests, AssertPrefixAvailable(r)
  PROVE  StorageInv'
<1> DEFINE q      == request[r]
           pc     == IF q.op = "add" THEN "valid" ELSE "write"
           p      == [q EXCEPT !.pc = pc]
           others == ArchivingTo(q.next.path.bucket) \ {q.sensor}
           used   == {ingest[t].path.prefix : t \in others} \cup {q.next.path.prefix}
<1>1. q \in Request /\ RequestInv(ingest, q) /\ q.pc = "prefix"
  BY DEF StorageInv, RequestsOK, AssertPrefixAvailable
<1>2. \/ request' = [request EXCEPT ![r] = IdleRequest]
      \/ ~PrefixConflict(used) /\ request' = [request EXCEPT ![r] = p]
  BY DEF AssertPrefixAvailable, Answer, Answered
<1>3. ASSUME ~PrefixConflict(used)
      PROVE  Nesting(ingest, q.next, q.sensor) = {}
  <2>1. SUFFICES ASSUME NEW t \in Nesting(ingest, q.next, q.sensor) PROVE FALSE
    OBVIOUS
  <2>2. t \in others /\ PrefixesConflict(ingest[t].path.prefix, q.next.path.prefix)
    BY <2>1 DEF Nesting, ArchivingTo
  <2>3. ingest[t].path.prefix \in used /\ q.next.path.prefix \in used
    BY <2>2
  <2> QED
    BY <1>3, <2>2, <2>3 DEF PrefixConflict
<1>4. ASSUME ~PrefixConflict(used) PROVE RequestInv(ingest, p)
  <2>1. pc \in {"valid", "write"}
    OBVIOUS
  <2> HIDE DEF pc
  <2>2. /\ p \in Request /\ p.pc = pc /\ p.op = q.op /\ p.sensor = q.sensor
        /\ p.given = q.given /\ p.next = q.next /\ p.stale = q.stale /\ p.bucket = q.bucket
    BY <1>1, <2>1 DEF Request
  <2> HIDE DEF p, q
  <2>3. RequestOK(p)
    BY <1>1, <2>1, <2>2 DEF RequestInv, RequestOK, Editing
  <2>4. StillFree(ingest, p)
    BY <1>3, <1>4, <2>2 DEF StillFree
  <2>5. StillKnown(ingest, p)
    BY <1>1, <2>1, <2>2 DEF RequestInv, StillKnown, Editing
  <2> QED
    BY <2>3, <2>4, <2>5 DEF RequestInv
<1>5. CountsOK'
  BY DEF AssertPrefixAvailable, StorageInv, CountsOK
<1> HIDE DEF p, used
<1> QED
  BY <1>2, <1>4, <1>5, IdleRequestInv, OnlyRequestMoves DEF AssertPrefixAvailable

(* A request that has only to do with a bucket.                            *)
LEMMA BucketRequest ==
  ASSUME NEW q \in Request, RequestOK(q), ~Editing(q),
         NEW pc \in {"delete", "putRules", "getRules"}, NEW other \in BOOLEAN,
         q.bucket \in Buckets
  PROVE  /\ RequestOK([q EXCEPT !.pc = pc]) /\ ~Editing([q EXCEPT !.pc = pc])
         /\ RequestOK([q EXCEPT !.other = other, !.pc = pc])
         /\ ~Editing([q EXCEPT !.other = other, !.pc = pc])
<1> DEFINE p == [q EXCEPT !.pc = pc]
           o == [q EXCEPT !.other = other, !.pc = pc]
<1>1. /\ p \in Request /\ p.pc = pc /\ p.next = q.next /\ p.bucket = q.bucket
  BY DEF Request
<1>2. /\ o \in Request /\ o.pc = pc /\ o.next = q.next /\ o.bucket = q.bucket
  BY DEF Request
<1> QED
  BY <1>1, <1>2 DEF RequestOK, Editing

LEMMA BeginStorageKeeps ==
  ASSUME StorageInv, NEW r \in IngestRequests, NEW b \in Buckets,
         BeginAddStorage(r, b) \/ BeginRemoveStorage(r, b)
  PROVE  StorageInv'
<1>1. PICK op \in {"register", "unregister"}, pc \in {"insert", "detach"} :
        request' = [request EXCEPT ![r] =
                      [IdleRequest EXCEPT !.op = op, !.bucket = b, !.pc = pc]]
  BY DEF BeginAddStorage, BeginRemoveStorage
<1> DEFINE q == [IdleRequest EXCEPT !.op = op, !.bucket = b, !.pc = pc]
<1>2. /\ q \in Request /\ q.pc = pc /\ q.bucket = b /\ q.next = IdleRequest.next
  BY IdleRequestOK DEF Request
<1>3. RequestOK(q) /\ ~Editing(q)
  BY <1>2, IdleRequestOK DEF RequestOK, Editing
<1>4. CountsOK'
  BY RequestsCount DEF BeginAddStorage, BeginRemoveStorage, StorageInv, CountsOK
<1>5. UNCHANGED <<ingestRows, s3, notifier, crossed>>
  BY DEF BeginAddStorage, BeginRemoveStorage
<1> HIDE DEF q
<1>6. request' = [request EXCEPT ![r] = q]
  BY <1>1 DEF q
<1> QED
  BY <1>3, <1>4, <1>5, <1>6, NotEditing, OnlyRequestMoves

LEMMA GetForDisableKeeps ==
  ASSUME StorageInv, NEW r \in IngestRequests, GetForDisable(r)
  PROVE  StorageInv'
<1>1. PICK other \in BOOLEAN, pc \in {"delete", "putRules"} :
        request' = [request EXCEPT ![r] = [request[r] EXCEPT !.other = other, !.pc = pc]]
  <2>1. /\ (request[r].bucket \in foreignRule) \in BOOLEAN
        /\ (IF rules[request[r].bucket] = {} THEN "delete" ELSE "putRules")
             \in {"delete", "putRules"}
    OBVIOUS
  <2>2. request' = [request EXCEPT ![r] =
          [request[r] EXCEPT !.other = request[r].bucket \in foreignRule,
             !.pc = IF rules[request[r].bucket] = {} THEN "delete" ELSE "putRules"]]
    BY DEF GetForDisable, StorageInv, RequestsOK
  <2> QED
    BY <2>1, <2>2
<1>2. /\ request[r] \in Request /\ RequestOK(request[r]) /\ ~Editing(request[r])
      /\ request[r].bucket \in Buckets
  BY DEF GetForDisable, StorageInv, RequestsOK, RequestInv, RequestOK, Editing
<1>3. CountsOK'
  BY DEF GetForDisable, StorageInv, CountsOK
<1> DEFINE q == [request[r] EXCEPT !.other = other, !.pc = pc]
<1>4. RequestOK(q) /\ ~Editing(q)
  BY <1>2, BucketRequest
<1>5. request' = [request EXCEPT ![r] = q]
  BY <1>1
<1> HIDE DEF q
<1>6. RequestInv(ingest, q)
  BY <1>4, NotEditing
<1> QED
  BY <1>3, <1>5, <1>6, OnlyRequestMoves DEF GetForDisable

LEMMA InsertStorageKeeps ==
  ASSUME StorageInv, NEW r \in IngestRequests, InsertStorage(r)
  PROVE  StorageInv'
<1>1. request[r].bucket \in Buckets
  BY DEF InsertStorage, StorageInv, RequestsOK, RequestInv, RequestOK
<1>2. RowsOK' /\ CrossedPairs'
  BY <1>1 DEF InsertStorage, StorageInv, RowsOK, CrossedPairs
<1>3. request' = [request EXCEPT ![r] = IdleRequest] /\ UNCHANGED ingest
  BY DEF InsertStorage, Answer, Answered
<1>4. RequestsOK'
  BY <1>3, IdleRequestInv, RequestMoves DEF StorageInv
<1>5. CountsOK'
  BY DEF InsertStorage, StorageInv, CountsOK
<1> QED
  BY <1>2, <1>4, <1>5, S3Stays, NotifiersStay DEF StorageInv, InsertStorage

(* What PutRules leaves is typed, whoever calls it.                        *)
LEMMA PutRulesTyped ==
  ASSUME S3OK, NEW b \in Buckets, NEW other, NEW ps \in SUBSET Prefixes, PutRules(b, other, ps)
  PROVE  S3OK'
BY DEF S3OK, PutRules

LEMMA PutDisabledKeeps ==
  ASSUME StorageInv, NEW r \in IngestRequests, PutDisabled(r)
  PROVE  StorageInv'
<1> DEFINE q == [request[r] EXCEPT !.pc = "delete"]
<1>1. /\ request[r] \in Request /\ RequestOK(request[r]) /\ ~Editing(request[r])
      /\ request[r].bucket \in Buckets
  BY DEF PutDisabled, StorageInv, RequestsOK, RequestInv, RequestOK, Editing
<1>2. RequestOK(q) /\ ~Editing(q)
  BY <1>1, BucketRequest
<1>3. request' = [request EXCEPT ![r] = q] /\ UNCHANGED ingest
  BY DEF PutDisabled, StorageInv, RequestsOK, ingestRows
<1> HIDE DEF q
<1>4. RequestsOK'
  BY <1>2, <1>3, NotEditing, RequestMoves DEF StorageInv
<1>5. S3OK'
  BY <1>1, PutRulesTyped DEF PutDisabled, StorageInv
<1>6. CountsOK'
  BY DEF PutDisabled, StorageInv, CountsOK
<1> QED
  BY <1>4, <1>5, <1>6, RowsStay, NotifiersStay DEF StorageInv, PutDisabled

LEMMA DisableFailsKeeps ==
  ASSUME StorageInv, NEW r \in IngestRequests, DisableFails(r)
  PROVE  StorageInv'
<1> DEFINE q == [request[r] EXCEPT !.pc = "delete"]
<1>1. /\ request[r] \in Request /\ RequestOK(request[r]) /\ ~Editing(request[r])
      /\ request[r].bucket \in Buckets
  BY DEF DisableFails, StorageInv, RequestsOK, RequestInv, RequestOK, Editing
<1>2. RequestOK(q) /\ ~Editing(q)
  BY <1>1, BucketRequest
<1>3. request' = [request EXCEPT ![r] = q]
  BY DEF DisableFails, StorageInv, RequestsOK
<1> HIDE DEF q
<1>4. CountsOK'
  BY FaultsCount DEF DisableFails, StorageInv, CountsOK
<1> QED
  BY <1>2, <1>3, <1>4, NotEditing, OnlyRequestMoves DEF DisableFails

LEMMA RequestDiesKeeps ==
  ASSUME StorageInv, NEW r \in IngestRequests, RequestDies(r)
  PROVE  StorageInv'
<1>1. request' = [request EXCEPT ![r] = IdleRequest]
  BY DEF RequestDies, Answer, Answered
<1>2. CountsOK'
  BY FaultsCount DEF RequestDies, StorageInv, CountsOK
<1> QED
  BY <1>1, <1>2, IdleRequestInv, OnlyRequestMoves DEF RequestDies

-----------------------------------------------------------------------------
(* The statements that write rows.                                         *)

(* Requests after an answer by r.                                          *)
LEMMA AnsweredRequests ==
  ASSUME StorageInv, NEW r \in IngestRequests
  PROVE  /\ Answered(r) \in [IngestRequests -> Request]
         /\ \A q \in IngestRequests \ {r} : Answered(r)[q] = request[q]
         /\ Answered(r)[r] = IdleRequest
         /\ RequestOK(Answered(r)[r]) /\ ~Editing(Answered(r)[r])
BY IdleRequestOK DEF Answered, StorageInv, RequestsOK, RequestOK, Editing

(* Rows of which each stays or stops archiving nest no more than before.   *)
LEMMA NestingShrinks ==
  ASSUME StorageInv, \A s \in Archivers : ingest'[s] = ingest[s] \/ ~ingest'[s].archive,
         crossed \subseteq crossed' \/
           \E s \in Archivers : ~ingest'[s].archive /\ crossed' = crossed \ {s}
  PROVE  CrossedPairs'
<1>1. ASSUME NEW s \in Archivers, ingest'[s].archive
      PROVE  Nesting(ingest', ingest'[s], s) \subseteq crossed' \/ s \in crossed'
  <2>1. ingest'[s] = ingest[s]
    BY <1>1
  <2>2. Nesting(ingest', ingest'[s], s) \subseteq Nesting(ingest, ingest[s], s)
    BY <2>1 DEF Nesting
  <2>3. Nesting(ingest, ingest[s], s) \subseteq crossed \/ s \in crossed
    BY <1>1, <2>1 DEF StorageInv, CrossedPairs
  <2>4. \A t \in Nesting(ingest', ingest'[s], s) : ingest'[t].archive /\ t \in Archivers
    BY DEF Nesting
  <2> QED
    BY <1>1, <2>2, <2>3, <2>4
<1> QED
  BY <1>1 DEF CrossedPairs

LEMMA RemoveSensorKeeps ==
  ASSUME StorageInv, NEW r \in IngestRequests, NEW s \in Archivers, RemoveSensor(r, s)
  PROVE  StorageInv'
<1>1. ingest' = [ingest EXCEPT ![s] = NoRow] /\ UNCHANGED <<registered, notify>>
      /\ crossed' = crossed \ {s}
  BY DEF RemoveSensor
<1>2. /\ ingest' \in [Archivers -> IngestRow]
      /\ \A t \in Archivers : ingest'[t] = ingest[t] \/ (t = s /\ ~ingest'[t].archive)
  BY <1>1, EmptyRow DEF StorageInv, RowsOK
<1>3. RowsOK'
  BY <1>1, <1>2 DEF StorageInv, RowsOK
<1>4. ~ingest'[s].archive
  BY <1>1, EmptyRow DEF StorageInv, RowsOK
<1>5. CrossedPairs'
  BY <1>1, <1>2, <1>4, NestingShrinks
<1>6. RequestsOK'
  <2>1. /\ request \in [IngestRequests -> Request]
        /\ RequestOK(request[r]) /\ ~Editing(request[r])
    BY DEF RemoveSensor, StartRequest, StorageInv, RequestsOK, RequestInv, Editing
  <2>2. \A t \in Archivers \ {s} : ingest'[t] = ingest[t]
    BY <1>1 DEF StorageInv, RowsOK
  <2>3. request' = Overtake(r, {s}, request)
    BY DEF RemoveSensor
  <2> QED
    BY <1>3, <2>1, <2>2, <2>3, OthersOvertaken
<1>7. CountsOK'
  BY RequestsCount DEF RemoveSensor, StorageInv, CountsOK
<1> QED
  BY <1>3, <1>5, <1>6, <1>7, S3Stays, NotifiersStay DEF StorageInv, RemoveSensor

LEMMA Symmetric ==
  ASSUME NEW p, NEW q, PrefixesConflict(p, q)
  PROVE  PrefixesConflict(q, p)
<1>1. <<p, q>> \in Nested
  BY DEF PrefixesConflict
<1>2. p \in Prefixes /\ q \in Prefixes
  BY <1>1, StorageConstants
<1> QED
  BY <1>1, <1>2, StorageConstants DEF PrefixesConflict

(* A request that was overtaken is remembered; one that was not wrote what *)
(* nests with nobody.                                                      *)
LEMMA WrittenPairs ==
  ASSUME StorageInv, NEW r \in IngestRequests, NEW s \in Archivers, NEW next \in IngestRow,
         s = request[r].sensor, next = request[r].next, request[r].pc = "write",
         ingest' = [ingest EXCEPT ![s] = next],
         crossed' = IF request[r].stale THEN crossed \cup {s} ELSE crossed \ {s}
  PROVE  CrossedPairs'
<1>1. ingest'[s] = next /\ \A t \in Archivers \ {s} : ingest'[t] = ingest[t]
  BY DEF StorageInv, RowsOK
<1>2. ASSUME NEW t \in Archivers, t # s
      PROVE  Nesting(ingest', ingest[t], t) \subseteq Nesting(ingest, ingest[t], t) \cup {s}
  BY <1>1 DEF Nesting
<1>3. ASSUME NEW t \in Archivers, t # s, ingest[t].archive
      PROVE  Nesting(ingest, ingest[t], t) \subseteq crossed \/ t \in crossed
  BY <1>3 DEF StorageInv, CrossedPairs
<1>4. CASE request[r].stale
  <2>1. crossed' = crossed \cup {s}
    BY <1>4
  <2> QED
    BY <1>1, <1>2, <1>3, <2>1 DEF CrossedPairs
<1>5. CASE ~request[r].stale
  <2>1. crossed' = crossed \ {s}
    BY <1>5
  <2>2. next.archive => Nesting(ingest, next, s) = {}
    BY <1>5 DEF StorageInv, RequestsOK, RequestInv, StillFree
  <2>3. Nesting(ingest', next, s) = Nesting(ingest, next, s)
    BY <1>1 DEF Nesting
  <2>4. ASSUME NEW t \in Archivers, t # s, ingest[t].archive
        PROVE  s \notin Nesting(ingest', ingest[t], t)
    <3>1. SUFFICES ASSUME s \in Nesting(ingest', ingest[t], t) PROVE FALSE
      OBVIOUS
    <3>2. /\ next.archive /\ next.path.bucket = ingest[t].path.bucket
          /\ PrefixesConflict(next.path.prefix, ingest[t].path.prefix)
      BY <1>1, <3>1 DEF Nesting
    <3>3. t \in Nesting(ingest, next, s)
      BY <2>4, <3>2, Symmetric DEF Nesting
    <3> QED
      BY <2>2, <3>2, <3>3
  <2>5. ASSUME NEW t \in Archivers, ingest'[t].archive
        PROVE  Nesting(ingest', ingest'[t], t) \subseteq crossed' \/ t \in crossed'
    <3>1. CASE t = s
      BY <1>1, <2>2, <2>3, <2>5, <3>1
    <3>2. CASE t # s
      <4>1. ingest'[t] = ingest[t] /\ ingest[t].archive
        BY <1>1, <2>5, <3>2
      <4>2. Nesting(ingest', ingest[t], t) \subseteq Nesting(ingest, ingest[t], t) \cup {s}
        BY <1>2, <3>2
      <4>3. s \notin Nesting(ingest', ingest[t], t)
        BY <2>4, <3>2, <4>1
      <4>4. Nesting(ingest, ingest[t], t) \subseteq crossed \/ t \in crossed
        BY <1>3, <3>2, <4>1
      <4> QED
        BY <2>1, <3>2, <4>1, <4>2, <4>3, <4>4
    <3> QED
      BY <3>1, <3>2
  <2> QED
    BY <2>5 DEF CrossedPairs
<1> QED
  BY <1>4, <1>5

LEMMA WriteIngestKeeps ==
  ASSUME StorageInv, NEW r \in IngestRequests, WriteIngest(r)
  PROVE  StorageInv'
<1> DEFINE q == request[r]  s == q.sensor  next == q.next
           done == /\ next.path.bucket \in registered \cup {NoBucket}
                   /\ ingest[s].present <=> (q.op = "set")
<1>1. q \in Request /\ RequestInv(ingest, q) /\ q.pc = "write"
  BY DEF StorageInv, RequestsOK, WriteIngest
<1>2. s \in Archivers /\ next \in IngestRow /\ (next.archive => next.path.bucket \in Buckets)
  BY <1>1 DEF RequestInv, RequestOK, Editing, Request
<1>3. CountsOK' /\ UNCHANGED <<registered, notify, s3, notifier>>
  BY DEF WriteIngest, StorageInv, CountsOK
<1>4. CASE ~done
  <2>1. request' = [request EXCEPT ![r] = IdleRequest] /\ UNCHANGED <<ingest, crossed>>
    BY <1>4 DEF WriteIngest, Answer, Answered
  <2> QED
    BY <1>3, <2>1, IdleRequestInv, OnlyRequestMoves DEF ingestRows
<1>5. CASE done
  <2>1. /\ ingest' = [ingest EXCEPT ![s] = next]
        /\ crossed' = IF q.stale THEN crossed \cup {s} ELSE crossed \ {s}
        /\ request' = Overtake(r, {s}, Answered(r))
    BY <1>5 DEF WriteIngest
  <2>2. CrossedPairs'
    BY <1>1, <1>2, <2>1, WrittenPairs
  <2>3. next.archive => next.path.bucket \in registered
    BY <1>2, <1>5, StorageConstants
  <2>4. RowsOK'
    <3> HIDE DEF next, s, q
    <3>1. /\ ingest' \in [Archivers -> IngestRow] /\ ingest'[s] = next
          /\ \A t \in Archivers \ {s} : ingest'[t] = ingest[t]
      BY <1>2, <2>1 DEF StorageInv, RowsOK
    <3>2. crossed' \subseteq Archivers
      BY <1>2, <2>1 DEF StorageInv, RowsOK
    <3> QED
      BY <1>3, <2>3, <3>1, <3>2 DEF StorageInv, RowsOK
  <2>5. RequestsOK'
    <3>1. \A t \in Archivers \ {s} : ingest'[t] = ingest[t]
      BY <2>1 DEF StorageInv, RowsOK
    <3> QED
      BY <1>2, <2>1, <2>4, <3>1, AnsweredRequests, OthersOvertaken
  <2> QED
    BY <1>3, <2>2, <2>4, <2>5, S3Stays, NotifiersStay DEF StorageInv
<1> QED
  BY <1>4, <1>5

(* The rows of a bucket after they were taken off it.                      *)
LEMMA TakenOff ==
  ASSUME StorageInv, NEW hit \in SUBSET Archivers, NEW row,
         \A s \in hit : row[s] \in IngestRow /\ ~row[s].archive,
         ingest' = [s \in Archivers |-> IF s \in hit THEN row[s] ELSE ingest[s]],
         registered' \subseteq Buckets, notify' \subseteq registered', UNCHANGED crossed,
         \A s \in Archivers \ hit : ingest[s].archive => ingest[s].path.bucket \in registered'
  PROVE  RowsOK' /\ CrossedPairs' /\ \A s \in Archivers \ hit : ingest'[s] = ingest[s]
<1>1. /\ \A s \in Archivers \ hit : ingest'[s] = ingest[s]
      /\ \A s \in hit : ingest'[s] = row[s]
  OBVIOUS
<1>2. ingest' \in [Archivers -> IngestRow]
  BY DEF StorageInv, RowsOK
<1>3. RowsOK'
  BY <1>1, <1>2 DEF StorageInv, RowsOK
<1>4. CrossedPairs'
  BY <1>1, NestingShrinks
<1> QED
  BY <1>1, <1>3, <1>4

LEMMA DetachSensorsKeeps ==
  ASSUME StorageInv, NEW r \in IngestRequests, DetachSensors(r)
  PROVE  StorageInv'
<1> DEFINE b   == request[r].bucket
           hit == {s \in Archivers : ingest[s].path.bucket = b}
           row == [s \in hit |-> [ingest[s] EXCEPT !.archive = FALSE, !.path = Detached]]
           q   == [request[r] EXCEPT !.pc = "getRules"]
           req == [request EXCEPT ![r] = q]
<1>1. /\ request[r] \in Request /\ RequestOK(request[r]) /\ ~Editing(request[r])
      /\ b \in Buckets
  BY DEF DetachSensors, StorageInv, RequestsOK, RequestInv, RequestOK, Editing
<1>2. RequestOK(q) /\ ~Editing(q)
  BY <1>1, BucketRequest
<1>3. req \in [IngestRequests -> Request] /\ req[r] = q
      /\ \A p \in IngestRequests \ {r} : req[p] = request[p]
  BY <1>1, <1>2 DEF StorageInv, RequestsOK, RequestOK
<1>4. ASSUME NEW s \in hit PROVE row[s] \in IngestRow /\ ~row[s].archive
  <2>1. ingest[s] \in IngestRow /\ row[s] = [ingest[s] EXCEPT !.archive = FALSE, !.path = Detached]
    BY DEF StorageInv, RowsOK
  <2>2. row[s] \in IngestRow
    BY <2>1, EmptyRow DEF IngestRow
  <2> QED
    BY <2>1, <2>2 DEF IngestRow
<1>5. ingest' = [s \in Archivers |-> IF s \in hit THEN row[s] ELSE ingest[s]]
  BY DEF DetachSensors
<1>6. request' = Overtake(r, hit, req)
  <2>1. [request EXCEPT ![r].pc = "getRules"] = req
    BY DEF StorageInv, RequestsOK
  <2> QED
    BY <2>1 DEF DetachSensors
<1>7. UNCHANGED <<registered, notify, s3, notifier, crossed>>
  BY DEF DetachSensors
<1> HIDE DEF row, req, q
<1>8. RowsOK' /\ CrossedPairs' /\ \A s \in Archivers \ hit : ingest'[s] = ingest[s]
  <2>1. /\ registered' \subseteq Buckets /\ notify' \subseteq registered'
        /\ \A s \in Archivers \ hit : ingest[s].archive => ingest[s].path.bucket \in registered'
    BY <1>7 DEF StorageInv, RowsOK
  <2> HIDE DEF hit
  <2> QED
    BY <1>4, <1>5, <1>7, <2>1, TakenOff DEF hit
<1>9. RequestsOK'
  <2> HIDE DEF hit
  <2>1. hit \in SUBSET Archivers
    BY DEF hit
  <2> QED
    BY <1>2, <1>3, <1>6, <1>8, <2>1, OthersOvertaken
<1>10. CountsOK'
  BY DEF DetachSensors, StorageInv, CountsOK
<1> QED
  BY <1>7, <1>8, <1>9, <1>10, S3Stays, NotifiersStay DEF StorageInv

LEMMA DeleteStorageKeeps ==
  ASSUME StorageInv, NEW r \in IngestRequests, DeleteStorage(r)
  PROVE  StorageInv'
<1> DEFINE b   == request[r].bucket
           hit == {s \in Archivers : ingest[s].path.bucket = b}
           row == [s \in hit |-> [ingest[s] EXCEPT !.path = Detached]]
<1>1. CountsOK' /\ UNCHANGED <<s3, notifier, crossed>>
  BY DEF DeleteStorage, StorageInv, CountsOK
<1>2. CASE ArchivingTo(b) # {}
  <2>1. request' = [request EXCEPT ![r] = IdleRequest] /\ UNCHANGED ingestRows
    BY <1>2 DEF DeleteStorage, Answer, Answered
  <2> QED
    BY <1>1, <2>1, IdleRequestInv, OnlyRequestMoves
<1>3. CASE ArchivingTo(b) = {}
  <2>1. /\ registered' = registered \ {b} /\ notify' = notify \ {b}
        /\ ingest' = [s \in Archivers |-> IF s \in hit THEN row[s] ELSE ingest[s]]
        /\ request' = Overtake(r, hit, Answered(r))
    BY <1>3 DEF DeleteStorage
  <2>2. ASSUME NEW s \in hit PROVE row[s] \in IngestRow /\ ~row[s].archive
    <3>1. ingest[s] \in IngestRow /\ ~ingest[s].archive
          /\ row[s] = [ingest[s] EXCEPT !.path = Detached]
      BY <1>3 DEF StorageInv, RowsOK, ArchivingTo
    <3>2. row[s] \in IngestRow
      BY <3>1, EmptyRow DEF IngestRow
    <3> QED
      BY <3>1, <3>2 DEF IngestRow
  <2> HIDE DEF row
  <2>3. RowsOK' /\ CrossedPairs' /\ \A s \in Archivers \ hit : ingest'[s] = ingest[s]
    <3>1. /\ registered' \subseteq Buckets /\ notify' \subseteq registered'
          /\ \A s \in Archivers \ hit : ingest[s].archive => ingest[s].path.bucket \in registered'
      BY <2>1 DEF StorageInv, RowsOK
    <3>2. hit \in SUBSET Archivers
      OBVIOUS
    <3> HIDE DEF hit
    <3> QED
      BY <1>1, <2>1, <2>2, <3>1, <3>2, TakenOff
  <2>4. RequestsOK'
    <3>1. hit \in SUBSET Archivers
      OBVIOUS
    <3> HIDE DEF hit
    <3> QED
      BY <2>1, <2>3, <3>1, AnsweredRequests, OthersOvertaken
  <2> QED
    BY <1>1, <2>3, <2>4, S3Stays, NotifiersStay DEF StorageInv
<1> QED
  BY <1>2, <1>3

-----------------------------------------------------------------------------
(* The steps of reconcileNotifications, and of the bucket's owner.         *)

LEMMA NotifierMoves ==
  ASSUME StorageInv, NEW n \in Notifiers, NEW m, NotifierOK(m),
         notifier' = [notifier EXCEPT ![n] = m]
  PROVE  NotifiersOK'
<1>1. m \in Notifier
  BY DEF NotifierOK
<1>2. notifier' \in [Notifiers -> Notifier]
  BY <1>1 DEF StorageInv, NotifiersOK
<1>3. \A k \in Notifiers : NotifierOK(notifier'[k])
  BY DEF StorageInv, NotifiersOK
<1> QED
  BY <1>2, <1>3 DEF NotifiersOK

LEMMA OnlyNotifierMoves ==
  ASSUME StorageInv, NEW n \in Notifiers, NEW m, NotifierOK(m),
         notifier' = [notifier EXCEPT ![n] = m],
         UNCHANGED <<ingestRows, s3, request, crossed>>, CountsOK'
  PROVE  StorageInv'
<1>1. UNCHANGED ingest
  BY DEF ingestRows
<1> QED
  BY <1>1, NotifierMoves, RowsStay, S3Stays, RequestsStay DEF StorageInv

LEMMA ReadStorageRowsKeeps ==
  ASSUME StorageInv, NEW n \in Notifiers, ReadStorageRows(n)
  PROVE  StorageInv'
<1> DEFINE m == [IdleNotifier EXCEPT !.pc = "archiving", !.todo = registered, !.rows = notify]
<1>1. registered \subseteq Buckets /\ notify \subseteq Buckets
  BY DEF StorageInv, RowsOK
<1>2. m \in Notifier /\ m.pc = "archiving"
  BY <1>1, IdleNotifierOK DEF Notifier
<1>3. NotifierOK(m)
  BY <1>2 DEF NotifierOK
<1>4. notifier' = [notifier EXCEPT ![n] = m] /\ CountsOK'
  BY DEF ReadStorageRows, StorageInv, CountsOK
<1> HIDE DEF m
<1> QED
  BY <1>3, <1>4, OnlyNotifierMoves DEF ReadStorageRows

(* What the rows ask for are prefixes.                                     *)
LEMMA DesiredTyped ==
  ASSUME StorageInv
  PROVE  [b \in Buckets |-> DesiredPrefixes(b)] \in [Buckets -> SUBSET Prefixes]
<1>1. ASSUME NEW b \in Buckets, NEW s \in ArchivingTo(b)
      PROVE  ingest[s].path.prefix \in Prefixes
  <2>1. ingest[s].path \in Path /\ ingest[s].path.bucket = b
    BY DEF StorageInv, RowsOK, IngestRow, ArchivingTo
  <2> QED
    BY <2>1, StorageConstants, PathOfBucket
<1> QED
  BY <1>1 DEF DesiredPrefixes

LEMMA ReadArchivingKeeps ==
  ASSUME StorageInv, NEW n \in Notifiers, ReadArchiving(n)
  PROVE  StorageInv'
<1> DEFINE want == [b \in Buckets |-> DesiredPrefixes(b)]
           m == [notifier[n] EXCEPT !.pc = "bucket", !.want = want]
<1>1. NotifierOK(notifier[n])
  BY DEF StorageInv, NotifiersOK
<1>2. want \in [Buckets -> SUBSET Prefixes]
  BY DesiredTyped
<1> HIDE DEF want
<1>3. m \in Notifier /\ m.pc = "bucket"
  BY <1>1, <1>2 DEF NotifierOK, Notifier
<1>4. NotifierOK(m)
  BY <1>3 DEF NotifierOK
<1>5. notifier' = [notifier EXCEPT ![n] = m] /\ CountsOK'
  BY DEF ReadArchiving, StorageInv, NotifiersOK, CountsOK, want
<1> HIDE DEF m
<1> QED
  BY <1>4, <1>5, OnlyNotifierMoves DEF ReadArchiving

LEMMA DescribeBucketKeeps ==
  ASSUME StorageInv, NEW n \in Notifiers, DescribeBucket(n)
  PROVE  StorageInv'
<1>1. PICK b \in notifier[n].todo, cur \in notifier[n].todo \cup {NoBucket},
           pc \in {"bucket", "get", "column"} :
        /\ notifier' = [notifier EXCEPT ![n].todo = @ \ {b}, ![n].cur = cur, ![n].pc = pc]
        /\ pc # "bucket" => cur = b
        /\ UNCHANGED storageFaults \/ StorageFault
  <2>1. PICK b \in notifier[n].todo, seen \in {"read", "unreadable"} :
          LET want == notifier[n].want[b]
              have == IF seen = "read" THEN rules[b] ELSE {}
          IN /\ IF seen = "read" THEN UNCHANGED storageFaults ELSE StorageFault
             /\ notifier' = [notifier EXCEPT ![n].todo = @ \ {b},
                  ![n].cur = IF PrefixConflict(want) THEN NoBucket ELSE b,
                  ![n].pc  = IF PrefixConflict(want) THEN "bucket"
                             ELSE IF RulesDiffer(want, have) THEN "get" ELSE "column"]
    BY DEF DescribeBucket
  <2> DEFINE want == notifier[n].want[b]
             have == IF seen = "read" THEN rules[b] ELSE {}
             cur  == IF PrefixConflict(want) THEN NoBucket ELSE b
             pc   == IF PrefixConflict(want) THEN "bucket"
                     ELSE IF RulesDiffer(want, have) THEN "get" ELSE "column"
  <2>2. /\ cur \in notifier[n].todo \cup {NoBucket}
        /\ pc \in {"bucket", "get", "column"} /\ (pc # "bucket" => cur = b)
    OBVIOUS
  <2>3. notifier' = [notifier EXCEPT ![n].todo = @ \ {b}, ![n].cur = cur, ![n].pc = pc]
    BY <2>1
  <2>4. UNCHANGED storageFaults \/ StorageFault
    BY <2>1
  <2> HIDE DEF cur, pc
  <2> QED
    BY <2>1, <2>2, <2>3, <2>4
<1> DEFINE m == [notifier[n] EXCEPT !.todo = @ \ {b}, !.cur = cur, !.pc = pc]
<1>2. notifier[n] \in Notifier /\ notifier[n].todo \subseteq Buckets
  BY DEF StorageInv, NotifiersOK, Notifier
<1>3. b \in Buckets /\ cur \in Buckets \cup {NoBucket}
  BY <1>1, <1>2 DEF Notifier
<1>4. m \in Notifier /\ m.pc = pc /\ m.cur = cur
  BY <1>1, <1>2, <1>3 DEF Notifier
<1>5. NotifierOK(m)
  BY <1>1, <1>3, <1>4 DEF NotifierOK
<1>6. notifier' = [notifier EXCEPT ![n] = m]
  BY <1>1 DEF StorageInv, NotifiersOK
<1>7. CountsOK'
  BY <1>1, FaultsCount DEF DescribeBucket, StorageInv, CountsOK
<1> HIDE DEF m
<1> QED
  BY <1>5, <1>6, <1>7, OnlyNotifierMoves DEF DescribeBucket

LEMMA GetRulesKeeps ==
  ASSUME StorageInv, NEW n \in Notifiers, GetRules(n)
  PROVE  StorageInv'
<1>1. NotifierOK(notifier[n]) /\ notifier[n].pc = "get"
  BY DEF StorageInv, NotifiersOK, GetRules
<1> DEFINE b     == notifier[n].cur
           other == b \in foreignRule
           pc    == IF notifier[n].want[b] = {} /\ rules[b] = {} THEN "column" ELSE "put"
           m     == [notifier[n] EXCEPT !.other = other, !.pc = pc]
<1>2. other \in BOOLEAN /\ pc \in {"column", "put"}
  OBVIOUS
<1>3. notifier' = [notifier EXCEPT ![n] = m]
  BY DEF GetRules, StorageInv, NotifiersOK
<1> HIDE DEF other, pc
<1>4. m \in Notifier /\ m.pc = pc /\ m.cur = notifier[n].cur
  BY <1>1, <1>2 DEF NotifierOK, Notifier
<1>5. NotifierOK(m)
  BY <1>1, <1>2, <1>4 DEF NotifierOK
<1>6. CountsOK'
  BY DEF GetRules, StorageInv, CountsOK
<1> HIDE DEF m
<1> QED
  BY <1>3, <1>5, <1>6, OnlyNotifierMoves DEF GetRules

LEMMA PutBucketRulesKeeps ==
  ASSUME StorageInv, NEW n \in Notifiers, PutBucketRules(n)
  PROVE  StorageInv'
<1> DEFINE m == [notifier[n] EXCEPT !.pc = "column"]
<1>1. NotifierOK(notifier[n]) /\ notifier[n].cur \in Buckets
  BY DEF StorageInv, NotifiersOK, PutBucketRules, NotifierOK
<1>2. m \in Notifier /\ m.cur = notifier[n].cur
  BY <1>1 DEF NotifierOK, Notifier
<1>3. NotifierOK(m)
  BY <1>1, <1>2 DEF NotifierOK
<1>4. notifier' = [notifier EXCEPT ![n] = m] /\ CountsOK'
  BY DEF PutBucketRules, StorageInv, NotifiersOK, CountsOK
<1>5. notifier[n].want[notifier[n].cur] \in SUBSET Prefixes
  BY <1>1 DEF NotifierOK, Notifier
<1>6. S3OK'
  BY <1>1, <1>5, PutRulesTyped DEF PutBucketRules, StorageInv
<1>7. UNCHANGED <<ingestRows, request, crossed, ingest>>
  BY DEF PutBucketRules, ingestRows
<1> HIDE DEF m
<1> QED
  BY <1>3, <1>4, <1>6, <1>7, NotifierMoves, RowsStay, RequestsStay DEF StorageInv

(* On to the next bucket.                                                  *)
LEMMA NextBucketOK ==
  ASSUME StorageInv, NEW n \in Notifiers, NextBucket(n)
  PROVE  NotifiersOK'
<1> DEFINE m == [notifier[n] EXCEPT !.pc = "bucket", !.cur = NoBucket, !.other = FALSE]
<1>1. NotifierOK(notifier[n])
  BY DEF StorageInv, NotifiersOK
<1>2. m \in Notifier /\ m.pc = "bucket"
  BY <1>1 DEF NotifierOK, Notifier
<1>3. NotifierOK(m)
  BY <1>2 DEF NotifierOK
<1>4. notifier' = [notifier EXCEPT ![n] = m]
  BY DEF NextBucket, StorageInv, NotifiersOK
<1> HIDE DEF m
<1> QED
  BY <1>3, <1>4, NotifierMoves

LEMMA SetNotifyColumnKeeps ==
  ASSUME StorageInv, NEW n \in Notifiers, SetNotifyColumn(n)
  PROVE  StorageInv'
<1>1. RowsOK'
  <2>1. notify' \subseteq registered
    BY DEF StorageInv, RowsOK, SetNotifyColumn
  <2> QED
    BY <2>1 DEF StorageInv, RowsOK, SetNotifyColumn
<1>2. CrossedPairs' /\ CountsOK'
  BY DEF StorageInv, CrossedPairs, CountsOK, SetNotifyColumn
<1>3. UNCHANGED <<ingest, request, s3>>
  BY DEF SetNotifyColumn
<1> QED
  BY <1>1, <1>2, <1>3, NextBucketOK, S3Stays, RequestsStay DEF StorageInv, SetNotifyColumn

LEMMA BucketFailsKeeps ==
  ASSUME StorageInv, NEW n \in Notifiers, BucketFails(n)
  PROVE  StorageInv'
<1>1. CountsOK'
  BY FaultsCount DEF BucketFails, StorageInv, CountsOK
<1>2. UNCHANGED <<ingest, ingestRows, s3, request, crossed>>
  BY DEF BucketFails, ingestRows
<1> QED
  BY <1>1, <1>2, NextBucketOK, RowsStay, S3Stays, RequestsStay DEF StorageInv, BucketFails

LEMMA EndNotifyKeeps ==
  ASSUME StorageInv, NEW n \in Notifiers, EndNotify(n)
  PROVE  StorageInv'
<1>1. NotifierOK(IdleNotifier)
  BY IdleNotifierOK DEF NotifierOK
<1>2. CountsOK'
  BY DEF EndNotify, StorageInv, CountsOK
<1> QED
  BY <1>1, <1>2, OnlyNotifierMoves DEF EndNotify

LEMMA ForeignRuleAddedKeeps ==
  ASSUME StorageInv, NEW b \in Buckets, ForeignRuleAdded(b)
  PROVE  StorageInv'
<1>1. S3OK'
  BY DEF ForeignRuleAdded, StorageInv, S3OK
<1>2. CountsOK'
  BY FaultsCount DEF ForeignRuleAdded, StorageInv, CountsOK
<1>3. UNCHANGED <<ingest, ingestRows, request, notifier, crossed>>
  BY DEF ForeignRuleAdded, ingestRows
<1> QED
  BY <1>1, <1>2, <1>3, RowsStay, RequestsStay, NotifiersStay DEF StorageInv

LEMMA StorageInvStep == StorageInv /\ [StorageNext]_storageVars => StorageInv'
<1> SUFFICES ASSUME StorageInv, [StorageNext]_storageVars PROVE StorageInv'
  OBVIOUS
<1>1. CASE UNCHANGED storageVars
  <2>1. UNCHANGED <<ingest, ingestRows, s3, request, notifier, crossed, storageOps, storageFaults>>
    BY <1>1 DEF storageVars, ingestRows
  <2>2. CountsOK'
    BY <2>1 DEF StorageInv, CountsOK
  <2> QED
    BY <2>1, <2>2, RowsStay, S3Stays, RequestsStay, NotifiersStay DEF StorageInv
<1>2. ASSUME NEW r \in IngestRequests, NEW s \in Archivers,
             BeginAddSensor(r, s) \/ BeginSetIngest(r, s) \/ RemoveSensor(r, s)
      PROVE  StorageInv'
  BY <1>2, BeginAddSensorKeeps, BeginSetIngestKeeps, RemoveSensorKeeps
<1>3. ASSUME NEW r \in IngestRequests, NEW b \in Buckets,
             BeginAddStorage(r, b) \/ BeginRemoveStorage(r, b)
      PROVE  StorageInv'
  BY <1>3, BeginStorageKeeps
<1>4. ASSUME NEW r \in IngestRequests, RequestStep(r)
      PROVE  StorageInv'
  BY <1>4, AssertIngestValidKeeps, AssertPrefixAvailableKeeps, WriteIngestKeeps,
     InsertStorageKeeps, DetachSensorsKeeps, GetForDisableKeeps, PutDisabledKeeps,
     DeleteStorageKeeps DEF RequestStep
<1>5. ASSUME NEW r \in IngestRequests, DisableFails(r) \/ RequestDies(r)
      PROVE  StorageInv'
  BY <1>5, DisableFailsKeeps, RequestDiesKeeps
<1>6. ASSUME NEW n \in Notifiers, NotifyStep(n) \/ BucketFails(n)
      PROVE  StorageInv'
  BY <1>6, ReadStorageRowsKeeps, ReadArchivingKeeps, DescribeBucketKeeps, GetRulesKeeps,
     PutBucketRulesKeeps, SetNotifyColumnKeeps, EndNotifyKeeps, BucketFailsKeeps
     DEF NotifyStep
<1>7. ASSUME NEW b \in Buckets, ForeignRuleAdded(b)
      PROVE  StorageInv'
  BY <1>7, ForeignRuleAddedKeeps
<1> QED
  BY <1>1, <1>2, <1>3, <1>4, <1>5, <1>6, <1>7 DEF StorageNext

LEMMA StorageInvAlways == StorageSpec => []StorageInv
<1>1. StorageInit => StorageInv
  BY StorageInitially
<1> QED
  BY <1>1, StorageInvStep, PTL DEF StorageSpec

LEMMA StorageInvSafe == StorageInv => StorageSafety
<1> SUFFICES ASSUME StorageInv PROVE StorageSafety
  OBVIOUS
<1>1. StorageTypeOK
  <2>1. \A r \in IngestRequests : request[r] \in Request
    BY DEF StorageInv, RequestsOK
  <2>2. \A n \in Notifiers : notifier[n] \in Notifier
    BY DEF StorageInv, NotifiersOK
  <2> QED
    BY <2>1, <2>2 DEF StorageInv, RowsOK, S3OK, CountsOK, StorageTypeOK, Request, Notifier
<1>2. ConflictNeedsCrossing
  <2>1. SUFFICES ASSUME NEW b \in Buckets, Conflicted(b)
                 PROVE  ArchivingTo(b) \cap crossed # {}
    BY DEF ConflictNeedsCrossing
  <2>2. PICK s \in ArchivingTo(b), t \in ArchivingTo(b) :
          PrefixesConflict(ingest[t].path.prefix, ingest[s].path.prefix)
    BY <2>1 DEF Conflicted, PrefixConflict, DesiredPrefixes
  <2>3. s # t
    BY <2>2, StorageConstants DEF PrefixesConflict
  <2>4. t \in Nesting(ingest, ingest[s], s) /\ ingest[s].archive /\ s \in Archivers
    BY <2>2, <2>3 DEF Nesting, ArchivingTo
  <2>5. t \in crossed \/ s \in crossed
    BY <2>4 DEF StorageInv, CrossedPairs
  <2> QED
    BY <2>2, <2>5
<1> QED
  BY <1>1, <1>2 DEF StorageSafety

(* Nested prefixes on one bucket come only from requests that crossed: for *)
(* any sensors, buckets, prefixes, requests at once and failures.          *)
THEOREM NestedOnlyIfCrossed == StorageSpec => []StorageSafety
BY StorageInvAlways, StorageInvSafe, PTL

-----------------------------------------------------------------------------
(* What a request or a pass may not touch.                                 *)

LEMMA ForeignRulesStay ==
  ASSUME [StorageNext]_storageVars, NEW b \in foreignRule, b \notin foreignRule'
  PROVE  \/ \E r \in IngestRequests :
              request[r].pc = "putRules" /\ request[r].bucket = b /\ ~request[r].other
         \/ \E n \in Notifiers :
              notifier[n].pc = "put" /\ notifier[n].cur = b /\ ~notifier[n].other
<1>1. CASE foreignRule' = foreignRule
  BY <1>1
<1>2. CASE \E r \in IngestRequests : PutDisabled(r)
  BY <1>2 DEF PutDisabled, PutRules
<1>3. CASE \E n \in Notifiers : PutBucketRules(n)
  BY <1>3 DEF PutBucketRules, PutRules
<1>4. CASE \E c \in Buckets : ForeignRuleAdded(c)
  BY <1>4 DEF ForeignRuleAdded
<1>5. ASSUME NEW r \in IngestRequests, NEW s \in Archivers,
             BeginAddSensor(r, s) \/ BeginSetIngest(r, s) \/ RemoveSensor(r, s)
      PROVE  foreignRule' = foreignRule
  BY <1>5 DEF BeginAddSensor, BeginSetIngest, RemoveSensor, s3
<1>6. ASSUME NEW r \in IngestRequests, NEW c \in Buckets,
             BeginAddStorage(r, c) \/ BeginRemoveStorage(r, c)
      PROVE  foreignRule' = foreignRule
  BY <1>6 DEF BeginAddStorage, BeginRemoveStorage, s3
<1>7. ASSUME NEW r \in IngestRequests,
             RequestStep(r) \/ DisableFails(r) \/ RequestDies(r), ~PutDisabled(r)
      PROVE  foreignRule' = foreignRule
  BY <1>7 DEF RequestStep, AssertIngestValid, AssertPrefixAvailable, WriteIngest,
     InsertStorage, DetachSensors, GetForDisable, DeleteStorage, DisableFails, RequestDies, s3
<1>8. ASSUME NEW n \in Notifiers, NotifyStep(n) \/ BucketFails(n), ~PutBucketRules(n)
      PROVE  foreignRule' = foreignRule
  BY <1>8 DEF NotifyStep, ReadStorageRows, ReadArchiving, DescribeBucket, GetRules,
     SetNotifyColumn, EndNotify, BucketFails, s3
<1>9. CASE UNCHANGED storageVars
  BY <1>9 DEF storageVars, s3
<1> QED
  BY <1>1, <1>2, <1>3, <1>4, <1>5, <1>6, <1>7, <1>8, <1>9 DEF StorageNext

LEMMA OvertakenStays ==
  ASSUME StorageInv, NEW r \in IngestRequests, NEW q \in IngestRequests, r # q,
         NEW hit, NEW req, req[r] = request[r], request' = Overtake(q, hit, req)
  PROVE  request'[r].pc = request[r].pc
<1>1. request[r] \in Request
  BY DEF StorageInv, RequestsOK
<1>2. request'[r] = request[r] \/ request'[r] = [request[r] EXCEPT !.stale = TRUE]
  BY DEF Overtake
<1> QED
  BY <1>1, <1>2 DEF Request

LEMMA AbsentStays ==
  ASSUME StorageInv, [StorageNext]_storageVars, NEW r \in IngestRequests,
         request[r].pc = "write", request[r].op = "set", request'[r].pc = "idle",
         ~request[r].stale
  PROVE  LET s == request[r].sensor IN
         /\ "stream" \notin request[r].given => ingest'[s].stream = ingest[s].stream
         /\ "path" \notin request[r].given => ingest'[s].path = ingest[s].path
<1>1. CASE ingest' = ingest
  BY <1>1
<1>2. CASE WriteIngest(r) /\ ingest' # ingest
  <2>1. request[r].sensor \in Archivers /\ StillKnown(ingest, request[r])
    BY DEF StorageInv, RequestsOK, RequestInv, RequestOK, Editing
  <2>2. ingest' = [ingest EXCEPT ![request[r].sensor] = request[r].next]
    BY <1>2 DEF WriteIngest
  <2>3. ingest'[request[r].sensor] = request[r].next
    BY <2>1, <2>2 DEF StorageInv, RowsOK
  <2> QED
    BY <2>1, <2>3 DEF StillKnown, Editing
<1>3. ASSUME NEW q \in IngestRequests, q # r, WriteIngest(q), ingest' # ingest
      PROVE  FALSE
  <2>1. request' = Overtake(q, {request[q].sensor}, Answered(q))
    BY <1>3 DEF WriteIngest
  <2>2. Answered(q)[r] = request[r]
    BY <1>3, AnsweredRequests
  <2> QED
    BY <1>3, <2>1, <2>2, OvertakenStays
<1>4. ASSUME NEW q \in IngestRequests, NEW s \in Archivers, RemoveSensor(q, s)
      PROVE  FALSE
  <2>1. q # r /\ request' = Overtake(q, {s}, request)
    BY <1>4 DEF RemoveSensor, StartRequest
  <2> QED
    BY <2>1, OvertakenStays
<1>5. ASSUME NEW q \in IngestRequests, DetachSensors(q)
      PROVE  FALSE
  <2> DEFINE hit == {s \in Archivers : ingest[s].path.bucket = request[q].bucket}
             req == [request EXCEPT ![q].pc = "getRules"]
  <2>1. q # r /\ request' = Overtake(q, hit, req)
    BY <1>5 DEF DetachSensors
  <2>2. req[r] = request[r]
    BY <2>1 DEF StorageInv, RequestsOK
  <2> HIDE DEF hit, req
  <2> QED
    BY <2>1, <2>2, OvertakenStays
<1>6. ASSUME NEW q \in IngestRequests, DeleteStorage(q), ingest' # ingest
      PROVE  FALSE
  <2> DEFINE hit == {s \in Archivers : ingest[s].path.bucket = request[q].bucket}
  <2>1. q # r
    BY <1>6 DEF DeleteStorage
  <2>2. request' = Overtake(q, hit, Answered(q))
    BY <1>6 DEF DeleteStorage, ingestRows
  <2>3. Answered(q)[r] = request[r]
    BY <2>1, AnsweredRequests
  <2> HIDE DEF hit
  <2> QED
    BY <2>1, <2>2, <2>3, OvertakenStays
<1>7. ASSUME NEW q \in IngestRequests, NEW s \in Archivers,
             BeginAddSensor(q, s) \/ BeginSetIngest(q, s)
      PROVE  ingest' = ingest
  BY <1>7 DEF BeginAddSensor, BeginSetIngest, ingestRows
<1>8. ASSUME NEW q \in IngestRequests, NEW b \in Buckets,
             BeginAddStorage(q, b) \/ BeginRemoveStorage(q, b)
      PROVE  ingest' = ingest
  BY <1>8 DEF BeginAddStorage, BeginRemoveStorage, ingestRows
<1>9. ASSUME NEW q \in IngestRequests, RequestStep(q) \/ DisableFails(q) \/ RequestDies(q),
             ~WriteIngest(q), ~DetachSensors(q), ~DeleteStorage(q)
      PROVE  ingest' = ingest
  BY <1>9 DEF RequestStep, AssertIngestValid, AssertPrefixAvailable, InsertStorage,
     GetForDisable, PutDisabled, DisableFails, RequestDies, ingestRows
<1>10. ASSUME NEW n \in Notifiers, NotifyStep(n) \/ BucketFails(n)
       PROVE  ingest' = ingest
  BY <1>10 DEF NotifyStep, ReadStorageRows, ReadArchiving, DescribeBucket, GetRules,
     PutBucketRules, SetNotifyColumn, EndNotify, BucketFails, ingestRows
<1>11. ASSUME NEW b \in Buckets, ForeignRuleAdded(b)
       PROVE  ingest' = ingest
  BY <1>11 DEF ForeignRuleAdded, ingestRows
<1>12. CASE UNCHANGED storageVars
  BY <1>12, <1>1 DEF storageVars, ingestRows
<1> QED
  BY <1>1, <1>2, <1>3, <1>4, <1>5, <1>6, <1>7, <1>8, <1>9, <1>10, <1>11, <1>12
     DEF StorageNext, RequestStep

(* A bucket's configuration is read and put back as a whole, and a row is  *)
(* read and written as a whole: still, somebody else's rule is lost only   *)
(* if it was added between the two, and a field that a request was not     *)
(* given only if another request wrote the row between them.               *)
THEOREM RestIsLeftAlone == StorageSpec => RestLeftAlone
<1>1. StorageInv /\ [StorageNext]_storageVars =>
        [\A b \in foreignRule \ foreignRule' :
           \/ \E r \in IngestRequests :
                request[r].pc = "putRules" /\ request[r].bucket = b /\ ~request[r].other
           \/ \E n \in Notifiers :
                notifier[n].pc = "put" /\ notifier[n].cur = b /\ ~notifier[n].other]_storageVars
  BY ForeignRulesStay
<1>2. StorageInv /\ [StorageNext]_storageVars =>
        [\A r \in IngestRequests :
           LET s == request[r].sensor IN
           (/\ request[r].pc = "write" /\ request[r].op = "set"
            /\ request'[r].pc = "idle" /\ ~request[r].stale) =>
             /\ "stream" \notin request[r].given => ingest'[s].stream = ingest[s].stream
             /\ "path" \notin request[r].given => ingest'[s].path = ingest[s].path]_storageVars
  BY AbsentStays
<1>3. StorageSpec => ForeignRuleKept
  BY <1>1, StorageInvAlways, PTL DEF StorageSpec, ForeignRuleKept
<1>4. StorageSpec => AbsentLeftAlone
  BY <1>2, StorageInvAlways, PTL DEF StorageSpec, AbsentLeftAlone
<1> QED
  BY <1>3, <1>4 DEF RestLeftAlone

-----------------------------------------------------------------------------
(* STREAMING.  A pass works from what it read: the sensors it will take    *)
(* down had a queue of ours and were not desired.  Queues of others stay   *)
(* theirs, so that is still so when their turn comes.                      *)

Pass ==
  [pc : {"idle", "queues", "services", "pick", "find", "unsubscribe",
         "stop", "deleteService", "deleteQueue", "create", "subscribe",
         "ensure", "tagQueue", "tagService", "restart"},
   desired : SUBSET Sensors, queues : SUBSET Sensors,
   plain : SUBSET Sensors, drop : SUBSET Sensors, make : SUBSET Sensors,
   retag : SUBSET Sensors, cur : Sensors \cup {NoSensor}, found : BOOLEAN]

NotForeign == {s \in Sensors : queue[s] # "foreign"}

Deleting == {"find", "unsubscribe", "stop", "deleteService", "deleteQueue"}
Building == {"create", "subscribe", "ensure", "tagQueue", "tagService", "restart"}

PassOK(p, ours) ==
  /\ p \in Pass
  /\ p.queues \subseteq ours /\ p.plain \subseteq ours /\ p.drop \subseteq ours
  /\ p.drop \cap p.desired = {}
  /\ p.pc \in Deleting => p.cur \in ours /\ p.cur \notin p.desired
  /\ p.pc \in Building => p.cur \in Sensors

AwsOK ==
  /\ queue \in [Sensors -> {"none", "plain", "tagged", "foreign"}]
  /\ subscribed \subseteq Sensors
  /\ service \in [Sensors -> {"none", "running", "stopped", "draining"}]
  /\ serviceTag \subseteq Sensors /\ taskTag \subseteq Sensors

WantedOK == wanted \in [Sensors -> {"none", "off", "on"}]
SensorCounts == sensorEdits \in 0..SensorEdits /\ sensorFaults \in 0..SensorFaults
ReaperOK == reaper \in {"none", "deleting", "complete"}

PassesOK ==
  /\ pass \in [AllPasses -> Pass]
  /\ \A k \in AllPasses : PassOK(pass[k], NotForeign)

SensorInv == WantedOK /\ SensorCounts /\ AwsOK /\ PassesOK /\ ReaperOK

LEMMA IdlePassOK == \A ours : PassOK(IdlePass, ours) /\ IdlePass.desired = {}
BY DEF PassOK, IdlePass, Pass, Deleting, Building

LEMMA SensorInitially == SensorInit => SensorInv
<1> SUFFICES ASSUME SensorInit PROVE SensorInv
  OBVIOUS
<1>1. WantedOK /\ ReaperOK
  BY DEF SensorInit, WantedOK, ReaperOK
<1>2. SensorCounts
  BY SensorConstants DEF SensorInit, SensorCounts
<1>3. AwsOK
  BY DEF SensorInit, AwsOK
<1>4. PassesOK
  BY IdlePassOK DEF SensorInit, PassesOK, PassOK
<1> QED
  BY <1>1, <1>2, <1>3, <1>4 DEF SensorInv

LEMMA SensorFaultCounts ==
  ASSUME SensorCounts, SensorFault, UNCHANGED sensorEdits
  PROVE  SensorCounts'
BY SensorConstants DEF SensorCounts, SensorFault

(* One pass moves, and no queue changes hands.                             *)
LEMMA PassMoves ==
  ASSUME PassesOK, NEW k \in AllPasses, NEW p, PassOK(p, NotForeign),
         NotForeign' = NotForeign, pass' = [pass EXCEPT ![k] = p]
  PROVE  PassesOK'
<1>1. p \in Pass
  BY DEF PassOK
<1>2. pass' \in [AllPasses -> Pass]
  BY <1>1 DEF PassesOK
<1>3. \A j \in AllPasses : PassOK(pass'[j], NotForeign)
  BY DEF PassesOK
<1> QED
  BY <1>2, <1>3 DEF PassesOK

LEMMA ReadsOnly ==
  ASSUME SensorInv, NEW k \in AllPasses, NEW p, PassOK(p, NotForeign),
         pass' = [pass EXCEPT ![k] = p],
         UNCHANGED <<wanted, sensorAws, reaper>>, SensorCounts'
  PROVE  SensorInv'
<1>1. UNCHANGED <<queue, subscribed, service, serviceTag, taskTag>>
  BY DEF sensorAws
<1>2. NotForeign' = NotForeign
  BY <1>1 DEF NotForeign
<1>3. PassesOK'
  BY <1>2, PassMoves DEF SensorInv
<1> QED
  BY <1>1, <1>3 DEF SensorInv, WantedOK, AwsOK, ReaperOK

(* A pass goes on with the sensor it is at, or leaves it.                  *)
LEMMA GoesOn ==
  ASSUME NEW p, NEW ours, PassOK(p, ours), NEW pc,
         (p.pc \in Deleting /\ pc \in Deleting) \/ (p.pc \in Building /\ pc \in Building)
  PROVE  PassOK([p EXCEPT !.pc = pc], ours)
<1>1. pc \in Deleting \cup Building /\ p \in Pass
  BY DEF PassOK
<1> DEFINE q == [p EXCEPT !.pc = pc]
<1>2. q \in Pass /\ q.pc = pc /\ q.cur = p.cur /\ q.desired = p.desired /\ q.drop = p.drop
      /\ q.queues = p.queues /\ q.plain = p.plain
  BY <1>1 DEF Pass, Deleting, Building
<1> HIDE DEF q
<1>3. Deleting \cap Building = {}
  BY DEF Deleting, Building
<1>4. PassOK(q, ours)
  BY <1>2, <1>3 DEF PassOK
<1> QED
  BY <1>4 DEF q

LEMMA Leaves ==
  ASSUME NEW p, NEW ours, PassOK(p, ours)
  PROVE  PassOK([p EXCEPT !.pc = "pick", !.cur = NoSensor, !.found = FALSE], ours)
<1> DEFINE q == [p EXCEPT !.pc = "pick", !.cur = NoSensor, !.found = FALSE]
<1>1. q \in Pass /\ q.pc = "pick" /\ q.desired = p.desired /\ q.drop = p.drop
      /\ q.queues = p.queues /\ q.plain = p.plain
  BY DEF PassOK, Pass
<1> HIDE DEF q
<1>2. PassOK(q, ours)
  BY <1>1 DEF PassOK, Deleting, Building
<1> QED
  BY <1>2 DEF q

LEMMA GotoMoves ==
  ASSUME PassesOK, NEW k \in AllPasses, NEW pc, Goto(k, pc), NotForeign' = NotForeign,
         \/ pass[k].pc \in Deleting /\ pc \in Deleting
         \/ pass[k].pc \in Building /\ pc \in Building
  PROVE  PassesOK'
<1> DEFINE p == [pass[k] EXCEPT !.pc = pc]
<1>1. PassOK(pass[k], NotForeign)
  BY DEF PassesOK
<1>2. PassOK(p, NotForeign)
  BY <1>1, GoesOn
<1>3. pass' = [pass EXCEPT ![k] = p]
  BY DEF Goto, PassesOK
<1> HIDE DEF p
<1> QED
  BY <1>2, <1>3, PassMoves

LEMMA NextSensorMoves ==
  ASSUME PassesOK, NEW k \in AllPasses, NextSensor(k), NotForeign' = NotForeign
  PROVE  PassesOK'
<1> DEFINE p == [pass[k] EXCEPT !.pc = "pick", !.cur = NoSensor, !.found = FALSE]
<1>1. PassOK(p, NotForeign)
  BY Leaves DEF PassesOK
<1>2. pass' = [pass EXCEPT ![k] = p]
  BY DEF NextSensor, PassesOK
<1> HIDE DEF p
<1> QED
  BY <1>1, <1>2, PassMoves

-----------------------------------------------------------------------------
(* What a pass reads and decides.                                          *)

LEMMA EditRowKeeps ==
  ASSUME SensorInv, NEW s \in Sensors, NEW to \in {"none", "off", "on"}, EditRow(s, to)
  PROVE  SensorInv'
<1>1. WantedOK'
  BY DEF EditRow, SensorInv, WantedOK
<1>2. SensorCounts'
  BY SensorConstants DEF EditRow, SensorInv, SensorCounts
<1>3. AwsOK' /\ PassesOK' /\ ReaperOK'
  BY DEF EditRow, SensorInv, AwsOK, PassesOK, ReaperOK, NotForeign, sensorAws
<1> QED
  BY <1>1, <1>2, <1>3 DEF SensorInv

LEMMA StartPassKeeps ==
  ASSUME SensorInv, NEW k \in AllPasses, StartPass(k)
  PROVE  SensorInv'
<1> DEFINE p == [IdlePass EXCEPT !.pc = "queues", !.desired = DesiredSensors]
<1>1. IdlePass \in Pass /\ DesiredSensors \subseteq Sensors
  BY IdlePassOK DEF PassOK, DesiredSensors
<1>2. p \in Pass /\ p.pc = "queues" /\ p.queues = {} /\ p.plain = {} /\ p.drop = {}
  BY <1>1 DEF Pass, IdlePass
<1>3. PassOK(p, NotForeign)
  BY <1>2 DEF PassOK, Deleting, Building
<1>4. pass' = [pass EXCEPT ![k] = p] /\ SensorCounts'
  BY DEF StartPass, SensorInv, SensorCounts
<1> HIDE DEF p
<1> QED
  BY <1>3, <1>4, ReadsOnly DEF StartPass

LEMMA ListOwnedQueuesKeeps ==
  ASSUME SensorInv, NEW k \in AllPasses, ListOwnedQueues(k)
  PROVE  SensorInv'
<1> DEFINE plain == {s \in Sensors : queue[s] = "plain"}
           p == [pass[k] EXCEPT !.pc = "services", !.queues = Owned, !.plain = plain]
<1>1. PassOK(pass[k], NotForeign)
  BY DEF SensorInv, PassesOK
<1>2. /\ Owned \subseteq NotForeign /\ plain \subseteq NotForeign
      /\ Owned \subseteq Sensors /\ plain \subseteq Sensors
  BY DEF Owned, NotForeign
<1> HIDE DEF plain
<1>3. p \in Pass /\ p.pc = "services" /\ p.queues = Owned /\ p.plain = plain
      /\ p.drop = pass[k].drop /\ p.desired = pass[k].desired
  BY <1>1, <1>2 DEF PassOK, Pass
<1>4. pass' = [pass EXCEPT ![k] = p] /\ SensorCounts'
  BY DEF ListOwnedQueues, SensorInv, PassesOK, SensorCounts, plain
<1> HIDE DEF p
<1>5. PassOK(p, NotForeign)
  BY <1>1, <1>2, <1>3 DEF PassOK, Deleting, Building
<1> QED
  BY <1>4, <1>5, ReadsOnly DEF ListOwnedQueues

LEMMA ListClusterServicesKeeps ==
  ASSUME SensorInv, NEW k \in AllPasses, ListClusterServices(k)
  PROVE  SensorInv'
<1> DEFINE q == pass[k]
<1>1. PICK listed \in Listings :
        LET make == ToCreate(k, listed) IN
        pass' = [pass EXCEPT ![k].pc = "pick", ![k].make = make,
                             ![k].drop = pass[k].queues \ pass[k].desired,
                             ![k].retag = pass[k].desired \ make,
                             ![k].queues = {},
                             ![k].plain = @ \cap (pass[k].desired \ make)]
  BY DEF ListClusterServices
<1> DEFINE make == ToCreate(k, listed)
           plain == q.plain \cap (q.desired \ make)
           p == [q EXCEPT !.pc = "pick", !.make = make, !.drop = q.queues \ q.desired,
                          !.retag = q.desired \ make, !.queues = {}, !.plain = plain]
<1>2. PassOK(q, NotForeign)
  BY DEF SensorInv, PassesOK
<1>3. make \subseteq q.desired
  BY DEF ToCreate
<1>4. q.desired \subseteq Sensors /\ q.queues \subseteq Sensors /\ q.plain \subseteq Sensors
  BY <1>2 DEF PassOK, Pass
<1>5. pass' = [pass EXCEPT ![k] = p] /\ SensorCounts'
  BY <1>1 DEF ListClusterServices, SensorInv, PassesOK, SensorCounts
<1> HIDE DEF make
<1>6. p \in Pass /\ p.pc = "pick" /\ p.queues = {} /\ p.plain = plain
      /\ p.drop = q.queues \ q.desired /\ p.desired = q.desired
  BY <1>2, <1>3, <1>4 DEF PassOK, Pass
<1> HIDE DEF p
<1>7. PassOK(p, NotForeign)
  BY <1>2, <1>6 DEF PassOK, Deleting, Building
<1> QED
  BY <1>5, <1>7, ReadsOnly DEF ListClusterServices

LEMMA PickSensorKeeps ==
  ASSUME SensorInv, NEW k \in AllPasses, PickSensor(k)
  PROVE  SensorInv'
<1> DEFINE q == pass[k]
<1>1. PassOK(q, NotForeign) /\ q \in Pass
  BY DEF SensorInv, PassesOK, PassOK
<1>2. SensorCounts' /\ UNCHANGED <<wanted, sensorAws, reaper>>
  BY DEF PickSensor, SensorInv, SensorCounts
<1>3. CASE \E s \in q.drop :
             pass' = [pass EXCEPT ![k].drop = @ \ {s}, ![k].cur = s, ![k].pc = "find"]
  <2>1. PICK s \in q.drop :
          pass' = [pass EXCEPT ![k].drop = @ \ {s}, ![k].cur = s, ![k].pc = "find"]
    BY <1>3
  <2> DEFINE p == [q EXCEPT !.drop = q.drop \ {s}, !.cur = s, !.pc = "find"]
  <2>2. q.drop \subseteq Sensors
    BY <1>1 DEF Pass
  <2>3. p \in Pass /\ p.pc = "find" /\ p.cur = s /\ p.drop = q.drop \ {s}
        /\ p.desired = q.desired /\ p.queues = q.queues /\ p.plain = q.plain
    BY <1>1, <2>2 DEF Pass
  <2>4. pass' = [pass EXCEPT ![k] = p]
    BY <2>1 DEF SensorInv, PassesOK
  <2> HIDE DEF p
  <2>5. PassOK(p, NotForeign)
    BY <1>1, <2>3 DEF PassOK, Deleting, Building
  <2> QED
    BY <1>2, <2>4, <2>5, ReadsOnly
<1>4. CASE \E s \in q.make :
             pass' = [pass EXCEPT ![k].make = @ \ {s}, ![k].cur = s, ![k].pc = "create"]
  <2>1. PICK s \in q.make :
          pass' = [pass EXCEPT ![k].make = @ \ {s}, ![k].cur = s, ![k].pc = "create"]
    BY <1>4
  <2> DEFINE p == [q EXCEPT !.make = q.make \ {s}, !.cur = s, !.pc = "create"]
  <2>2. q.make \subseteq Sensors
    BY <1>1 DEF Pass
  <2>3. p \in Pass /\ p.pc = "create" /\ p.cur = s /\ p.drop = q.drop
        /\ p.desired = q.desired /\ p.queues = q.queues /\ p.plain = q.plain
    BY <1>1, <2>2 DEF Pass
  <2>4. pass' = [pass EXCEPT ![k] = p]
    BY <2>1 DEF SensorInv, PassesOK
  <2> HIDE DEF p
  <2>5. PassOK(p, NotForeign)
    BY <1>1, <2>2, <2>3 DEF PassOK, Deleting, Building
  <2> QED
    BY <1>2, <2>4, <2>5, ReadsOnly
<1>5. CASE \E s \in q.retag :
             pass' = [pass EXCEPT ![k].retag = @ \ {s}, ![k].cur = s, ![k].pc = "tagQueue"]
  <2>1. PICK s \in q.retag :
          pass' = [pass EXCEPT ![k].retag = @ \ {s}, ![k].cur = s, ![k].pc = "tagQueue"]
    BY <1>5
  <2> DEFINE p == [q EXCEPT !.retag = q.retag \ {s}, !.cur = s, !.pc = "tagQueue"]
  <2>2. q.retag \subseteq Sensors
    BY <1>1 DEF Pass
  <2>3. p \in Pass /\ p.pc = "tagQueue" /\ p.cur = s /\ p.drop = q.drop
        /\ p.desired = q.desired /\ p.queues = q.queues /\ p.plain = q.plain
    BY <1>1, <2>2 DEF Pass
  <2>4. pass' = [pass EXCEPT ![k] = p]
    BY <2>1 DEF SensorInv, PassesOK
  <2> HIDE DEF p
  <2>5. PassOK(p, NotForeign)
    BY <1>1, <2>2, <2>3 DEF PassOK, Deleting, Building
  <2> QED
    BY <1>2, <2>4, <2>5, ReadsOnly
<1>6. CASE pass' = [pass EXCEPT ![k] = IdlePass]
  BY <1>2, <1>6, IdlePassOK, ReadsOnly
<1> QED
  BY <1>3, <1>4, <1>5, <1>6 DEF PickSensor

LEMMA FindQueueKeeps ==
  ASSUME SensorInv, NEW k \in AllPasses, FindQueue(k)
  PROVE  SensorInv'
<1> DEFINE q     == pass[k]
           there == queue[q.cur] # "none"
           pc    == IF there THEN "unsubscribe" ELSE "stop"
           p     == [q EXCEPT !.found = there, !.pc = pc]
<1>1. PassOK(q, NotForeign) /\ q.pc = "find"
  BY DEF SensorInv, PassesOK, FindQueue
<1>2. there \in BOOLEAN /\ pc \in {"unsubscribe", "stop"}
  OBVIOUS
<1>3. pass' = [pass EXCEPT ![k] = p] /\ SensorCounts'
  BY DEF FindQueue, SensorInv, PassesOK, SensorCounts
<1> HIDE DEF there, pc
<1>4. p \in Pass /\ p.pc = pc /\ p.cur = q.cur /\ p.drop = q.drop
      /\ p.desired = q.desired /\ p.queues = q.queues /\ p.plain = q.plain
  BY <1>1, <1>2 DEF PassOK, Pass
<1> HIDE DEF p
<1>5. PassOK(p, NotForeign)
  BY <1>1, <1>2, <1>4 DEF PassOK, Deleting, Building
<1> QED
  BY <1>3, <1>5, ReadsOnly DEF FindQueue

-----------------------------------------------------------------------------
(* What a pass calls.  No call makes a queue somebody else's or ours.      *)

LEMMA SensorAt ==
  ASSUME SensorInv, NEW k \in AllPasses
  PROVE  /\ pass[k].pc \in Deleting => /\ pass[k].cur \in Sensors
                                       /\ queue[pass[k].cur] # "foreign"
                                       /\ pass[k].cur \notin pass[k].desired
         /\ pass[k].pc \in Building => pass[k].cur \in Sensors
         /\ \A s \in pass[k].plain : queue[s] # "foreign"
BY DEF SensorInv, PassesOK, PassOK, NotForeign

LEMMA RestStays ==
  ASSUME SensorInv, UNCHANGED <<wanted, sensorEdits, sensorFaults, reaper>>
  PROVE  WantedOK' /\ SensorCounts' /\ ReaperOK'
BY DEF SensorInv, WantedOK, SensorCounts, ReaperOK


LEMMA UnsubscribeKeeps ==
  ASSUME SensorInv, NEW k \in AllPasses, Unsubscribe(k)
  PROVE  SensorInv'
<1>1. pass[k].pc \in Deleting /\ pass[k].cur \in Sensors
  BY SensorAt DEF Unsubscribe, Deleting
<1>2. AwsOK'
  BY <1>1 DEF Unsubscribe, SensorInv, AwsOK
<1>3. NotForeign' = NotForeign
  BY <1>1 DEF Unsubscribe, NotForeign, SensorInv, AwsOK
<1>4. Goto(k, "stop")
  BY DEF Unsubscribe
<1>5. PassesOK'
  BY <1>1, <1>3, <1>4, GotoMoves, NextSensorMoves DEF SensorInv, Deleting
<1>6. WantedOK' /\ SensorCounts' /\ ReaperOK'
  BY RestStays DEF Unsubscribe
<1> QED
  BY <1>2, <1>5, <1>6 DEF SensorInv

LEMMA StopSensorServiceKeeps ==
  ASSUME SensorInv, NEW k \in AllPasses, StopSensorService(k)
  PROVE  SensorInv'
<1>1. pass[k].pc \in Deleting /\ pass[k].cur \in Sensors
  BY SensorAt DEF StopSensorService, Deleting
<1>2. AwsOK'
  BY <1>1 DEF StopSensorService, SensorInv, AwsOK
<1>3. NotForeign' = NotForeign
  BY <1>1 DEF StopSensorService, NotForeign, SensorInv, AwsOK
<1>4. Goto(k, "deleteQueue") \/ Goto(k, "deleteService") \/ NextSensor(k)
  BY DEF StopSensorService
<1>5. PassesOK'
  BY <1>1, <1>3, <1>4, GotoMoves, NextSensorMoves DEF SensorInv, Deleting
<1>6. WantedOK' /\ SensorCounts' /\ ReaperOK'
  BY RestStays DEF StopSensorService
<1> QED
  BY <1>2, <1>5, <1>6 DEF SensorInv

LEMMA DeleteSensorServiceKeeps ==
  ASSUME SensorInv, NEW k \in AllPasses, DeleteSensorService(k)
  PROVE  SensorInv'
<1>1. pass[k].pc \in Deleting /\ pass[k].cur \in Sensors
  BY SensorAt DEF DeleteSensorService, Deleting
<1>2. AwsOK'
  BY <1>1 DEF DeleteSensorService, SensorInv, AwsOK
<1>3. NotForeign' = NotForeign
  BY <1>1 DEF DeleteSensorService, NotForeign, SensorInv, AwsOK
<1>4. Goto(k, "deleteQueue")
  BY DEF DeleteSensorService
<1>5. PassesOK'
  BY <1>1, <1>3, <1>4, GotoMoves, NextSensorMoves DEF SensorInv, Deleting
<1>6. WantedOK' /\ SensorCounts' /\ ReaperOK'
  BY RestStays DEF DeleteSensorService
<1> QED
  BY <1>2, <1>5, <1>6 DEF SensorInv

LEMMA DeleteSensorQueueKeeps ==
  ASSUME SensorInv, NEW k \in AllPasses, DeleteSensorQueue(k)
  PROVE  SensorInv'
<1>1. pass[k].pc \in Deleting /\ pass[k].cur \in Sensors
  BY SensorAt DEF DeleteSensorQueue, Deleting
<1>2. AwsOK'
  BY <1>1 DEF DeleteSensorQueue, SensorInv, AwsOK
<1>3. NotForeign' = NotForeign
  BY <1>1, SensorAt DEF DeleteSensorQueue, NotForeign, SensorInv, AwsOK
<1>4. NextSensor(k)
  BY DEF DeleteSensorQueue
<1>5. PassesOK'
  BY <1>1, <1>3, <1>4, GotoMoves, NextSensorMoves DEF SensorInv, Deleting
<1>6. WantedOK' /\ SensorCounts' /\ ReaperOK'
  BY RestStays DEF DeleteSensorQueue
<1> QED
  BY <1>2, <1>5, <1>6 DEF SensorInv

LEMMA CreateSensorQueueKeeps ==
  ASSUME SensorInv, NEW k \in AllPasses, CreateSensorQueue(k)
  PROVE  SensorInv'
<1>1. pass[k].pc \in Building /\ pass[k].cur \in Sensors
  BY SensorAt DEF CreateSensorQueue, Building
<1>2. AwsOK'
  BY <1>1 DEF CreateSensorQueue, SensorInv, AwsOK
<1>3. NotForeign' = NotForeign
  BY <1>1 DEF CreateSensorQueue, NotForeign, SensorInv, AwsOK
<1>4. Goto(k, "subscribe")
  BY DEF CreateSensorQueue
<1>5. PassesOK'
  BY <1>1, <1>3, <1>4, GotoMoves, NextSensorMoves DEF SensorInv, Building
<1>6. WantedOK' /\ SensorCounts' /\ ReaperOK'
  BY RestStays DEF CreateSensorQueue
<1> QED
  BY <1>2, <1>5, <1>6 DEF SensorInv

LEMMA SubscribeQueueKeeps ==
  ASSUME SensorInv, NEW k \in AllPasses, SubscribeQueue(k)
  PROVE  SensorInv'
<1>1. pass[k].pc \in Building /\ pass[k].cur \in Sensors
  BY SensorAt DEF SubscribeQueue, Building
<1>2. AwsOK'
  BY <1>1 DEF SubscribeQueue, SensorInv, AwsOK
<1>3. NotForeign' = NotForeign
  BY <1>1 DEF SubscribeQueue, NotForeign, SensorInv, AwsOK
<1>4. Goto(k, "ensure") \/ NextSensor(k)
  BY DEF SubscribeQueue
<1>5. PassesOK'
  BY <1>1, <1>3, <1>4, GotoMoves, NextSensorMoves DEF SensorInv, Building
<1>6. WantedOK' /\ SensorCounts' /\ ReaperOK'
  BY RestStays DEF SubscribeQueue
<1> QED
  BY <1>2, <1>5, <1>6 DEF SensorInv

LEMMA EnsureSensorServiceKeeps ==
  ASSUME SensorInv, NEW k \in AllPasses, EnsureSensorService(k)
  PROVE  SensorInv'
<1>1. pass[k].pc \in Building /\ pass[k].cur \in Sensors
  BY SensorAt DEF EnsureSensorService, Building
<1>2. AwsOK'
  BY <1>1 DEF EnsureSensorService, SensorInv, AwsOK
<1>3. NotForeign' = NotForeign
  BY <1>1 DEF EnsureSensorService, NotForeign, SensorInv, AwsOK
<1>4. NextSensor(k)
  BY DEF EnsureSensorService
<1>5. PassesOK'
  BY <1>1, <1>3, <1>4, GotoMoves, NextSensorMoves DEF SensorInv, Building
<1>6. WantedOK' /\ SensorCounts' /\ ReaperOK'
  BY RestStays DEF EnsureSensorService
<1> QED
  BY <1>2, <1>5, <1>6 DEF SensorInv

LEMMA TagQueueKeeps ==
  ASSUME SensorInv, NEW k \in AllPasses, TagQueue(k)
  PROVE  SensorInv'
<1>1. pass[k].pc \in Building /\ pass[k].cur \in Sensors
  BY SensorAt DEF TagQueue, Building
<1>2. AwsOK'
  BY <1>1 DEF TagQueue, SensorInv, AwsOK
<1>3. NotForeign' = NotForeign
  BY <1>1, SensorAt DEF TagQueue, NotForeign, SensorInv, AwsOK
<1>4. Goto(k, "tagService") \/ NextSensor(k)
  BY DEF TagQueue
<1>5. PassesOK'
  BY <1>1, <1>3, <1>4, GotoMoves, NextSensorMoves DEF SensorInv, Building
<1>6. WantedOK' /\ SensorCounts' /\ ReaperOK'
  BY RestStays DEF TagQueue
<1> QED
  BY <1>2, <1>5, <1>6 DEF SensorInv

LEMMA TagServiceKeeps ==
  ASSUME SensorInv, NEW k \in AllPasses, TagService(k)
  PROVE  SensorInv'
<1>1. pass[k].pc \in Building /\ pass[k].cur \in Sensors
  BY SensorAt DEF TagService, Building
<1>2. AwsOK'
  BY <1>1 DEF TagService, SensorInv, AwsOK
<1>3. NotForeign' = NotForeign
  BY <1>1 DEF TagService, NotForeign, SensorInv, AwsOK
<1>4. Goto(k, "restart") \/ NextSensor(k)
  BY DEF TagService
<1>5. PassesOK'
  BY <1>1, <1>3, <1>4, GotoMoves, NextSensorMoves DEF SensorInv, Building
<1>6. WantedOK' /\ SensorCounts' /\ ReaperOK'
  BY RestStays DEF TagService
<1> QED
  BY <1>2, <1>5, <1>6 DEF SensorInv

LEMMA RestartTasksKeeps ==
  ASSUME SensorInv, NEW k \in AllPasses, RestartTasks(k)
  PROVE  SensorInv'
<1>1. pass[k].pc \in Building /\ pass[k].cur \in Sensors
  BY SensorAt DEF RestartTasks, Building
<1>2. AwsOK'
  BY <1>1 DEF RestartTasks, SensorInv, AwsOK
<1>3. NotForeign' = NotForeign
  BY <1>1 DEF RestartTasks, NotForeign, SensorInv, AwsOK
<1>4. NextSensor(k)
  BY DEF RestartTasks
<1>5. PassesOK'
  BY <1>1, <1>3, <1>4, GotoMoves, NextSensorMoves DEF SensorInv, Building
<1>6. WantedOK' /\ SensorCounts' /\ ReaperOK'
  BY RestStays DEF RestartTasks
<1> QED
  BY <1>2, <1>5, <1>6 DEF SensorInv

LEMMA ServiceDrainedKeeps ==
  ASSUME SensorInv, NEW s \in Sensors, ServiceDrained(s)
  PROVE  SensorInv'
<1>1. AwsOK' /\ NotForeign' = NotForeign
  BY DEF ServiceDrained, SensorInv, AwsOK, NotForeign
<1>2. PassesOK'
  BY <1>1 DEF ServiceDrained, SensorInv, PassesOK
<1>3. WantedOK' /\ SensorCounts' /\ ReaperOK'
  BY RestStays DEF ServiceDrained
<1> QED
  BY <1>1, <1>2, <1>3 DEF SensorInv

LEMMA SensorCallFailsKeeps ==
  ASSUME SensorInv, NEW k \in AllPasses, SensorCallFails(k)
  PROVE  SensorInv'
<1>1. UNCHANGED <<queue, subscribed, service, serviceTag, taskTag>>
  BY DEF SensorCallFails, sensorAws
<1>2. AwsOK' /\ NotForeign' = NotForeign /\ WantedOK' /\ ReaperOK'
  BY <1>1 DEF SensorCallFails, SensorInv, AwsOK, NotForeign, WantedOK, ReaperOK
<1>3. PassesOK'
  BY <1>2, NextSensorMoves DEF SensorInv, SensorCallFails
<1>4. SensorCounts'
  BY SensorFaultCounts DEF SensorInv, SensorCallFails
<1> QED
  BY <1>2, <1>3, <1>4 DEF SensorInv

LEMMA PassDiesKeeps ==
  ASSUME SensorInv, NEW k \in AllPasses, PassDies(k)
  PROVE  SensorInv'
<1>1. SensorCounts'
  BY SensorFaultCounts DEF SensorInv, PassDies
<1> QED
  BY <1>1, IdlePassOK, ReadsOnly DEF PassDies

LEMMA ReaperKeeps ==
  ASSUME SensorInv, StackDeleted \/ PollReaper \/ PollFails
  PROVE  SensorInv'
<1>1. UNCHANGED <<wanted, queue, subscribed, service, serviceTag, taskTag>>
  BY DEF StackDeleted, PollReaper, PollFails, sensorAws
<1>2. AwsOK' /\ NotForeign' = NotForeign /\ WantedOK' /\ ReaperOK'
  BY <1>1 DEF StackDeleted, PollReaper, PollFails, SensorInv, AwsOK, NotForeign, WantedOK, ReaperOK
<1>3. SensorCounts'
  BY SensorFaultCounts DEF StackDeleted, PollReaper, PollFails, SensorInv, SensorCounts
<1>4. PassesOK'
  <2>1. CASE StackDeleted
    <3> DEFINE p == [IdlePass EXCEPT !.pc = "queues"]
    <3>1. p \in Pass /\ p.pc = "queues" /\ p.queues = {} /\ p.plain = {} /\ p.drop = {}
      BY DEF Pass, IdlePass
    <3>2. PassOK(p, NotForeign)
      BY <3>1 DEF PassOK, Deleting, Building
    <3>3. Reaper \in AllPasses /\ pass' = [pass EXCEPT ![Reaper] = p]
      BY <2>1 DEF StackDeleted, AllPasses
    <3> HIDE DEF p
    <3> QED
      BY <1>2, <3>2, <3>3, PassMoves DEF SensorInv
  <2>2. CASE PollReaper \/ PollFails
    BY <1>2, <2>2 DEF PollReaper, PollFails, SensorInv, PassesOK
  <2> QED
    BY <2>1, <2>2
<1> QED
  BY <1>2, <1>3, <1>4 DEF SensorInv

LEMMA SensorInvStep == SensorInv /\ [SensorNext]_sensorVars => SensorInv'
<1> SUFFICES ASSUME SensorInv, [SensorNext]_sensorVars PROVE SensorInv'
  OBVIOUS
<1>1. CASE UNCHANGED sensorVars
  BY <1>1 DEF sensorVars, sensorAws, SensorInv, WantedOK, SensorCounts, AwsOK, PassesOK,
     ReaperOK, NotForeign
<1>2. ASSUME NEW s \in Sensors, AddSensorRow(s) \/ SwitchSensor(s) \/ RemoveSensorRow(s)
      PROVE  SensorInv'
  BY <1>2, EditRowKeeps DEF AddSensorRow, SwitchSensor, RemoveSensorRow
<1>3. ASSUME NEW s \in Sensors, ServiceDrained(s)
      PROVE  SensorInv'
  BY <1>3, ServiceDrainedKeeps
<1>4. ASSUME NEW k \in AllPasses, PassStep(k)
      PROVE  SensorInv'
  BY <1>4, StartPassKeeps, ListOwnedQueuesKeeps, ListClusterServicesKeeps, PickSensorKeeps,
     FindQueueKeeps, UnsubscribeKeeps, StopSensorServiceKeeps, DeleteSensorServiceKeeps,
     DeleteSensorQueueKeeps, CreateSensorQueueKeeps, SubscribeQueueKeeps,
     EnsureSensorServiceKeeps, TagQueueKeeps, TagServiceKeeps, RestartTasksKeeps
     DEF PassStep, WorkStep
<1>5. ASSUME NEW k \in AllPasses, SensorCallFails(k) \/ PassDies(k)
      PROVE  SensorInv'
  BY <1>5, SensorCallFailsKeeps, PassDiesKeeps
<1> QED
  BY <1>1, <1>2, <1>3, <1>4, <1>5, ReaperKeeps DEF SensorNext

LEMMA SensorInvAlways == SensorSpec => []SensorInv
<1>1. SensorInit => SensorInv
  BY SensorInitially
<1> QED
  BY <1>1, SensorInvStep, PTL DEF SensorSpec

-----------------------------------------------------------------------------
(* What a call does to AWS: a pass that takes a sensor down touches the    *)
(* one it is at, which was not desired; one that builds takes nothing away *)
(* and never writes on a queue of somebody else.                           *)

LEMMA TakesDown ==
  ASSUME SensorInv, NEW k \in AllPasses, NEW s \in Sensors,
         Unsubscribe(k) \/ StopSensorService(k) \/ DeleteSensorService(k)
           \/ DeleteSensorQueue(k)
  PROVE  /\ queue[s] = "foreign" => queue'[s] = "foreign"
         /\ s \in pass[k].desired /\ Working(s) => Working(s)'
<1>1. /\ pass[k].pc \in Deleting /\ pass[k].cur \in Sensors
      /\ queue[pass[k].cur] # "foreign" /\ pass[k].cur \notin pass[k].desired
  BY SensorAt DEF Unsubscribe, StopSensorService, DeleteSensorService, DeleteSensorQueue,
     Deleting
<1>2. CASE Unsubscribe(k)
  BY <1>1, <1>2 DEF Unsubscribe, Working
<1>3. CASE StopSensorService(k)
  BY <1>1, <1>3 DEF StopSensorService, Working, SensorInv, AwsOK
<1>4. CASE DeleteSensorService(k)
  BY <1>1, <1>4 DEF DeleteSensorService, Working, SensorInv, AwsOK
<1>5. CASE DeleteSensorQueue(k)
  BY <1>1, <1>5 DEF DeleteSensorQueue, Working, SensorInv, AwsOK
<1> QED
  BY <1>2, <1>3, <1>4, <1>5

LEMMA BuildsUp ==
  ASSUME SensorInv, NEW k \in AllPasses, NEW s \in Sensors,
         \/ CreateSensorQueue(k) \/ SubscribeQueue(k) \/ EnsureSensorService(k)
         \/ TagQueue(k) \/ TagService(k) \/ RestartTasks(k)
  PROVE  /\ queue[s] = "foreign" => queue'[s] = "foreign"
         /\ Working(s) => Working(s)'
<1>1. /\ pass[k].pc \in Building /\ pass[k].cur \in Sensors
      /\ \A t \in pass[k].plain : queue[t] # "foreign"
  BY SensorAt DEF CreateSensorQueue, SubscribeQueue, EnsureSensorService, TagQueue,
     TagService, RestartTasks, Building
<1>2. CASE CreateSensorQueue(k)
  BY <1>1, <1>2 DEF CreateSensorQueue, Working, SensorInv, AwsOK
<1>3. CASE SubscribeQueue(k)
  BY <1>1, <1>3 DEF SubscribeQueue, Working
<1>4. CASE EnsureSensorService(k)
  BY <1>1, <1>4 DEF EnsureSensorService, Working, SensorInv, AwsOK
<1>5. CASE TagQueue(k)
  BY <1>1, <1>5 DEF TagQueue, Working, SensorInv, AwsOK
<1>6. CASE TagService(k) \/ RestartTasks(k)
  BY <1>6 DEF TagService, RestartTasks, Working
<1> QED
  BY <1>2, <1>3, <1>4, <1>5, <1>6

LEMMA LeavesAwsAlone ==
  ASSUME NEW k, NEW t,
         \/ AddSensorRow(t) \/ SwitchSensor(t) \/ RemoveSensorRow(t)
         \/ StartPass(k) \/ ListOwnedQueues(k) \/ ListClusterServices(k)
         \/ PickSensor(k) \/ FindQueue(k) \/ SensorCallFails(k) \/ PassDies(k)
         \/ StackDeleted \/ PollReaper \/ PollFails
  PROVE  UNCHANGED <<queue, subscribed, service>>
BY DEF AddSensorRow, SwitchSensor, RemoveSensorRow, EditRow, StartPass, ListOwnedQueues,
   ListClusterServices, PickSensor, FindQueue, SensorCallFails, PassDies, StackDeleted,
   PollReaper, PollFails, sensorAws

LEMMA OnePassWorks ==
  ASSUME SensorInv, NEW s \in Sensors, NEW k \in AllPasses, PassStep(k)
  PROVE  /\ queue[s] = "foreign" => queue'[s] = "foreign"
         /\ (Working(s) /\ (pass[k].pc = "idle" \/ s \in pass[k].desired)) => Working(s)'
<1>1. CASE \/ StartPass(k) \/ ListOwnedQueues(k) \/ ListClusterServices(k)
           \/ PickSensor(k) \/ FindQueue(k)
  BY <1>1, LeavesAwsAlone DEF Working
<1>2. CASE Unsubscribe(k) \/ StopSensorService(k) \/ DeleteSensorService(k)
             \/ DeleteSensorQueue(k)
  <2>1. pass[k].pc # "idle"
    BY <1>2 DEF Unsubscribe, StopSensorService, DeleteSensorService, DeleteSensorQueue
  <2> QED
    BY <1>2, <2>1, TakesDown
<1>3. CASE \/ CreateSensorQueue(k) \/ SubscribeQueue(k) \/ EnsureSensorService(k)
           \/ TagQueue(k) \/ TagService(k) \/ RestartTasks(k)
  BY <1>3, BuildsUp
<1> QED
  BY <1>1, <1>2, <1>3 DEF PassStep, WorkStep

LEMMA AwsStep ==
  ASSUME SensorInv, [SensorNext]_sensorVars, NEW s \in Sensors
  PROVE  /\ queue[s] = "foreign" => queue'[s] = "foreign"
         /\ (/\ Working(s)
             /\ \A k \in AllPasses : pass[k].pc = "idle" \/ s \in pass[k].desired)
              => Working(s)'
<1>1. CASE UNCHANGED sensorVars
  BY <1>1 DEF sensorVars, sensorAws, Working
<1>2. ASSUME NEW t \in Sensors, AddSensorRow(t) \/ SwitchSensor(t) \/ RemoveSensorRow(t)
      PROVE  UNCHANGED <<queue, subscribed, service>>
  BY <1>2, LeavesAwsAlone
<1>3. ASSUME NEW t \in Sensors, ServiceDrained(t)
      PROVE  queue' = queue /\ (Working(s) => Working(s)')
  BY <1>3 DEF ServiceDrained, Working, SensorInv, AwsOK
<1>4. ASSUME NEW k \in AllPasses, SensorCallFails(k) \/ PassDies(k)
      PROVE  UNCHANGED <<queue, subscribed, service>>
  BY <1>4, LeavesAwsAlone
<1>5. CASE StackDeleted \/ PollReaper \/ PollFails
  BY <1>5, LeavesAwsAlone DEF Working
<1>6. CASE \E t \in Sensors :
        AddSensorRow(t) \/ SwitchSensor(t) \/ RemoveSensorRow(t) \/ ServiceDrained(t)
  BY <1>2, <1>3, <1>6 DEF Working
<1>7. CASE \E k \in AllPasses : PassStep(k) \/ SensorCallFails(k) \/ PassDies(k)
  BY <1>4, <1>7, OnePassWorks DEF Working
<1> QED
  BY <1>1, <1>5, <1>6, <1>7 DEF SensorNext

(* Passes of converge overlap, die and go on from what they have read, and *)
(* still none deletes or tags the queue of another deployment, or takes a  *)
(* working sensor down that every pass under way has read as desired: for  *)
(* any sensors and any number of passes, edits and failures (converge).    *)
THEOREM ConvergeDoesNoHarm == SensorSpec => PassesDoNoHarm
<1>1. SensorInv => SensorTypeOK
  BY DEF SensorInv, WantedOK, SensorCounts, AwsOK, PassesOK, ReaperOK, Pass, SensorTypeOK
<1>2. SensorInv /\ [SensorNext]_sensorVars =>
        [\A s \in Sensors : queue[s] = "foreign" => queue'[s] = "foreign"]_sensorVars
  BY AwsStep
<1>3. SensorInv /\ [SensorNext]_sensorVars =>
        [\A s \in Sensors :
           (/\ wanted[s] = "on" /\ Working(s) /\ wanted'[s] = "on"
            /\ \A k \in AllPasses : pass[k].pc = "idle" \/ s \in pass[k].desired)
             => Working(s)']_sensorVars
  BY AwsStep
<1>4. SensorSpec => []SensorTypeOK
  BY <1>1, SensorInvAlways, PTL
<1>5. SensorSpec => ForeignQueueKept
  BY <1>2, SensorInvAlways, PTL DEF SensorSpec, ForeignQueueKept
<1>6. SensorSpec => HealthyLeftAlone
  BY <1>3, SensorInvAlways, PTL DEF SensorSpec, HealthyLeftAlone
<1> QED
  BY <1>4, <1>5, <1>6 DEF PassesDoNoHarm

-----------------------------------------------------------------------------
(* THE STACK.  The reaper refers to what its calls name, and along the     *)
(* template to the network; what a destroy meets depends on how far the    *)
(* reaper is, on the queue it found, and on the calls that have failed.    *)

(* What exists is closed under what the reaper, directly or through the    *)
(* template and the cache, refers to.                                      *)
Supported ==
  /\ "reaper" \in live => {"cluster", "topics", "template"} \subseteq live
  /\ "template" \in live => "cache" \in live
  /\ "cache" \in live => "network" \in live

DeployCounts ==
  /\ stack \in {"absent", "creating", "rollback"} => deploys = 0
  /\ stack = "creating" /\ "deployPass" \notin live => invoked = 0
  /\ stack = "up" => live = Groups
  /\ stack = "gone" => live = {}

Ending == {"deleting", "stuck", "gone"}

(* The reaper is there until a poll takes its Delete for done.             *)
ReapStage ==
  /\ stack \notin Ending => reap = "none"
  /\ stack \in Ending => ("reaper" \in live <=> reap \notin {"done", "early"})

(* A destroy that began with a queue: only a second failure lets it stay   *)
(* behind the reaper, and only a first one the service.                    *)
DestroyStage ==
  stack \in Ending /\ had =>
    /\ reap = "none" => stackQueue = "here"
    /\ reap = "polling" =>
         stackQueue = "cooling" \/ (stackQueue = "here" /\ stackFaults >= 1)
    /\ reap = "polling" /\ stackFaults = 0 => stackService # "running"
    /\ reap \in {"done", "early"} => stackQueue = "cooling" \/ stackFaults >= 2
    /\ reap = "done" /\ stackFaults = 0 => stackQueue = "cooling" /\ stackService = "none"
    /\ "cluster" \notin live => stackService = "none"

StackInv ==
  StackTypeOK /\ Supported /\ DeployCounts /\ ReapStage /\ DestroyStage /\ NotStranded

(* A group is declared once: the table that has it says what it needs.     *)
LEMMA DeclaredOnce ==
  ASSUME NEW t \in Tables
  PROVE  /\ "reaper" \in DOMAIN t => t = ReaperNeeds
         /\ "template" \in DOMAIN t => t = ClusterNeeds
         /\ "cache" \in DOMAIN t => t = StoreNeeds
<1>1. CASE t \in {NetworkNeeds, StoreNeeds, ClientNeeds, ReadNeeds, ClientApiNeeds, WsApiNeeds}
  BY <1>1 DEF NetworkNeeds, StoreNeeds, ClientNeeds, ReadNeeds, ClientApiNeeds, WsApiNeeds
<1>2. CASE t \in {TopicNeeds, LayerNeeds, ClusterNeeds, SpatNeeds, ConsoleNeeds, MasterUserNeeds}
  BY <1>2 DEF TopicNeeds, LayerNeeds, ClusterNeeds, SpatNeeds, ConsoleNeeds, MasterUserNeeds
<1>3. CASE t \in {AdminApiNeeds, RoleNeeds, GithubNeeds, WebhookNeeds, VpcLambdaNeeds}
  BY <1>3 DEF AdminApiNeeds, RoleNeeds, GithubNeeds, WebhookNeeds, VpcLambdaNeeds
<1>4. CASE t \in {ReaperNeeds, ReconcileNeeds, RouteNeeds, McpNeeds, AccessLogNeeds}
  BY <1>4 DEF ReaperNeeds, ReconcileNeeds, RouteNeeds, McpNeeds, AccessLogNeeds
<1> QED
  BY <1>1, <1>2, <1>3, <1>4 DEF Tables

LEMMA ReaperRefers ==
  /\ {"reaper", "template", "cache"} \subseteq Groups
  /\ {"cluster", "topics", "template"} \subseteq Needs["reaper"]
  /\ "cache" \in Needs["template"] /\ "network" \in Needs["cache"]
<1>1. {ReaperNeeds, ClusterNeeds, StoreNeeds} \subseteq Tables
  BY DEF Tables
<1>2. "reaper" \in DOMAIN ReaperNeeds /\ {"cluster", "topics", "template"} \subseteq ReaperNeeds["reaper"]
  BY DEF ReaperNeeds
<1>3. "template" \in DOMAIN ClusterNeeds /\ "cache" \in ClusterNeeds["template"]
  BY DEF ClusterNeeds
<1>4. "cache" \in DOMAIN StoreNeeds /\ "network" \in StoreNeeds["cache"]
  BY DEF StoreNeeds
<1>5. {"reaper", "template", "cache"} \subseteq Groups
  BY <1>1, <1>2, <1>3, <1>4 DEF Groups
<1>6. (CHOOSE t \in Tables : "reaper" \in DOMAIN t) = ReaperNeeds
  BY <1>1, <1>2, DeclaredOnce
<1>7. (CHOOSE t \in Tables : "template" \in DOMAIN t) = ClusterNeeds
  BY <1>1, <1>3, DeclaredOnce
<1>8. (CHOOSE t \in Tables : "cache" \in DOMAIN t) = StoreNeeds
  BY <1>1, <1>4, DeclaredOnce
<1> QED
  BY <1>2, <1>3, <1>4, <1>5, <1>6, <1>7, <1>8 DEF Needs

(* CloudFormation creates.                                                *)

LEMMA DeployKept ==
  ASSUME StackInv, Deploy
  PROVE  StackInv'
<1>1. StackTypeOK'
  BY StackConstants DEF StackInv, StackTypeOK, DeployCounts, Deploy, runtime
<1>2. Supported' /\ DeployCounts'
  BY DEF StackInv, StackTypeOK, Supported, DeployCounts, Deploy, runtime
<1>3. ReapStage' /\ DestroyStage'
  BY DEF StackInv, StackTypeOK, ReapStage, DestroyStage, Ending, Deploy, runtime
<1>4. NotStranded'
  BY DEF StackInv, StackTypeOK, NotStranded, Deploy, runtime
<1> QED
  BY <1>1, <1>2, <1>3, <1>4 DEF StackInv

LEMMA CreateWaveKept ==
  ASSUME StackInv, CreateWave
  PROVE  StackInv'
<1>1. StackTypeOK'
  <2>1. live' \subseteq Groups
    BY DEF StackInv, StackTypeOK, CreateWave, Creatable
  <2>2. deploys = 0 /\ ("deployPass" \notin live => invoked = 0)
    BY DEF StackInv, DeployCounts, CreateWave
  <2>3. /\ stackPass' \in {"idle", "saw", "missed"}
        /\ deploys' = deploys /\ invoked' \in 0..deploys + 1
    BY <2>2 DEF CreateWave, Seen, StackInv, StackTypeOK
  <2> QED
    BY <2>1, <2>3 DEF StackInv, StackTypeOK, CreateWave
<1>2. Supported' /\ DeployCounts'
  BY ReaperRefers DEF StackInv, StackTypeOK, Supported, DeployCounts, CreateWave,
     Creatable, Seen
<1>3. ReapStage' /\ DestroyStage'
  BY DEF StackInv, StackTypeOK, ReapStage, DestroyStage, Ending, CreateWave,
     Creatable, Seen
<1>4. NotStranded'
  BY DEF StackInv, StackTypeOK, NotStranded, CreateWave, Creatable, Seen
<1> QED
  BY <1>1, <1>2, <1>3, <1>4 DEF StackInv

LEMMA CreateDoneKept ==
  ASSUME StackInv, CreateDone
  PROVE  StackInv'
<1>1. StackTypeOK'
  BY StackConstants DEF StackInv, StackTypeOK, DeployCounts, CreateDone, runtime
<1>2. Supported' /\ DeployCounts'
  BY DEF StackInv, StackTypeOK, Supported, DeployCounts, CreateDone, runtime
<1>3. ReapStage' /\ DestroyStage'
  BY DEF StackInv, StackTypeOK, Supported, DeployCounts, ReapStage, DestroyStage,
     Ending, CreateDone, runtime
<1>4. NotStranded'
  BY DEF StackInv, StackTypeOK, NotStranded, CreateDone, runtime
<1> QED
  BY <1>1, <1>2, <1>3, <1>4 DEF StackInv

LEMMA CreateFailsKept ==
  ASSUME StackInv, CreateFails
  PROVE  StackInv'
<1>1. StackTypeOK'
  BY StackConstants DEF StackInv, StackTypeOK, CreateFails, runtime, counts,
     StackFault
<1>2. Supported' /\ DeployCounts'
  BY DEF StackInv, StackTypeOK, Supported, DeployCounts, CreateFails, runtime,
     counts, StackFault
<1>3. ReapStage' /\ DestroyStage'
  BY DEF StackInv, StackTypeOK, ReapStage, DestroyStage, Ending, CreateFails,
     runtime, counts, StackFault
<1>4. NotStranded'
  BY DEF StackInv, StackTypeOK, NotStranded, CreateFails, runtime, counts,
     StackFault
<1> QED
  BY <1>1, <1>2, <1>3, <1>4 DEF StackInv

LEMMA RedeployKept ==
  ASSUME StackInv, Redeploy
  PROVE  StackInv'
<1>1. StackTypeOK'
  BY StackConstants DEF StackInv, StackTypeOK, Redeploy, Seen
<1>2. Supported' /\ DeployCounts'
  BY DEF StackInv, StackTypeOK, Supported, DeployCounts, Redeploy, Seen
<1>3. ReapStage' /\ DestroyStage'
  BY DEF StackInv, StackTypeOK, ReapStage, DestroyStage, Ending, Redeploy, Seen
<1>4. NotStranded'
  BY DEF StackInv, StackTypeOK, NotStranded, Redeploy, Seen
<1> QED
  BY <1>1, <1>2, <1>3, <1>4 DEF StackInv

LEMMA DestroyKept ==
  ASSUME StackInv, Destroy
  PROVE  StackInv'
<1>1. StackTypeOK'
  BY DEF StackInv, StackTypeOK, Destroy, runtime, counts
<1>2. Supported' /\ DeployCounts'
  BY DEF StackInv, StackTypeOK, Supported, DeployCounts, Destroy, runtime, counts
<1>3. ReapStage' /\ DestroyStage'
  BY ReaperRefers DEF StackInv, StackTypeOK, Supported, DeployCounts, ReapStage,
     DestroyStage, Ending, Destroy, runtime, counts
<1>4. NotStranded'
  BY DEF StackInv, StackTypeOK, NotStranded, Destroy, runtime, counts
<1> QED
  BY <1>1, <1>2, <1>3, <1>4 DEF StackInv

(* CloudFormation deletes, in the order references allow.                 *)

LEMMA DeleteWaveKept ==
  ASSUME StackInv, DeleteWave
  PROVE  StackInv'
<1>1. StackTypeOK'
  BY DEF StackInv, StackTypeOK, DeleteWave, counts, Removable, Held
<1>2. Supported' /\ DeployCounts'
  BY ReaperRefers DEF StackInv, StackTypeOK, Supported, DeployCounts, DeleteWave,
     counts, Removable, Held
<1>3. ReapStage' /\ DestroyStage'
  BY DEF StackInv, StackTypeOK, ReapStage, DestroyStage, Ending, DeleteWave, counts,
     Removable, Held
<1>4. NotStranded'
  BY DEF StackInv, StackTypeOK, NotStranded, DeleteWave, counts, Removable, Held
<1> QED
  BY <1>1, <1>2, <1>3, <1>4 DEF StackInv

LEMMA ReaperRolledBackKept ==
  ASSUME StackInv, ReaperRolledBack
  PROVE  StackInv'
<1>1. StackTypeOK'
  BY DEF StackInv, StackTypeOK, ReaperRolledBack, runtime, counts
<1>2. Supported' /\ DeployCounts'
  BY DEF StackInv, StackTypeOK, Supported, DeployCounts, ReaperRolledBack, runtime,
     counts
<1>3. ReapStage' /\ DestroyStage'
  BY DEF StackInv, StackTypeOK, ReapStage, DestroyStage, Ending, ReaperRolledBack,
     runtime, counts
<1>4. NotStranded'
  BY DEF StackInv, StackTypeOK, NotStranded, ReaperRolledBack, runtime, counts
<1> QED
  BY <1>1, <1>2, <1>3, <1>4 DEF StackInv

LEMMA ClusterRefusesKept ==
  ASSUME StackInv, ClusterRefuses
  PROVE  StackInv'
<1>1. StackTypeOK'
  BY DEF StackInv, StackTypeOK, ClusterRefuses, runtime, counts, Removable, Held
<1>2. Supported' /\ DeployCounts'
  BY DEF StackInv, StackTypeOK, Supported, DeployCounts, ClusterRefuses, runtime,
     counts, Removable, Held
<1>3. ReapStage' /\ DestroyStage'
  BY DEF StackInv, StackTypeOK, ReapStage, DestroyStage, Ending, ClusterRefuses,
     runtime, counts, Removable, Held
<1>4. NotStranded'
  BY ReaperRefers DEF StackInv, StackTypeOK, Supported, ReapStage, DestroyStage,
     Ending, NotStranded, ClusterRefuses, runtime, counts, Removable, Held
<1> QED
  BY <1>1, <1>2, <1>3, <1>4 DEF StackInv

LEMMA NetworkHeldKept ==
  ASSUME StackInv, NetworkHeld
  PROVE  StackInv'
<1>1. StackTypeOK'
  BY DEF StackInv, StackTypeOK, NetworkHeld, runtime, counts, Removable
<1>2. Supported' /\ DeployCounts'
  BY DEF StackInv, StackTypeOK, Supported, DeployCounts, NetworkHeld, runtime,
     counts, Removable
<1>3. ReapStage' /\ DestroyStage'
  BY DEF StackInv, StackTypeOK, ReapStage, DestroyStage, Ending, NetworkHeld,
     runtime, counts, Removable
<1>4. NotStranded'
  BY ReaperRefers DEF StackInv, StackTypeOK, Supported, ReapStage, DestroyStage,
     Ending, NotStranded, NetworkHeld, runtime, counts, Removable
<1> QED
  BY <1>1, <1>2, <1>3, <1>4 DEF StackInv

LEMMA DeleteDoneKept ==
  ASSUME StackInv, DeleteDone
  PROVE  StackInv'
<1>1. StackTypeOK'
  BY DEF StackInv, StackTypeOK, DeleteDone, runtime, counts
<1>2. Supported' /\ DeployCounts'
  BY DEF StackInv, StackTypeOK, Supported, DeployCounts, DeleteDone, runtime, counts
<1>3. ReapStage' /\ DestroyStage'
  BY DEF StackInv, StackTypeOK, ReapStage, DestroyStage, Ending, DeleteDone,
     runtime, counts
<1>4. NotStranded'
  BY DEF StackInv, StackTypeOK, NotStranded, DeleteDone, runtime, counts
<1> QED
  BY <1>1, <1>2, <1>3, <1>4 DEF StackInv

(* The reaper.                                                             *)

LEMMA StartReapKept ==
  ASSUME StackInv, StartReap
  PROVE  StackInv'
<1>1. StackTypeOK'
  BY StackConstants DEF StackInv, StackTypeOK, StartReap, counts, StackFault
<1>2. Supported' /\ DeployCounts'
  BY DEF StackInv, StackTypeOK, Supported, DeployCounts, StartReap, counts,
     StackFault
<1>3. ReapStage' /\ DestroyStage'
  BY DEF StackInv, StackTypeOK, ReapStage, DestroyStage, Ending, StartReap, counts,
     StackFault
<1>4. NotStranded'
  BY DEF StackInv, StackTypeOK, NotStranded, StartReap, counts, StackFault
<1> QED
  BY <1>1, <1>2, <1>3, <1>4 DEF StackInv

LEMMA PollReapKept ==
  ASSUME StackInv, PollReap
  PROVE  StackInv'
<1>1. StackTypeOK'
  BY StackConstants DEF StackInv, StackTypeOK, PollReap, runtime, counts,
     StackFault
<1>2. Supported' /\ DeployCounts'
  BY DEF StackInv, StackTypeOK, Supported, DeployCounts, PollReap, runtime, counts,
     StackFault
<1>3. ReapStage' /\ DestroyStage'
  BY DEF StackInv, StackTypeOK, ReapStage, DestroyStage, Ending, PollReap, runtime,
     counts, StackFault
<1>4. NotStranded'
  BY DEF StackInv, StackTypeOK, NotStranded, PollReap, runtime, counts,
     StackFault
<1> QED
  BY <1>1, <1>2, <1>3, <1>4 DEF StackInv

LEMMA PollUnseenKept ==
  ASSUME StackInv, PollUnseen
  PROVE  StackInv'
<1>1. StackTypeOK'
  BY StackConstants DEF StackInv, StackTypeOK, PollUnseen, runtime, counts
<1>2. Supported' /\ DeployCounts'
  BY DEF StackInv, StackTypeOK, Supported, DeployCounts, PollUnseen, runtime, counts
<1>3. ReapStage' /\ DestroyStage'
  BY DEF StackInv, StackTypeOK, ReapStage, DestroyStage, Ending, PollUnseen, runtime,
     counts
<1>4. NotStranded'
  BY DEF StackInv, StackTypeOK, NotStranded, PollUnseen, runtime, counts
<1> QED
  BY <1>1, <1>2, <1>3, <1>4 DEF StackInv

LEMMA ReapTimesOutKept ==
  ASSUME StackInv, ReapTimesOut
  PROVE  StackInv'
<1>1. StackTypeOK'
  BY DEF StackInv, StackTypeOK, ReapTimesOut, runtime, counts
<1>2. Supported' /\ DeployCounts'
  BY DEF StackInv, StackTypeOK, Supported, DeployCounts, ReapTimesOut, runtime,
     counts
<1>3. ReapStage' /\ DestroyStage'
  BY DEF StackInv, StackTypeOK, ReapStage, DestroyStage, Ending, ReapTimesOut,
     runtime, counts
<1>4. NotStranded'
  BY DEF StackInv, StackTypeOK, Supported, ReapStage, DestroyStage, Ending,
     NotStranded, ReapTimesOut, runtime, counts
<1> QED
  BY <1>1, <1>2, <1>3, <1>4 DEF StackInv

(* What runs in the stack meanwhile.                                       *)

LEMMA AddSensorKept ==
  ASSUME StackInv, AddSensor
  PROVE  StackInv'
<1>1. StackTypeOK'
  BY DEF StackInv, StackTypeOK, AddSensor, counts, Seen
<1>2. Supported' /\ DeployCounts'
  BY DEF StackInv, StackTypeOK, Supported, DeployCounts, AddSensor, counts, Seen
<1>3. ReapStage' /\ DestroyStage'
  BY DEF StackInv, StackTypeOK, ReapStage, DestroyStage, Ending, AddSensor, counts,
     Seen
<1>4. NotStranded'
  BY DEF StackInv, StackTypeOK, NotStranded, AddSensor, counts, Seen
<1> QED
  BY <1>1, <1>2, <1>3, <1>4 DEF StackInv

LEMMA LaunchHostsKept ==
  ASSUME StackInv, LaunchHosts
  PROVE  StackInv'
<1>1. StackTypeOK'
  BY DEF StackInv, StackTypeOK, LaunchHosts, counts
<1>2. Supported' /\ DeployCounts'
  BY DEF StackInv, StackTypeOK, Supported, DeployCounts, LaunchHosts, counts
<1>3. ReapStage' /\ DestroyStage'
  BY DEF StackInv, StackTypeOK, ReapStage, DestroyStage, Ending, LaunchHosts, counts
<1>4. NotStranded'
  BY DEF StackInv, StackTypeOK, NotStranded, LaunchHosts, counts
<1> QED
  BY <1>1, <1>2, <1>3, <1>4 DEF StackInv

LEMMA ScheduledKept ==
  ASSUME StackInv, Scheduled
  PROVE  StackInv'
<1>1. StackTypeOK'
  BY DEF StackInv, StackTypeOK, Scheduled, counts, Seen
<1>2. Supported' /\ DeployCounts'
  BY DEF StackInv, StackTypeOK, Supported, DeployCounts, Scheduled, counts, Seen
<1>3. ReapStage' /\ DestroyStage'
  BY DEF StackInv, StackTypeOK, ReapStage, DestroyStage, Ending, Scheduled, counts,
     Seen
<1>4. NotStranded'
  BY DEF StackInv, StackTypeOK, NotStranded, Scheduled, counts, Seen
<1> QED
  BY <1>1, <1>2, <1>3, <1>4 DEF StackInv

LEMMA PassActsKept ==
  ASSUME StackInv, PassActs
  PROVE  StackInv'
<1>1. StackTypeOK'
  BY StackConstants DEF StackInv, StackTypeOK, PassActs, counts, StackFault
<1>2. Supported' /\ DeployCounts'
  BY DEF StackInv, StackTypeOK, Supported, DeployCounts, PassActs, counts,
     StackFault
<1>3. ReapStage' /\ DestroyStage'
  BY DEF StackInv, StackTypeOK, ReapStage, DestroyStage, Ending, PassActs, counts,
     StackFault
<1>4. NotStranded'
  BY DEF StackInv, StackTypeOK, NotStranded, PassActs, counts, StackFault
<1> QED
  BY <1>1, <1>2, <1>3, <1>4 DEF StackInv

LEMMA DrainedKept ==
  ASSUME StackInv, Drained
  PROVE  StackInv'
<1>1. StackTypeOK'
  BY DEF StackInv, StackTypeOK, Drained, counts
<1>2. Supported' /\ DeployCounts'
  BY DEF StackInv, StackTypeOK, Supported, DeployCounts, Drained, counts
<1>3. ReapStage' /\ DestroyStage'
  BY DEF StackInv, StackTypeOK, ReapStage, DestroyStage, Ending, Drained, counts
<1>4. NotStranded'
  BY DEF StackInv, StackTypeOK, NotStranded, Drained, counts
<1> QED
  BY <1>1, <1>2, <1>3, <1>4 DEF StackInv

LEMMA StackInitially == StackInit => StackInv
<1>0. /\ 0 \in 0..StackFaults /\ 0 \in 0..Deploys + 1
      /\ \A n : n = 0 => 0 \in 0..n + 1
  BY StackConstants
<1>1. StackInit => StackTypeOK
  BY <1>0, Zenon DEF StackInit, StackTypeOK
<1>2. StackInit => Supported /\ DeployCounts /\ ReapStage
  BY DEF StackInit, Supported, DeployCounts, ReapStage, Ending
<1>3. StackInit => DestroyStage /\ NotStranded
  BY DEF StackInit, DestroyStage, NotStranded, Ending
<1> QED
  BY <1>1, <1>2, <1>3 DEF StackInv

LEMMA StackInvStep == StackInv /\ [StackNext]_stackVars => StackInv'
<1>1. StackInv /\ UNCHANGED stackVars => StackInv'
  BY DEF stackVars, runtime, StackInv, StackTypeOK, Supported, DeployCounts, ReapStage,
     DestroyStage, NotStranded, Ending
<1> QED
  BY <1>1, DeployKept, CreateWaveKept, CreateDoneKept, CreateFailsKept, RedeployKept,
     DestroyKept, DeleteWaveKept, ReaperRolledBackKept, ClusterRefusesKept,
     NetworkHeldKept, DeleteDoneKept, StartReapKept, PollReapKept, PollUnseenKept,
     ReapTimesOutKept,
     AddSensorKept, LaunchHostsKept, ScheduledKept, PassActsKept, DrainedKept
     DEF StackNext

(* Whatever takes its time and whatever fails: while the reaper is at work *)
(* the cluster, the topic and the template are there; a sensor that        *)
(* streamed when the destroy began leaves no service, and after at most    *)
(* one failure no queue; and without a failure, instances or a sensor just *)
(* being created a destroy gets stuck only behind a poll that did not see  *)
(* the service, as the listing may leave out one that drains.              *)
THEOREM DestroyLeavesNothing == StackSpec => []StackSafety
<1>1. StackInv => StackSafety
  <2> SUFFICES ASSUME StackInv PROVE StackSafety
    OBVIOUS
  <2>1. ReaperHasItsTargets
    BY DEF StackInv, StackTypeOK, ReapStage, Supported, Ending, ReaperHasItsTargets
  <2>2. NothingOutlives
    BY DEF StackInv, StackTypeOK, DeployCounts, ReapStage, DestroyStage, Ending, NothingOutlives
  <2> QED
    BY <2>1, <2>2 DEF StackInv, StackSafety
<1> QED
  BY <1>1, StackInitially, StackInvStep, PTL DEF StackSpec
=============================================================================
