--------------------------- MODULE EventLoopProofs ---------------------------
(***************************************************************************)
(* Proofs about code that runs as callbacks of an event loop, where what   *)
(* comes back may be for something given up meanwhile: the Lambdas' Valkey *)
(* client, and two pieces of the console, the page of a service and the    *)
(* value that loads by itself.                                             *)
(***************************************************************************)
EXTENDS ValkeyClient, ServicePage, AsyncLoad, SequenceTheorems, FiniteSetTheorems,
        WellFoundedInduction, TLAPS

-----------------------------------------------------------------------------
(* THE VALKEY CLIENT is a channel: for any number of commands, of sockets  *)
(* that die or time out, and of replies that cannot be read, each command  *)
(* is settled once, in order, with its own answer or an error.             *)
(*                                                                         *)
(* Replies carry no number.  What makes one the answer of the command in   *)
(* flight is that a socket owes at most that one (OwesOne), that one       *)
(* command at a time has a socket (OneBusy), and that a buffer that holds  *)
(* anything begins with what nobody can read (ConnOK).                     *)

Conn == [socket : {"connecting", "open", "dead"}, inFlight : 0..Commands,
         wire : Seq(Cmds), buffer : Seq(0..Commands), alive : BOOLEAN, closing : BOOLEAN]

OwesOne(k) == k.wire = <<>> \/ (k.inFlight # 0 /\ k.wire = <<k.inFlight>>)

ConnOK(k) ==
  /\ k \in Conn /\ OwesOne(k)
  /\ k.buffer # <<>> => k.buffer[1] = Garbled
  /\ k.inFlight # 0 => k.socket = "open"
  /\ k.closing => k.socket = "dead"

VarsOK ==
  /\ sent \in 0..Commands /\ running \in 0..sent
  /\ kept \in 0..Len(conn) /\ (kept # 0 => conn[kept].socket # "dead")
  /\ result \in [Cmds -> Open..Commands]
  /\ socketFaults \in 0..SocketFaults /\ garbledReplies \in 0..GarbledReplies

ConnsOK == conn \in Seq(Conn) /\ \A i \in 1..Len(conn) : ConnOK(conn[i])

(* Commands are settled in the order they were sent, and with nothing but  *)
(* their own answer.                                                       *)
InOrder ==
  /\ \A c \in Cmds : result[c] \in {Open, Rejected, c} /\ (c > sent => result[c] = Open)
  /\ \A b, c \in Cmds : (b < c /\ result[c] # Open) => result[b] # Open
  /\ running # 0 => result[running] = Open /\ \A b \in 1..(running - 1) : result[b] # Open

Engaged(k) == k.inFlight # 0 \/ k.socket = "connecting"

(* One connection at a time is busy, with the command that runs, and no    *)
(* other one is kept meanwhile.                                            *)
OneBusy ==
  \A i \in 1..Len(conn) : Engaged(conn[i]) =>
    /\ running # 0 /\ conn[i].inFlight \in {0, running} /\ kept \in {0, i}
    /\ \A j \in 1..Len(conn) : Engaged(conn[j]) => j = i

(* A connection is made, and a buffer grows, by a command.                 *)
Counted ==
  /\ Len(conn) <= Commands
  /\ \A c \in Cmds : result[c] = Open =>
       Len(conn) <= c /\ (c # running => Len(conn) < c)
  /\ \A i \in 1..Len(conn) :
       /\ Len(conn[i].buffer) <= Commands
       /\ \A c \in Cmds : result[c] = Open => Len(conn[i].buffer) < c

(* Sockets not kept that live, and those whose close event has come.       *)
Loose == {i \in 1..Len(conn) : conn[i].socket # "dead" /\ i # kept}
Closed == {i \in 1..Len(conn) : conn[i].socket = "dead" /\ ~conn[i].closing}

LooseBounded == Cardinality(Loose) <= Cardinality(Closed)

ClientInv == VarsOK /\ ConnsOK /\ InOrder /\ OneBusy /\ Counted /\ LooseBounded

-----------------------------------------------------------------------------
(* The invariant is strong enough                                          *)

LEMMA Numbers == Commands \in Nat /\ SocketFaults \in Nat /\ GarbledReplies \in Nat
BY ClientConstants

LEMMA NothingOwed == <<>> \in Seq(Cmds) /\ 0 \in 0..Commands
BY Numbers

LEMMA ConnDomain ==
  ASSUME ConnsOK
  PROVE  /\ Len(conn) \in Nat /\ DOMAIN conn = 1..Len(conn)
         /\ \A i \in 1..Len(conn) : conn[i] \in Conn
BY LenProperties, ElementOfSeq DEF ConnsOK

LEMMA LooseFinite == ASSUME ConnsOK PROVE IsFiniteSet(Loose) /\ IsFiniteSet(Closed)
<1>1. IsFiniteSet(1..Len(conn))
  BY ConnDomain, FS_Interval
<1> QED
  BY <1>1, FS_Subset DEF Loose, Closed

LEMMA InvIsSafe == ClientInv => ClientSafety
<1> SUFFICES ASSUME ClientInv PROVE ClientSafety
  OBVIOUS
<1> USE DEF ClientInv
<1>1. ClientTypeOK
  <2>1. ASSUME NEW i \in DOMAIN conn
        PROVE  /\ conn[i].socket \in {"connecting", "open", "dead"}
               /\ conn[i].inFlight \in 0..Commands
               /\ {conn[i].alive, conn[i].closing} \subseteq BOOLEAN
               /\ Len(conn[i].wire) <= Commands /\ Len(conn[i].buffer) <= Commands
    <3>1. i \in 1..Len(conn) /\ conn[i] \in Conn /\ ConnOK(conn[i])
      BY <2>1, ConnDomain DEF ConnsOK
    <3>2. Len(conn[i].wire) <= Commands
      <4>1. conn[i].inFlight \in 0..Commands
        BY <3>1 DEF Conn
      <4>2. Len(<<>>) = 0 /\ Len(<<conn[i].inFlight>>) = 1
        OBVIOUS
      <4>3. CASE conn[i].wire = <<>>
        BY <4>2, <4>3, Numbers
      <4>4. CASE conn[i].inFlight # 0 /\ conn[i].wire = <<conn[i].inFlight>>
        <5>1. Len(conn[i].wire) = 1
          BY <4>2, <4>4
        <5> QED
          BY <4>1, <4>4, <5>1, Numbers
      <4> QED
        BY <3>1, <4>3, <4>4 DEF ConnOK, OwesOne
    <3>3. conn[i].alive \in BOOLEAN /\ conn[i].closing \in BOOLEAN
      BY <3>1 DEF Conn
    <3>4. conn[i].socket \in {"connecting", "open", "dead"} /\ conn[i].inFlight \in 0..Commands
      BY <3>1 DEF Conn
    <3>5. {conn[i].alive, conn[i].closing} \subseteq BOOLEAN
      BY <3>3
    <3>6. Len(conn[i].buffer) <= Commands
      BY <3>1 DEF Counted
    <3> QED
      BY <3>2, <3>4, <3>5, <3>6
  <2> QED
    BY <2>1 DEF ClientTypeOK, VarsOK, Counted
<1>2. OrphansBounded
  <2> DEFINE orphans == {i \in DOMAIN conn : conn[i].socket # "dead" /\ ~InUse(i)}
             dead    == {i \in DOMAIN conn : conn[i].socket = "dead"}
  <2>1. orphans \subseteq Loose /\ Closed \subseteq dead
    BY ConnDomain DEF Loose, Closed, InUse
  <2>2. IsFiniteSet(Loose) /\ IsFiniteSet(dead)
    <3>1. IsFiniteSet(1..Len(conn)) /\ dead \in SUBSET (1..Len(conn))
      BY ConnDomain, FS_Interval
    <3>2. IsFiniteSet(dead)
      BY <3>1, FS_Subset
    <3> QED
      BY <3>2, LooseFinite
  <2>3. Cardinality(orphans) <= Cardinality(Loose) /\ Cardinality(Closed) <= Cardinality(dead)
    BY <2>1, <2>2, FS_Subset
  <2>4. /\ Cardinality(orphans) \in Nat /\ Cardinality(Loose) \in Nat
        /\ Cardinality(Closed) \in Nat /\ Cardinality(dead) \in Nat
    BY <2>1, <2>2, FS_Subset, FS_CardinalityType
  <2> HIDE DEF orphans, dead
  <2>5. Cardinality(orphans) <= Cardinality(dead)
    BY <2>3, <2>4 DEF LooseBounded
  <2> QED
    BY <2>5 DEF OrphansBounded, orphans, dead
<1> QED
  BY <1>1, <1>2 DEF ClientSafety

LEMMA ClientInitially == ClientInit => ClientInv
<1> SUFFICES ASSUME ClientInit PROVE ClientInv
  OBVIOUS
<1>1. conn = <<>> /\ Len(conn) = 0 /\ 1..Len(conn) = {}
  BY DEF ClientInit
<1>2. VarsOK
  BY <1>1, Numbers DEF ClientInit, VarsOK, Open
<1>3. ConnsOK /\ OneBusy
  BY <1>1 DEF ConnsOK, OneBusy
<1>4. InOrder
  BY DEF ClientInit, InOrder, Open
<1>5. Counted
  BY <1>1, Numbers DEF ClientInit, Counted, Cmds
<1>6. Loose = {} /\ Closed = {}
  BY <1>1 DEF Loose, Closed
<1>7. LooseBounded
  BY <1>6, FS_EmptySet DEF LooseBounded
<1> QED
  BY <1>2, <1>3, <1>4, <1>5, <1>7 DEF ClientInv

-----------------------------------------------------------------------------
(* What a step does to one connection                                      *)

LEMMA Replaced ==
  ASSUME ConnsOK, NEW i \in 1..Len(conn), NEW k, ConnOK(k), conn' = [conn EXCEPT ![i] = k]
  PROVE  /\ ConnsOK' /\ Len(conn') = Len(conn) /\ conn'[i] = k
         /\ \A j \in 1..Len(conn) : j # i => conn'[j] = conn[j]
<1>1. conn \in Seq(Conn) /\ k \in Conn
  BY DEF ConnsOK, ConnOK
<1>2. conn' \in Seq(Conn) /\ Len(conn') = Len(conn)
      /\ \A j \in 1..Len(conn) : conn'[j] = IF j = i THEN k ELSE conn[j]
  BY <1>1, ExceptSeq
<1> QED
  BY <1>2 DEF ConnsOK

(* Sockets that neither die nor close leave the count as it is.            *)
LEMMA LooseSame ==
  ASSUME ConnsOK, NEW i \in 1..Len(conn), NEW k, ConnOK(k), conn' = [conn EXCEPT ![i] = k],
         k.socket = "dead" <=> conn[i].socket = "dead", k.closing = conn[i].closing, kept' = kept
  PROVE  Loose' = Loose /\ Closed' = Closed
BY Replaced DEF Loose, Closed

(* Less is loose, or more has closed.                                      *)
LEMMA LooseFewer ==
  ASSUME ConnsOK, LooseBounded, Loose' \subseteq Loose, Closed \subseteq Closed',
         IsFiniteSet(Closed')
  PROVE  LooseBounded'
<1>1. Cardinality(Loose') <= Cardinality(Loose) /\ IsFiniteSet(Loose')
  BY LooseFinite, FS_Subset
<1>2. Cardinality(Closed) <= Cardinality(Closed')
  BY FS_Subset
<1>3. /\ Cardinality(Loose') \in Nat /\ Cardinality(Loose) \in Nat
      /\ Cardinality(Closed) \in Nat /\ Cardinality(Closed') \in Nat
  BY <1>1, LooseFinite, FS_CardinalityType
<1> QED
  BY <1>1, <1>2, <1>3 DEF LooseBounded

(* A socket that dies takes the kept connection with it, which then is     *)
(* loose in its place.                                                     *)
LEMMA LooseDies ==
  ASSUME ConnsOK, LooseBounded, NEW i \in 1..Len(conn), NEW k, ConnOK(k),
         conn' = [conn EXCEPT ![i] = k],
         conn[i].socket # "dead", k.socket = "dead", kept' = 0
  PROVE  LooseBounded'
<1>1. IsFiniteSet(1..Len(conn)) /\ Len(conn) \in Nat
  BY ConnDomain, FS_Interval
<1>2. Closed \subseteq Closed' /\ Closed' \in SUBSET (1..Len(conn))
  BY Replaced DEF Closed
<1>3. IsFiniteSet(Closed')
  BY <1>1, <1>2, FS_Subset
<1>4. CASE kept = 0 \/ kept = i \/ kept \notin 1..Len(conn)
  <2>1. Loose' \subseteq Loose
    BY <1>1, <1>4, Replaced DEF Loose
  <2> QED
    BY <1>2, <1>3, <2>1, LooseFewer
<1>5. CASE kept # i /\ kept \in 1..Len(conn)
  <2>1. i \in Loose /\ Loose' \in SUBSET ((Loose \ {i}) \cup {kept})
    BY <1>1, <1>5, Replaced DEF Loose
  <2>2. IsFiniteSet(Loose \ {i}) /\ Cardinality(Loose \ {i}) = Cardinality(Loose) - 1
    BY <2>1, LooseFinite, FS_RemoveElement
  <2>3. kept \notin Loose
    BY DEF Loose
  <2>4. IsFiniteSet((Loose \ {i}) \cup {kept})
        /\ Cardinality((Loose \ {i}) \cup {kept}) = Cardinality(Loose \ {i}) + 1
    BY <2>2, <2>3, FS_AddElement
  <2>5. Cardinality(Loose') <= Cardinality((Loose \ {i}) \cup {kept}) /\ IsFiniteSet(Loose')
    BY <2>1, <2>4, FS_Subset
  <2>6. Cardinality(Closed) <= Cardinality(Closed')
    BY <1>2, <1>3, FS_Subset
  <2>7. /\ Cardinality(Loose') \in Nat /\ Cardinality(Loose) \in Nat
        /\ Cardinality(Closed) \in Nat /\ Cardinality(Closed') \in Nat
    BY <1>3, <2>5, LooseFinite, FS_CardinalityType
  <2> QED
    BY <2>2, <2>4, <2>5, <2>6, <2>7 DEF LooseBounded
<1> QED
  BY <1>4, <1>5

(* A close event may loosen the connection kept by then, and is counted.   *)
LEMMA LooseCloses ==
  ASSUME ConnsOK, LooseBounded, NEW i \in 1..Len(conn), NEW k, ConnOK(k),
         conn' = [conn EXCEPT ![i] = k],
         conn[i].closing, k.socket = "dead", ~k.closing, kept' = 0
  PROVE  LooseBounded'
<1>1. ConnOK(conn[i])
  BY DEF ConnsOK
<1>2. conn[i].socket = "dead" /\ i \notin Closed
  BY <1>1 DEF ConnOK, Closed
<1>3. Closed' = Closed \cup {i}
  BY <1>2, Replaced DEF Closed
<1>4. Loose' \in SUBSET (Loose \cup {kept})
  BY <1>2, Replaced DEF Loose
<1>5. IsFiniteSet(Loose \cup {kept}) /\ Cardinality(Loose \cup {kept}) <= Cardinality(Loose) + 1
  <2>1. IsFiniteSet(Loose) /\ Cardinality(Loose) \in Nat
    BY LooseFinite, FS_CardinalityType
  <2>2. IsFiniteSet(Loose \cup {kept})
        /\ Cardinality(Loose \cup {kept})
             = IF kept \in Loose THEN Cardinality(Loose) ELSE Cardinality(Loose) + 1
    BY <2>1, FS_AddElement
  <2> QED
    BY <2>1, <2>2
<1>6. Cardinality(Closed') = Cardinality(Closed) + 1
  BY <1>2, <1>3, LooseFinite, FS_AddElement
<1>7. IsFiniteSet(Loose') /\ Cardinality(Loose') <= Cardinality(Loose \cup {kept})
  BY <1>4, <1>5, FS_Subset
<1>8. /\ Cardinality(Loose') \in Nat /\ Cardinality(Loose) \in Nat
      /\ Cardinality(Closed) \in Nat /\ Cardinality(Loose \cup {kept}) \in Nat
  BY <1>5, <1>7, LooseFinite, FS_CardinalityType
<1> QED
  BY <1>5, <1>6, <1>7, <1>8 DEF LooseBounded

-----------------------------------------------------------------------------
(* What a step does to the commands                                        *)

(* The command that runs is settled, with its answer or with an error.     *)
SettledWith(v) ==
  /\ running # 0 /\ v \in {Rejected, running}
  /\ result' = [result EXCEPT ![running] = v] /\ running' = 0

(* A connection gives up its command, if it has one.                       *)
Released(i) ==
  IF Engaged(conn[i]) THEN \E v \in {Rejected, running} : SettledWith(v)
  ELSE UNCHANGED <<result, running>>

(* No command becomes open, and what ran before runs or is settled.        *)
LEMMA ReleasedCommands ==
  ASSUME VarsOK, InOrder, sent' = sent, NEW i, Released(i)
  PROVE  /\ InOrder' /\ result' \in [Cmds -> Open..Commands] /\ running' \in 0..sent'
         /\ \A c \in Cmds : result'[c] = Open =>
              result[c] = Open /\ (c # running' => c # running)
<1>1. CASE UNCHANGED <<result, running>>
  BY <1>1 DEF VarsOK, InOrder
<1>2. ASSUME NEW v \in {Rejected, running}, SettledWith(v)
      PROVE  /\ InOrder' /\ result' \in [Cmds -> Open..Commands] /\ running' \in 0..sent'
             /\ \A c \in Cmds : result'[c] = Open =>
                  result[c] = Open /\ (c # running' => c # running)
  <2>1. running \in Cmds /\ v \in 0..Commands /\ v # Open /\ sent \in 0..Commands
    BY <1>2, Numbers DEF SettledWith, VarsOK, Cmds, Open, Rejected
  <2>2. /\ result' \in [Cmds -> Open..Commands] /\ result'[running] = v
        /\ \A c \in Cmds : c # running => result'[c] = result[c]
    BY <1>2, <2>1, Numbers DEF SettledWith, VarsOK, Open
  <2>3. running' = 0 /\ running' \in 0..sent'
    BY <1>2, <2>1 DEF SettledWith
  <2>4. \A c \in Cmds : result'[c] \in {Open, Rejected, c} /\ (c > sent' => result'[c] = Open)
    <3>1. running <= sent
      BY <2>1, Numbers DEF VarsOK
    <3> QED
      BY <1>2, <2>1, <2>2, <3>1 DEF InOrder, SettledWith, Cmds
  <2>5. \A b, c \in Cmds : (b < c /\ result'[c] # Open) => result'[b] # Open
    <3>1. running # 0
      BY <1>2 DEF SettledWith
    <3>2. \A b \in Cmds : b < running => b \in 1..(running - 1)
      BY <2>1, Numbers DEF Cmds
    <3>3. \A b \in Cmds : b < running => result[b] # Open
      BY <3>1, <3>2 DEF InOrder
    <3> QED
      BY <2>1, <2>2, <3>3 DEF InOrder
  <2> QED
    BY <2>1, <2>2, <2>3, <2>4, <2>5 DEF InOrder
<1> QED
  BY <1>1, <1>2 DEF Released

(* A connection that gives up its command leaves none busy.                *)
LEMMA ReleaseKeeps ==
  ASSUME ClientInv, NEW i \in 1..Len(conn), NEW k, ConnOK(k), ~Engaged(k),
         conn' = [conn EXCEPT ![i] = k], Released(i), sent' = sent,
         socketFaults' \in 0..SocketFaults, garbledReplies' \in 0..GarbledReplies,
         kept' = 0 \/ (kept' = kept /\ (k.socket = "dead" => conn[i].socket = "dead")),
         Len(k.buffer) <= Commands,
         \A c \in Cmds : result'[c] = Open => Len(k.buffer) < c,
         LooseBounded'
  PROVE  ClientInv'
<1> USE DEF ClientInv
<1>1. /\ ConnsOK' /\ Len(conn') = Len(conn) /\ conn'[i] = k /\ Len(conn) \in Nat
      /\ \A j \in 1..Len(conn) : j # i => conn'[j] = conn[j]
  BY Replaced, ConnDomain
<1>2. /\ InOrder' /\ result' \in [Cmds -> Open..Commands] /\ running' \in 0..sent'
      /\ \A c \in Cmds : result'[c] = Open =>
           result[c] = Open /\ (c # running' => c # running)
  BY ReleasedCommands
<1>3. kept' \in 0..Len(conn')
  BY <1>1 DEF VarsOK
<1>4. kept' # 0 => conn'[kept'].socket # "dead"
  BY <1>1 DEF VarsOK
<1>5. VarsOK'
  BY <1>2, <1>3, <1>4 DEF VarsOK
<1>6. OneBusy'
  <2>1. ASSUME NEW j \in 1..Len(conn'), Engaged(conn'[j])
        PROVE  /\ j # i /\ Engaged(conn[j]) /\ conn'[j] = conn[j] /\ ~Engaged(conn[i])
    BY <1>1, <2>1 DEF OneBusy
  <2>2. ~Engaged(conn[i]) => running' = running
    BY DEF Released
  <2>3. kept' = 0 \/ kept' = kept
    OBVIOUS
  <2> QED
    BY <1>1, <2>1, <2>2, <2>3 DEF OneBusy
<1>7. Counted'
  BY <1>1, <1>2 DEF Counted
<1> QED
  BY <1>1, <1>2, <1>5, <1>6, <1>7

(* A connection that keeps its command, and its socket.                    *)
LEMMA NeutralKeeps ==
  ASSUME ClientInv, NEW i \in 1..Len(conn), NEW k, ConnOK(k),
         conn' = [conn EXCEPT ![i] = k], UNCHANGED <<sent, running, result>>,
         k.inFlight = conn[i].inFlight, k.socket = conn[i].socket, k.buffer = conn[i].buffer,
         socketFaults' \in 0..SocketFaults, garbledReplies' \in 0..GarbledReplies,
         kept' = 0 \/ kept' = kept, LooseBounded'
  PROVE  ClientInv'
<1> USE DEF ClientInv
<1>1. /\ ConnsOK' /\ Len(conn') = Len(conn) /\ conn'[i] = k /\ Len(conn) \in Nat
      /\ \A j \in 1..Len(conn) : j # i => conn'[j] = conn[j]
  BY Replaced, ConnDomain
<1>2. \A j \in 1..Len(conn) :
        /\ conn'[j].inFlight = conn[j].inFlight /\ conn'[j].socket = conn[j].socket
        /\ conn'[j].buffer = conn[j].buffer
  BY <1>1
<1>3. VarsOK'
  <2>1. kept' \in 0..Len(conn') /\ (kept' # 0 => conn'[kept'].socket # "dead")
    BY <1>1, <1>2 DEF VarsOK
  <2> QED
    BY <2>1 DEF VarsOK
<1>4. OneBusy'
  BY <1>1, <1>2 DEF OneBusy, Engaged
<1>5. InOrder'
  BY DEF InOrder
<1>6. Counted'
  BY <1>1, <1>2 DEF Counted
<1> QED
  BY <1>1, <1>3, <1>4, <1>5, <1>6

-----------------------------------------------------------------------------
(* The steps                                                               *)

LEMMA FaultTypes ==
  ASSUME VarsOK
  PROVE  /\ socketFaults \in 0..SocketFaults /\ garbledReplies \in 0..GarbledReplies
         /\ SocketFault => socketFaults' \in 0..SocketFaults
BY Numbers DEF VarsOK, SocketFault

LEMMA SendKeeps == ASSUME ClientInv, SendCommand PROVE ClientInv'
<1> USE DEF ClientInv, SendCommand
<1>1. VarsOK'
  BY Numbers DEF VarsOK
<1>2. ConnsOK' /\ OneBusy' /\ Counted'
  BY DEF ConnsOK, OneBusy, Counted
<1>3. InOrder'
  <2>1. \A c \in Cmds : c > sent' => c > sent
    BY Numbers DEF VarsOK, Cmds
  <2> QED
    BY <2>1 DEF InOrder
<1>4. LooseBounded'
  <2>1. Loose' = Loose /\ Closed' = Closed
    BY DEF Loose, Closed
  <2> QED
    BY <2>1 DEF LooseBounded
<1> QED
  BY <1>1, <1>2, <1>3, <1>4

(* The next command is the first that is not settled.                      *)
LEMMA NextIsFirst ==
  ASSUME VarsOK, InOrder, Queued
  PROVE  /\ NextCommand \in Cmds /\ NextCommand \in 1..sent /\ NextCommand # 0
         /\ result[NextCommand] = Open
         /\ \A b \in 1..(NextCommand - 1) : result[b] # Open
<1>1. sent \in Nat /\ sent <= Commands
  BY Numbers DEF VarsOK
<1> DEFINE First(c) == result[c] = Open /\ \A b \in 1..(c - 1) : result[b] # Open
<1>2. PICK c \in 1..sent : result[c] = Open
  BY DEF Queued
<1> DEFINE open == {d \in 1..sent : result[d] = Open}
<1>3. PICK d \in open : \A e \in open : d <= e
  <2>1. open \subseteq Nat /\ c \in open
    BY <1>1, <1>2
  <2> HIDE DEF open
  <2>2. \E d \in open : \A e \in open : <<e, d>> \notin OpToRel(<, Nat)
    BY <2>1, NatLessThanWellFounded, WFMin
  <2>3. \A d, e \in open : <<e, d>> \notin OpToRel(<, Nat) => d <= e
    BY <2>1 DEF OpToRel
  <2> QED
    BY <2>2, <2>3
<1>4. First(d)
  <2>1. d \in 1..sent /\ result[d] = Open
    OBVIOUS
  <2>2. ASSUME NEW b \in 1..(d - 1) PROVE result[b] # Open
    <3>1. b \in 1..sent /\ b < d
      BY <1>1, <2>1, <2>2
    <3> QED
      BY <1>1, <1>3, <2>1, <3>1
  <2> QED
    BY <2>1, <2>2
<1>5. NextCommand = CHOOSE e \in 1..sent : First(e)
  BY DEF NextCommand
<1>6. NextCommand \in 1..sent /\ First(NextCommand)
  BY <1>4, <1>5
<1>7. \A e \in 1..sent : e \in Cmds /\ e # 0
  BY <1>1, Numbers DEF Cmds
<1> HIDE DEF NextCommand
<1> QED
  BY <1>6, <1>7

(* An idle connection is given a command.                                  *)
LEMMA DispatchedOK ==
  ASSUME NEW k, ConnOK(k), k.inFlight = 0, k.socket # "dead", NEW c \in Cmds
  PROVE  /\ ConnOK(Dispatched(k, c)) /\ Engaged(Dispatched(k, c))
         /\ Dispatched(k, c).inFlight = c /\ Dispatched(k, c).socket = "open"
         /\ Dispatched(k, c).buffer = k.buffer /\ Dispatched(k, c).closing = k.closing
<1>1. k \in Conn /\ k.wire = <<>> /\ c # 0 /\ c \in 0..Commands
  BY Numbers DEF ConnOK, OwesOne, Cmds
<1> DEFINE owed == IF k.alive THEN Append(k.wire, c) ELSE k.wire
<1>2. Append(k.wire, c) = <<c>> /\ <<c>> \in Seq(Cmds) /\ <<>> \in Seq(Cmds)
  BY <1>1
<1>3. owed \in Seq(Cmds) /\ (owed = <<>> \/ owed = <<c>>)
  BY <1>1, <1>2
<1> HIDE DEF owed
<1>4. Dispatched(k, c) = [k EXCEPT !.socket = "open", !.inFlight = c, !.wire = owed]
  BY DEF Dispatched, owed
<1>5. /\ Dispatched(k, c) \in Conn
      /\ Dispatched(k, c).inFlight = c /\ Dispatched(k, c).socket = "open"
      /\ Dispatched(k, c).buffer = k.buffer /\ Dispatched(k, c).closing = k.closing
      /\ Dispatched(k, c).wire = owed
  BY <1>1, <1>3, <1>4 DEF Conn
<1> QED
  BY <1>1, <1>3, <1>5 DEF ConnOK, OwesOne, Engaged

(* The invariant when the command that runs from now on has connection i,  *)
(* and no other one is busy.                                               *)
LEMMA DispatchKeeps ==
  ASSUME ClientInv, NEW i \in 1..Len(conn), conn[i].inFlight = 0, conn[i].socket # "dead",
         \A j \in 1..Len(conn) : Engaged(conn[j]) => j = i,
         kept \in {0, i}, running' \in Cmds, running' <= sent,
         result[running'] = Open, \A b \in 1..(running' - 1) : result[b] # Open,
         running \in {0, running'},
         conn' = [conn EXCEPT ![i] = Dispatched(conn[i], running')],
         UNCHANGED <<sent, kept, result, socketFaults, garbledReplies>>
  PROVE  ClientInv'
<1> USE DEF ClientInv
<1> DEFINE k == Dispatched(conn[i], running')
<1>1. /\ ConnOK(k) /\ Engaged(k) /\ k.inFlight = running' /\ k.socket = "open"
      /\ k.buffer = conn[i].buffer /\ k.closing = conn[i].closing
  BY DispatchedOK DEF ConnsOK
<1> HIDE DEF k
<1>2. conn' = [conn EXCEPT ![i] = k]
  BY DEF k
<1>3. /\ ConnsOK' /\ Len(conn') = Len(conn) /\ conn'[i] = k /\ Len(conn) \in Nat
      /\ \A j \in 1..Len(conn) : j # i => conn'[j] = conn[j]
  BY <1>1, <1>2, Replaced, ConnDomain
<1>4. running' # 0 /\ running' \in 0..sent'
  BY Numbers DEF VarsOK, Cmds
<1>5. VarsOK'
  BY <1>1, <1>3, <1>4 DEF VarsOK
<1>6. OneBusy'
  BY <1>1, <1>3, <1>4 DEF OneBusy
<1>7. InOrder'
  BY DEF InOrder
<1>8. Counted'
  <2>1. \A c \in Cmds : (result'[c] = Open /\ c # running') => Len(conn) < c
    <3>1. CASE running = running'
      BY <3>1 DEF Counted
    <3>2. CASE running = 0
      BY <3>2, Numbers DEF Counted, Cmds
    <3> QED
      BY <3>1, <3>2
  <2> QED
    BY <1>1, <1>3, <2>1 DEF Counted
<1>9. LooseBounded'
  BY <1>1, <1>2, LooseSame DEF LooseBounded
<1> QED
  BY <1>3, <1>5, <1>6, <1>7, <1>8, <1>9

LEMMA ConnectedKeeps ==
  ASSUME ClientInv, NEW i \in 1..Len(conn), Connected(i)
  PROVE  ClientInv'
<1> USE DEF ClientInv
<1>1. ConnOK(conn[i]) /\ conn[i].socket = "connecting"
  BY DEF ConnsOK, Connected
<1>2. conn[i].inFlight = 0 /\ Engaged(conn[i])
  BY <1>1 DEF ConnOK, Engaged
<1>3. running # 0 /\ kept \in {0, i} /\ \A j \in 1..Len(conn) : Engaged(conn[j]) => j = i
  BY <1>2 DEF OneBusy
<1>4. UNCHANGED <<sent, running, kept, result, socketFaults, garbledReplies>>
      /\ conn' = [conn EXCEPT ![i] = Dispatched(conn[i], running')]
  BY DEF Connected
<1>5. running' \in Cmds /\ running' <= sent
  BY <1>3, <1>4, Numbers DEF VarsOK, Cmds
<1>6. result[running'] = Open /\ \A b \in 1..(running' - 1) : result[b] # Open
  BY <1>3, <1>4 DEF InOrder
<1> QED
  BY <1>1, <1>2, <1>3, <1>4, <1>5, <1>6, DispatchKeeps

LEMMA StartKeeps == ASSUME ClientInv, StartNext PROVE ClientInv'
<1> USE DEF ClientInv
<1> DEFINE c == NextCommand
<1>1. /\ c \in Cmds /\ c \in 1..sent /\ c # 0 /\ result[c] = Open
      /\ \A b \in 1..(c - 1) : result[b] # Open
  BY NextIsFirst DEF StartNext
<1>2. running' = c /\ running = 0 /\ UNCHANGED <<sent, result, socketFaults, garbledReplies>>
  BY DEF StartNext, Queued
<1>3. \A j \in 1..Len(conn) : ~Engaged(conn[j])
  BY <1>2 DEF OneBusy
<1>4. Len(conn) \in Nat /\ sent \in Nat /\ sent <= Commands
  BY ConnDomain, Numbers DEF VarsOK
<1>5. CASE kept # 0
  <2>1. kept \in 1..Len(conn) /\ conn[kept].socket # "dead"
    BY <1>4, <1>5 DEF VarsOK
  <2>2. conn[kept].inFlight = 0
    BY <1>3, <2>1 DEF Engaged
  <2>3. conn' = [conn EXCEPT ![kept] = Dispatched(conn[kept], running')] /\ UNCHANGED kept
    BY <1>2, <1>5 DEF StartNext
  <2>4. running' <= sent
    BY <1>1, <1>2, <1>4
  <2> HIDE DEF c
  <2> QED
    BY <1>1, <1>2, <1>3, <2>1, <2>2, <2>3, <2>4, DispatchKeeps
<1>6. CASE kept = 0
  <2> DEFINE n == Len(conn) + 1
  <2>1. conn' = Append(conn, NewConn) /\ kept' = n
    BY <1>6 DEF StartNext
  <2> HIDE DEF c
  <2>2. NewConn \in Conn
    <3>1. 0 \in 0..Commands /\ <<>> \in Seq(Cmds) /\ <<>> \in Seq(0..Commands)
      BY Numbers
    <3> QED
      BY <3>1 DEF NewConn, Conn
  <2>3. ConnOK(NewConn) /\ NewConn.buffer = <<>> /\ NewConn.socket = "connecting"
        /\ NewConn.inFlight = 0
    BY <2>2 DEF NewConn, ConnOK, OwesOne
  <2>4. /\ conn' \in Seq(Conn) /\ Len(conn') = n /\ conn'[n] = NewConn
        /\ \A j \in 1..Len(conn) : conn'[j] = conn[j]
    BY <2>1, <2>2, AppendProperties DEF ConnsOK
  <2>5. \A j \in 1..n : j = n \/ j \in 1..Len(conn)
    BY <1>4
  <2>6. ConnsOK'
    BY <2>3, <2>4, <2>5 DEF ConnsOK
  <2>7. VarsOK'
    <3>1. kept' \in 0..Len(conn') /\ conn'[kept'].socket # "dead"
      BY <1>4, <2>1, <2>3, <2>4
    <3>2. running' \in 0..sent'
      BY <1>1, <1>2, <1>4
    <3> QED
      BY <1>2, <3>1, <3>2 DEF VarsOK
  <2>8. OneBusy'
    <3>1. \A j \in 1..n : Engaged(conn'[j]) => j = n
      BY <1>3, <2>4, <2>5
    <3> QED
      BY <1>1, <1>2, <2>1, <2>3, <2>4, <3>1 DEF OneBusy
  <2>9. InOrder'
    BY <1>1, <1>2 DEF InOrder
  <2>10. Counted'
    <3>1. Len(conn) < c /\ c <= Commands
      BY <1>1, <1>2, <1>4, Numbers DEF Counted, Cmds
    <3>2. \A d \in Cmds : result[d] = Open => c <= d
      <4>1. \A d \in Cmds : d < c => d \in 1..(c - 1)
        BY <1>1, <1>4, Numbers DEF Cmds
      <4> QED
        BY <1>1, <1>4, <4>1, Numbers DEF Cmds
    <3>3. Len(conn') <= Commands
      BY <1>1, <1>4, <2>4, <3>1, Numbers
    <3>4. \A d \in Cmds : result'[d] = Open =>
             Len(conn') <= d /\ (d # running' => Len(conn') < d)
      BY <1>1, <1>2, <1>4, <2>4, <3>1, <3>2, Numbers DEF Cmds
    <3>5. \A j \in 1..n : /\ Len(conn'[j].buffer) <= Commands
                          /\ \A d \in Cmds : result'[d] = Open => Len(conn'[j].buffer) < d
      <4>1. Len(NewConn.buffer) = 0
        BY <2>3
      <4> QED
        BY <1>2, <2>4, <2>5, <4>1, Numbers DEF Counted, Cmds
    <3> QED
      BY <2>4, <3>3, <3>4, <3>5 DEF Counted
  <2>11. LooseBounded'
    <3>1. Loose' = Loose
      BY <1>4, <1>6, <2>1, <2>4, <2>5 DEF Loose
    <3>2. Closed' = Closed
      BY <1>4, <2>3, <2>4, <2>5 DEF Closed
    <3> QED
      BY <3>1, <3>2 DEF LooseBounded
  <2> QED
    BY <2>6, <2>7, <2>8, <2>9, <2>10, <2>11
<1> QED
  BY <1>5, <1>6

-----------------------------------------------------------------------------
(* Replies, and what goes wrong                                            *)

(* An answer that arrives is that of the command in flight.                *)
LEMMA OwedToRunning ==
  ASSUME ClientInv, NEW i \in 1..Len(conn), conn[i].wire # <<>>
  PROVE  /\ Engaged(conn[i]) /\ conn[i].inFlight = running /\ running \in Cmds
         /\ conn[i].wire = <<running>> /\ conn[i].socket = "open" /\ result[running] = Open
<1> USE DEF ClientInv
<1>1. ConnOK(conn[i])
  BY DEF ConnsOK
<1>2. conn[i].inFlight # 0 /\ conn[i].wire = <<conn[i].inFlight>>
  BY <1>1 DEF ConnOK, OwesOne
<1>3. running # 0 /\ conn[i].inFlight = running
  BY <1>2 DEF OneBusy, Engaged
<1>4. running \in Cmds
  BY <1>3, Numbers DEF VarsOK, Cmds
<1> QED
  BY <1>1, <1>2, <1>3, <1>4 DEF ConnOK, Engaged, InOrder

LEMMA DataKeeps ==
  ASSUME ClientInv, NEW i \in 1..Len(conn), NEW reply, conn[i].wire # <<>>,
         reply \in {Garbled, Head(conn[i].wire)}, Data(i, reply), UNCHANGED <<sent, kept>>,
         socketFaults' \in 0..SocketFaults, garbledReplies' \in 0..GarbledReplies
  PROVE  ClientInv' /\ Released(i)
<1> USE DEF ClientInv
<1>1. /\ Engaged(conn[i]) /\ conn[i].inFlight = running /\ running \in Cmds /\ running # 0
      /\ conn[i].wire = <<running>> /\ conn[i].socket = "open" /\ result[running] = Open
  BY OwedToRunning, Numbers DEF Cmds
<1>2. ConnOK(conn[i]) /\ conn[i] \in Conn /\ Len(conn[i].buffer) < running
  BY <1>1 DEF ConnsOK, ConnOK, Counted
<1>3. Head(conn[i].wire) = running /\ Tail(conn[i].wire) = <<>>
  BY <1>1
<1>4. reply \in {Garbled, running} /\ reply \in 0..Commands
  BY <1>1, <1>3, Numbers DEF Garbled, Cmds
<1> DEFINE buffer == Append(conn[i].buffer, reply)
           left   == IF Head(buffer) = Garbled THEN buffer ELSE Tail(buffer)
           k      == [conn[i] EXCEPT !.wire = <<>>, !.inFlight = 0, !.buffer = left]
<1>5. /\ buffer \in Seq(0..Commands) /\ Len(buffer) = Len(conn[i].buffer) + 1
      /\ Len(conn[i].buffer) \in Nat
      /\ Head(buffer) = IF conn[i].buffer = <<>> THEN reply ELSE Head(conn[i].buffer)
      /\ Tail(buffer) = IF conn[i].buffer = <<>> THEN <<>> ELSE Append(Tail(conn[i].buffer), reply)
  BY <1>2, <1>4, AppendProperties, HeadTailAppend, LenProperties DEF Conn
<1>6. conn[i].buffer # <<>> => Head(conn[i].buffer) = Garbled
  <2>1. \A s \in Seq(0..Commands) : s # <<>> => Head(s) = s[1]
    OBVIOUS
  <2> QED
    BY <1>2, <2>1 DEF ConnOK, Conn
<1>7. /\ left \in Seq(0..Commands) /\ Len(left) <= Len(conn[i].buffer) + 1
      /\ (left # <<>> => left[1] = Garbled) /\ Len(left) \in Nat
  <2>1. CASE Head(buffer) = Garbled
    <3>1. left = buffer
      BY <2>1
    <3>2. \A s \in Seq(0..Commands) : s # <<>> => Head(s) = s[1]
      OBVIOUS
    <3> HIDE DEF buffer, left
    <3> QED
      BY <1>5, <2>1, <3>1, <3>2
  <2>2. CASE Head(buffer) # Garbled
    <3>1. left = <<>>
      BY <1>5, <1>6, <2>2
    <3> HIDE DEF left
    <3> QED
      BY <1>5, <3>1
  <2> QED
    BY <2>1, <2>2
<1>8. Head(buffer) \in {Rejected, running}
  BY <1>4, <1>5, <1>6 DEF Garbled, Rejected
<1>9. SettledWith(Head(buffer))
  BY <1>1, <1>8 DEF Data, SettledWith
<1>10. Released(i)
  BY <1>1, <1>8, <1>9 DEF Released
<1>11. conn' = [conn EXCEPT ![i] = k]
  BY <1>1, <1>3 DEF Data
<1> HIDE DEF buffer, left
<1>12. /\ k \in Conn /\ k.wire = <<>> /\ k.inFlight = 0 /\ k.buffer = left
       /\ k.socket = "open" /\ k.closing = conn[i].closing
  <2>1. left \in Seq(0..Commands)
    BY <1>7
  <2> QED
    BY <1>1, <1>2, <2>1, NothingOwed DEF Conn
<1> HIDE DEF k
<1>13. ConnOK(k) /\ ~Engaged(k)
  BY <1>1, <1>2, <1>7, <1>12 DEF ConnOK, OwesOne, Engaged
<1>14. LooseBounded'
  BY <1>1, <1>11, <1>12, <1>13, LooseSame DEF LooseBounded
<1>15. Len(k.buffer) <= Commands
  BY <1>1, <1>2, <1>5, <1>7, <1>12, Numbers DEF Cmds
<1>16. ASSUME NEW c \in Cmds, result'[c] = Open PROVE Len(k.buffer) < c
  <2>1. result[c] = Open /\ c # running
    <3>1. \A d \in Cmds : result'[d] = Open => result[d] = Open /\ (d # running' => d # running)
      BY <1>10, ReleasedCommands
    <3>2. running' = 0 /\ c # 0
      BY <1>9, Numbers DEF SettledWith, Cmds
    <3> QED
      BY <1>16, <3>1, <3>2
  <2>2. running < c
    <3>1. \A b \in Cmds : b < running => result[b] # Open
      <4>1. \A b \in Cmds : b < running => b \in 1..(running - 1)
        BY <1>1, Numbers DEF Cmds
      <4> QED
        BY <1>1, <4>1 DEF InOrder
    <3> QED
      BY <1>1, <2>1, <3>1, Numbers DEF Cmds
  <2> QED
    BY <1>1, <1>2, <1>5, <1>7, <1>12, <2>2, Numbers DEF Cmds
<1>17. ClientInv'
  BY <1>10, <1>11, <1>12, <1>13, <1>14, <1>15, <1>16, ReleaseKeeps
<1> QED
  BY <1>10, <1>17

LEMMA ReplyKeeps ==
  ASSUME ClientInv, NEW i \in 1..Len(conn), Reply(i) \/ ReplyGarbled(i)
  PROVE  ClientInv' /\ Released(i) /\ sent' = sent
<1>1. conn[i].wire # <<>>
  BY DEF Reply, ReplyGarbled, Listens
<1>2. socketFaults' \in 0..SocketFaults /\ garbledReplies' \in 0..GarbledReplies
  BY Numbers DEF Reply, ReplyGarbled, ClientInv, VarsOK
<1>3. UNCHANGED <<sent, kept>>
  BY DEF Reply, ReplyGarbled
<1>4. CASE Reply(i)
  BY <1>1, <1>2, <1>3, <1>4, DataKeeps DEF Reply
<1>5. CASE ReplyGarbled(i)
  BY <1>1, <1>2, <1>3, <1>5, DataKeeps DEF ReplyGarbled
<1> QED
  BY <1>3, <1>4, <1>5

LEMMA PeerKeeps ==
  ASSUME ClientInv, NEW i \in 1..Len(conn), PeerDies(i)
  PROVE  ClientInv'
<1> USE DEF ClientInv
<1> DEFINE k == [conn[i] EXCEPT !.alive = FALSE, !.wire = <<>>]
<1>1. ConnOK(conn[i]) /\ conn[i] \in Conn
  BY DEF ConnsOK, ConnOK
<1>2. conn' = [conn EXCEPT ![i] = k] /\ UNCHANGED <<sent, running, kept, result, garbledReplies>>
  BY DEF PeerDies
<1>3. /\ k \in Conn /\ k.wire = <<>> /\ k.inFlight = conn[i].inFlight
      /\ k.socket = conn[i].socket /\ k.buffer = conn[i].buffer /\ k.closing = conn[i].closing
  BY <1>1, NothingOwed DEF Conn
<1> HIDE DEF k
<1>4. ConnOK(k)
  BY <1>1, <1>3 DEF ConnOK, OwesOne
<1>5. LooseBounded'
  BY <1>2, <1>3, <1>4, LooseSame DEF LooseBounded
<1>6. socketFaults' \in 0..SocketFaults /\ garbledReplies' \in 0..GarbledReplies
  BY <1>2, FaultTypes DEF PeerDies
<1> QED
  BY <1>2, <1>3, <1>4, <1>5, <1>6, NeutralKeeps

LEMMA CloseKeeps ==
  ASSUME ClientInv, NEW i \in 1..Len(conn), CloseEvent(i)
  PROVE  ClientInv'
<1> USE DEF ClientInv
<1> DEFINE k == [conn[i] EXCEPT !.closing = FALSE]
<1>1. ConnOK(conn[i]) /\ conn[i] \in Conn /\ conn[i].closing
  BY DEF ConnsOK, ConnOK, CloseEvent
<1>2. conn' = [conn EXCEPT ![i] = k] /\ kept' = 0
      /\ UNCHANGED <<sent, running, result, socketFaults, garbledReplies>>
  BY DEF CloseEvent
<1>3. /\ k \in Conn /\ k.wire = conn[i].wire /\ k.inFlight = conn[i].inFlight
      /\ k.socket = conn[i].socket /\ k.buffer = conn[i].buffer /\ ~k.closing
  BY <1>1 DEF Conn
<1> HIDE DEF k
<1>4. ConnOK(k) /\ k.socket = "dead"
  BY <1>1, <1>3 DEF ConnOK, OwesOne
<1>5. LooseBounded'
  BY <1>1, <1>2, <1>3, <1>4, LooseCloses
<1>6. socketFaults' \in 0..SocketFaults /\ garbledReplies' \in 0..GarbledReplies
  BY <1>2, FaultTypes
<1> QED
  BY <1>2, <1>3, <1>4, <1>5, <1>6, NeutralKeeps

(* Rejecting the holder is rejecting the command that runs.                *)
LEMMA RejectReleases ==
  ASSUME ClientInv, NEW i \in 1..Len(conn), Reject(i)
  PROVE  Released(i)
<1> USE DEF ClientInv
<1>1. CASE Engaged(conn[i])
  <2>1. running # 0 /\ conn[i].inFlight \in {0, running}
    BY <1>1 DEF OneBusy
  <2>2. Holder(i) = running
    BY <1>1, <2>1 DEF Holder, Engaged
  <2> QED
    BY <1>1, <2>1, <2>2 DEF Reject, Released, SettledWith
<1>2. CASE ~Engaged(conn[i])
  BY <1>2 DEF Engaged, Holder, Reject, Released
<1> QED
  BY <1>1, <1>2

LEMMA BuriedKeeps ==
  ASSUME ClientInv, NEW i \in 1..Len(conn), conn[i].socket # "dead", Reject(i),
         NEW closing \in BOOLEAN, Buried(i, closing), kept' = 0, UNCHANGED <<sent, garbledReplies>>,
         socketFaults' = socketFaults \/ SocketFault
  PROVE  ClientInv' /\ Released(i)
<1> USE DEF ClientInv
<1> DEFINE k == [conn[i] EXCEPT !.socket = "dead", !.inFlight = 0, !.wire = <<>>,
                                !.closing = closing]
<1>1. ConnOK(conn[i]) /\ conn[i] \in Conn
  BY DEF ConnsOK, ConnOK
<1>2. conn' = [conn EXCEPT ![i] = k]
  BY DEF Buried
<1>3. /\ k \in Conn /\ k.wire = <<>> /\ k.inFlight = 0 /\ k.socket = "dead"
      /\ k.buffer = conn[i].buffer
  BY <1>1, NothingOwed DEF Conn
<1> HIDE DEF k
<1>4. ConnOK(k) /\ ~Engaged(k)
  BY <1>1, <1>3 DEF ConnOK, OwesOne, Engaged
<1>5. Released(i)
  BY RejectReleases
<1>6. LooseBounded'
  BY <1>2, <1>3, <1>4, LooseDies
<1>7. socketFaults' \in 0..SocketFaults /\ garbledReplies' \in 0..GarbledReplies
  BY FaultTypes
<1>8. Len(k.buffer) <= Commands /\ \A c \in Cmds : result'[c] = Open => Len(k.buffer) < c
  <2>1. \A c \in Cmds : result'[c] = Open => result[c] = Open
    BY <1>5, ReleasedCommands
  <2> QED
    BY <1>3, <2>1 DEF Counted
<1>9. ClientInv'
  BY <1>2, <1>4, <1>5, <1>6, <1>7, <1>8, ReleaseKeeps
<1> QED
  BY <1>5, <1>9

LEMMA DeathKeeps ==
  ASSUME ClientInv, NEW i \in 1..Len(conn),
         CommandTimeout(i) \/ ConnectTimeout(i) \/ SocketError(i)
  PROVE  ClientInv' /\ Released(i) /\ sent' = sent
<1>1. ConnOK(conn[i])
  BY DEF ClientInv, ConnsOK
<1>2. CASE CommandTimeout(i)
  BY <1>1, <1>2, BuriedKeeps DEF CommandTimeout, ConnOK
<1>3. CASE ConnectTimeout(i)
  BY <1>1, <1>3, BuriedKeeps DEF ConnectTimeout
<1>4. CASE SocketError(i)
  <2>1. PICK closing \in BOOLEAN : Buried(i, closing)
    BY <1>4 DEF SocketError
  <2> QED
    BY <1>4, <2>1, BuriedKeeps DEF SocketError
<1> QED
  BY <1>2, <1>3, <1>4

LEMMA ClientStep == ClientInv /\ [ClientNext]_clientVars => ClientInv'
<1> SUFFICES ASSUME ClientInv, [ClientNext]_clientVars PROVE ClientInv'
  OBVIOUS
<1>1. DOMAIN conn = 1..Len(conn)
  BY ConnDomain DEF ClientInv
<1>2. CASE UNCHANGED clientVars
  <2>1. VarsOK' /\ ConnsOK' /\ InOrder' /\ OneBusy' /\ Counted'
    BY <1>2 DEF clientVars, ClientInv, VarsOK, ConnsOK, InOrder, OneBusy, Counted
  <2>2. Loose' = Loose /\ Closed' = Closed
    BY <1>2 DEF clientVars, Loose, Closed
  <2> QED
    BY <2>1, <2>2 DEF ClientInv, LooseBounded
<1> QED
  BY <1>1, <1>2, SendKeeps, StartKeeps, ConnectedKeeps, ReplyKeeps, PeerKeeps, CloseKeeps,
     DeathKeeps
  DEF ClientNext

(* Whatever sockets do, a connection that is left open without a user is   *)
(* owed to a socket that was given up.                                     *)
THEOREM ConnectionsBounded == ClientSpec => []ClientSafety
BY ClientInitially, ClientStep, InvIsSafe, PTL DEF ClientSpec

-----------------------------------------------------------------------------
(* The client implements the channel                                       *)

LEMMA OutcomeOf ==
  ASSUME InOrder, NEW c \in Cmds
  PROVE  /\ Outcome[c] = "none" <=> result[c] = Open
         /\ Outcome[c] \in {"none", "answer", "error"}
BY Numbers DEF InOrder, Outcome, Open, Rejected, Cmds

(* Releasing a command settles it in the channel.                          *)
LEMMA ReleasedIsSettled ==
  ASSUME ClientInv, NEW i \in 1..Len(conn), Released(i), sent' = sent
  PROVE  [Channel!ChannelNext]_(Channel!channelVars)
<1> USE DEF ClientInv
<1>1. CASE UNCHANGED <<result, running>>
  BY <1>1 DEF Channel!channelVars, Outcome
<1>2. ASSUME NEW v \in {Rejected, running}, SettledWith(v) PROVE Channel!Settle(running)
  <2>1. running \in Cmds /\ running <= sent
    BY <1>2, Numbers DEF SettledWith, VarsOK, Cmds
  <2>2. Outcome[running] = "none" /\ \A b \in 1..(running - 1) : Outcome[b] # "none"
    <3>1. \A b \in 1..(running - 1) : b \in Cmds
      BY <2>1, Numbers DEF Cmds
    <3> QED
      BY <1>2, <2>1, <3>1, OutcomeOf DEF InOrder, SettledWith
  <2> DEFINE o == IF v = Rejected THEN "error" ELSE "answer"
  <2>3. Outcome' = [Outcome EXCEPT ![running] = o]
    <3>1. \A c \in Cmds : result'[c] = IF c = running THEN v ELSE result[c]
      BY <1>2, <2>1 DEF SettledWith, VarsOK
    <3>2. running # 0 /\ running # Open /\ Rejected # Open
      BY <2>1, Numbers DEF Cmds, Open, Rejected
    <3>3. Outcome'[running] = o
      <4>1. CASE v = Rejected
        BY <2>1, <3>1, <3>2, <4>1 DEF Outcome
      <4>2. CASE v # Rejected
        BY <1>2, <2>1, <3>1, <3>2, <4>2 DEF Outcome
      <4> QED
        BY <4>1, <4>2
    <3>4. ASSUME NEW c \in Cmds, c # running PROVE Outcome'[c] = Outcome[c]
      <4>1. result'[c] = result[c]
        BY <3>1, <3>4
      <4>2. Outcome[c] = CASE result[c] = Open -> "none" [] result[c] = c -> "answer"
                           [] result[c] = Rejected -> "error" [] OTHER -> "of another"
        BY DEF Outcome
      <4>3. Outcome'[c] = CASE result'[c] = Open -> "none" [] result'[c] = c -> "answer"
                            [] result'[c] = Rejected -> "error" [] OTHER -> "of another"
        BY DEF Outcome
      <4> HIDE DEF Outcome
      <4> QED
        BY <4>1, <4>2, <4>3
    <3> HIDE DEF o
    <3>5. Outcome = [c \in Cmds |-> Outcome[c]] /\ Outcome' = [c \in Cmds |-> Outcome'[c]]
      BY DEF Outcome
    <3> HIDE DEF Outcome
    <3> QED
      BY <2>1, <3>3, <3>4, <3>5
  <2> HIDE DEF o
  <2>4. o \in {"answer", "error"}
    BY DEF o
  <2> QED
    BY <2>1, <2>2, <2>3, <2>4 DEF Channel!Settle
<1>3. running \in 1..Commands \/ UNCHANGED <<result, running>>
  BY Numbers DEF Released, SettledWith, VarsOK
<1> QED
  BY <1>1, <1>2, <1>3 DEF Released, Channel!ChannelNext, Channel!SettleOne

(* Sending is a call; every other step settles one command or none.        *)
LEMMA ChannelStep ==
  ClientInv /\ [ClientNext]_clientVars => [Channel!ChannelNext]_(Channel!channelVars)
<1> SUFFICES ASSUME ClientInv, [ClientNext]_clientVars
             PROVE  [Channel!ChannelNext]_(Channel!channelVars)
  OBVIOUS
<1>1. DOMAIN conn = 1..Len(conn)
  BY ConnDomain DEF ClientInv
<1>2. CASE SendCommand
  BY <1>2 DEF SendCommand, Outcome, Channel!ChannelNext, Channel!Call
<1>3. ASSUME UNCHANGED <<sent, result>> PROVE [Channel!ChannelNext]_(Channel!channelVars)
  BY <1>3 DEF Outcome, Channel!channelVars
<1>4. ASSUME NEW i \in 1..Len(conn), Connected(i) \/ PeerDies(i) \/ CloseEvent(i)
      PROVE  UNCHANGED <<sent, result>>
  BY <1>4 DEF Connected, PeerDies, CloseEvent
<1>5. StartNext \/ UNCHANGED clientVars => UNCHANGED <<sent, result>>
  BY DEF StartNext, clientVars
<1>6. ASSUME NEW i \in 1..Len(conn),
             \/ Reply(i) \/ ReplyGarbled(i)
             \/ CommandTimeout(i) \/ ConnectTimeout(i) \/ SocketError(i)
      PROVE  [Channel!ChannelNext]_(Channel!channelVars)
  BY <1>6, ReplyKeeps, DeathKeeps, ReleasedIsSettled
<1> QED
  BY <1>1, <1>2, <1>3, <1>4, <1>5, <1>6 DEF ClientNext

(* Commands are settled in the order they were sent, each once, each with  *)
(* its own answer or with an error: the client implements CommandChannel,  *)
(* but for the promise that every command is settled, which needs fairness. *)
THEOREM ClientIsAChannel ==
  ClientSpec => Channel!ChannelInit /\ [][Channel!ChannelNext]_(Channel!channelVars)
<1>1. ClientInit => Channel!ChannelInit
  <2> SUFFICES ASSUME ClientInit PROVE Channel!ChannelInit
    OBVIOUS
  <2>1. \A c \in Cmds : result[c] = Open
    BY DEF ClientInit
  <2>2. ASSUME NEW c \in Cmds PROVE Outcome[c] = "none"
    BY <2>1, Numbers DEF Outcome, Open, Rejected, Cmds
  <2>3. Outcome = [c \in Cmds |-> Outcome[c]]
    BY DEF Outcome
  <2> HIDE DEF Outcome
  <2>4. Outcome = [c \in Cmds |-> "none"]
    BY <2>2, <2>3
  <2> QED
    BY <2>4 DEF ClientInit, Channel!ChannelInit, Cmds
<1> QED
  BY <1>1, ClientInitially, ClientStep, ChannelStep, PTL DEF ClientSpec

-----------------------------------------------------------------------------
(* THE PAGE OF A SERVICE.  PageSafety needs two facts more: what requests  *)
(* look like (RequestsOK), and that what is shown of a service is typed    *)
(* (ViewOK).                                                               *)

Kinds == {"open", "status", "capacity", "logs", "history"}
LaunchStates == {"idle", "building", "built", "running"}
Sources == {"container", "build"}
Requests == [kind : Kinds, of : Services, from : Sources,
             answer : LaunchStates \cup {"none", "lost"}]

RequestsOK == wire \subseteq Requests

Statuses == [of : Services, at : LaunchStates]

ViewOK ==
  /\ status \in Statuses \cup {Nothing}
  /\ logs \in [of : Services, from : Sources] \cup {Nothing}

PageInv == PageSafety /\ RequestsOK /\ ViewOK

(* A request about a service is one, and so is one for its capacity.       *)
LEMMA RequestType ==
  /\ \A kind \in Kinds, s \in Services, src \in Sources : Request(kind, s, src) \in Requests
  /\ \A read \in Statuses \cup {Nothing} : CapacityRequest(read) \subseteq Requests
<1>1. \A kind \in Kinds, s \in Services, src \in Sources : Request(kind, s, src) \in Requests
  BY DEF Request, Requests
<1>2. \A read \in Statuses \cup {Nothing} : read # Nothing => read.of \in Services
  BY DEF Statuses
<1> QED
  BY <1>1, <1>2 DEF CapacityRequest, Kinds, Sources

(* The types after a step follow from the rest of the invariant.           *)
LEMMA Typed ==
  ASSUME launch' \in [Services -> LaunchStates], name' \in Services \cup {Nobody},
         tab' \in {"overview", "logs", "capacity", "history"}, source' \in Sources,
         capacity' \in Services \cup {Nobody}, history' \in Services \cup {Nobody},
         polling' \in BOOLEAN, tailing' \in BOOLEAN, RequestsOK', ViewOK'
  PROVE  PageTypeOK'
<1>1. \A q \in wire' : q.of \in Services /\ q.kind \in Kinds
  BY DEF RequestsOK, Requests
<1>2. (status' = Nothing \/ status'.of \in Services) /\ (logs' = Nothing \/ logs'.of \in Services)
  BY DEF ViewOK, Statuses
<1> QED
  BY <1>1, <1>2 DEF PageTypeOK, LaunchStates, Sources, Kinds

LEMMA PageInitially == PageInit => PageInv
<1> SUFFICES ASSUME PageInit PROVE PageInv
  OBVIOUS
<1>1. RequestsOK /\ ViewOK
  BY RequestType DEF PageInit, RequestsOK, ViewOK, Kinds, Sources
<1>2. launch \in [Services -> LaunchStates]
  BY DEF PageInit, LaunchStates
<1>3. PageTypeOK
  <2>1. \A q \in wire : q.of \in Services /\ q.kind \in Kinds
    BY <1>1 DEF RequestsOK, Requests
  <2> QED
    BY <1>2, <2>1 DEF PageInit, PageTypeOK, LaunchStates, Kinds
<1>4. ShownIsSelected /\ LeftIsQuiet
  BY DEF PageInit, ShownIsSelected, LeftIsQuiet
<1> QED
  BY <1>1, <1>3, <1>4 DEF PageInv, PageSafety

(* The server's steps and lost requests leave what the page shows alone.   *)
LEMMA ServerKeeps ==
  ASSUME PageInv, UNCHANGED view, launch' \in [Services -> LaunchStates], wire' \subseteq Requests
  PROVE  PageInv'
<1>1. (RequestsOK /\ ViewOK)'
  BY DEF PageInv, RequestsOK, ViewOK, view
<1>2. PageTypeOK'
  BY <1>1, Typed DEF PageInv, PageSafety, PageTypeOK, view, LaunchStates, Sources
<1>3. ShownIsSelected' /\ LeftIsQuiet'
  BY DEF PageInv, PageSafety, ShownIsSelected, LeftIsQuiet, view
<1> QED
  BY <1>1, <1>2, <1>3 DEF PageInv, PageSafety

LEMMA LaunchMoves ==
  ASSUME PageInv, NEW s \in Services, LaunchBegins(s) \/ BuildLands(s)
  PROVE  PageInv'
<1>1. launch' \in [Services -> LaunchStates] /\ wire' \subseteq Requests /\ UNCHANGED view
  BY DEF LaunchBegins, BuildLands, PageInv, PageSafety, PageTypeOK, RequestsOK, LaunchStates
<1> QED
  BY <1>1, ServerKeeps

LEMMA ServedKeeps ==
  ASSUME PageInv, NEW q \in wire, Served(q) \/ ReadLost(q)
  PROVE  PageInv'
<1>1. q \in Requests /\ wire \subseteq Requests /\ launch \in [Services -> LaunchStates]
  BY DEF PageInv, PageSafety, PageTypeOK, RequestsOK, LaunchStates
<1>2. launch[q.of] \in LaunchStates /\ q.of \in Services
  BY <1>1 DEF Requests
<1>3. \A answer \in LaunchStates \cup {"none", "lost"} : [q EXCEPT !.answer = answer] \in Requests
  BY <1>1 DEF Requests
<1>4. CASE Served(q)
  <2> DEFINE after == IF ReadsStatus(q) /\ launch[q.of] = "built" THEN "running" ELSE launch[q.of]
  <2>1. after \in LaunchStates
    BY <1>2 DEF LaunchStates
  <2>2. launch' = [launch EXCEPT ![q.of] = after] /\ UNCHANGED view
        /\ wire' = (wire \ {q}) \cup {[q EXCEPT !.answer = after]}
    BY <1>4 DEF Served
  <2> HIDE DEF after
  <2>3. launch' \in [Services -> LaunchStates] /\ wire' \subseteq Requests
    BY <1>1, <1>2, <1>3, <2>1, <2>2
  <2> QED
    BY <2>2, <2>3, ServerKeeps
<1>5. CASE ReadLost(q)
  <2>1. UNCHANGED <<launch, view>> /\ wire' = (wire \ {q}) \cup {[q EXCEPT !.answer = "lost"]}
    BY <1>5 DEF ReadLost
  <2> QED
    BY <1>1, <1>3, <2>1, ServerKeeps
<1> QED
  BY <1>4, <1>5

-----------------------------------------------------------------------------
(* Navigation and clicks                                                   *)

LEMMA AskKeeps ==
  ASSUME PageInv,
         (\E s \in Services : GoTo(s)) \/ LeavePage \/ Poll \/ TailLogs \/ Refresh \/ SwitchSource
           \/ \E t \in {"overview", "logs", "capacity", "history"} : OpenTab(t)
  PROVE  PageInv'
<1>1. wire' \subseteq Requests
  <2>1. wire \subseteq Requests /\ source \in Sources /\ status \in Statuses \cup {Nothing}
        /\ (name # Nobody => name \in Services)
    BY DEF PageInv, PageSafety, PageTypeOK, RequestsOK, ViewOK, Sources
  <2>2. (polling \/ tailing) => name # Nobody
    BY DEF PageInv, PageSafety, LeftIsQuiet
  <2>3. CapacityRequest(status) \subseteq Requests
    BY <2>1, RequestType
  <2>4. ASSUME NEW s \in Services, GoTo(s) PROVE wire' \subseteq Requests
    BY <2>1, <2>4, RequestType DEF GoTo, Kinds
  <2>5. CASE LeavePage
    BY <2>1, <2>5 DEF LeavePage
  <2>6. CASE Poll \/ TailLogs
    BY <2>1, <2>2, <2>6, RequestType DEF Poll, TailLogs, Kinds
  <2>7. CASE Refresh
    BY <2>1, <2>3, <2>7, RequestType DEF Refresh, Clicks, Kinds
  <2>8. CASE SwitchSource
    <3>1. source' \in Sources /\ name \in Services
      BY <2>1, <2>8 DEF SwitchSource, Clicks, Sources
    <3> QED
      BY <2>1, <2>8, <3>1, RequestType DEF SwitchSource, Kinds
  <2>9. ASSUME NEW t \in {"overview", "logs", "capacity", "history"}, OpenTab(t)
        PROVE  wire' \subseteq Requests
    <3>1. name \in Services
      BY <2>1, <2>9 DEF OpenTab, Clicks
    <3>2. {Request("logs", name, source), Request("history", name, source)} \subseteq Requests
      BY <2>1, <3>1, RequestType DEF Kinds
    <3> QED
      BY <2>1, <2>3, <2>9, <3>2 DEF OpenTab
  <2> QED
    BY <2>4, <2>5, <2>6, <2>7, <2>8, <2>9
<1>2. RequestsOK'
  BY <1>1 DEF RequestsOK
<1>3. ViewOK'
  BY DEF PageInv, ViewOK, GoTo, LeavePage, Poll, TailLogs, Refresh, SwitchSource, OpenTab
<1>4. /\ launch' \in [Services -> LaunchStates] /\ name' \in Services \cup {Nobody}
      /\ tab' \in {"overview", "logs", "capacity", "history"} /\ source' \in Sources
      /\ capacity' \in Services \cup {Nobody} /\ history' \in Services \cup {Nobody}
  BY DEF PageInv, PageSafety, PageTypeOK, LaunchStates, Sources,
         GoTo, LeavePage, Poll, TailLogs, Refresh, SwitchSource, OpenTab
<1>5. polling' \in BOOLEAN /\ tailing' \in BOOLEAN
  BY DEF PageInv, PageSafety, PageTypeOK,
         GoTo, LeavePage, Poll, TailLogs, Refresh, SwitchSource, OpenTab
<1>6. PageTypeOK'
  BY <1>2, <1>3, <1>4, <1>5, Typed
<1>7. ShownIsSelected'
  BY DEF PageInv, PageSafety, ShownIsSelected, Nothing,
         GoTo, LeavePage, Poll, TailLogs, Refresh, SwitchSource, OpenTab
<1>8. LeftIsQuiet'
  BY ServicePageAssumption
  DEF PageInv, PageSafety, LeftIsQuiet, Nobody, Clicks,
      GoTo, LeavePage, Poll, TailLogs, Refresh, SwitchSource, OpenTab
<1> QED
  BY <1>2, <1>3, <1>6, <1>7, <1>8 DEF PageInv, PageSafety

-----------------------------------------------------------------------------
(* Replies                                                                 *)

(* A reply to a request about the service in the address bar finds a page. *)
LEMMA WantedIsOpen ==
  ASSUME PageInv, NEW q \in wire, Wanted(q)
  PROVE  name \in Services /\ name # Nobody
BY ServicePageAssumption DEF PageInv, RequestsOK, Requests, Wanted, Nobody

LEMMA StatusKeeps ==
  ASSUME PageInv, NEW q \in wire, StatusArrives(q) \/ StatusFails(q)
  PROVE  PageInv'
<1>1. q \in Requests /\ wire \subseteq Requests /\ source \in Sources
      /\ status \in Statuses \cup {Nothing}
  BY DEF PageInv, PageSafety, PageTypeOK, RequestsOK, ViewOK, Sources
<1>2. UNCHANGED <<launch, name, tab, source, logs, history, tailing>>
  BY DEF StatusArrives, StatusFails
<1>3. ThenCapacity(q, status')
  BY DEF StatusArrives, StatusFails
<1>4. \/ UNCHANGED <<status, polling>>
      \/ /\ Wanted(q) /\ q.answer \in LaunchStates
         /\ status' = [of |-> q.of, at |-> q.answer] /\ polling' = Moving(q.answer)
  BY <1>1 DEF StatusArrives, StatusFails, Answered, Requests
<1>5. status' \in Statuses \cup {Nothing}
  BY <1>1, <1>4 DEF Statuses, Requests
<1>6. wire' \subseteq Requests
  <2>1. CapacityRequest(status') \subseteq Requests
    BY <1>5, RequestType
  <2>2. \A r \in {Request("history", name, source)} :
          (status # Nothing /\ status' # Nothing /\ status.at # status'.at /\ history # Nobody)
             => r \in Requests
    BY <1>1, <1>4, WantedIsOpen, RequestType DEF Kinds
  <2> QED
    BY <1>1, <1>3, <2>1, <2>2 DEF ThenCapacity
<1>7. (RequestsOK /\ ViewOK)'
  BY <1>2, <1>5, <1>6 DEF PageInv, RequestsOK, ViewOK
<1>8. polling' \in BOOLEAN
  <2>1. Moving(q.answer) \in BOOLEAN /\ polling \in BOOLEAN
    BY DEF Moving, PageInv, PageSafety, PageTypeOK
  <2> QED
    BY <1>4, <2>1
<1>9. capacity' \in Services \cup {Nobody}
  BY <1>3 DEF ThenCapacity, PageInv, PageSafety, PageTypeOK
<1>10. PageTypeOK'
  BY <1>2, <1>7, <1>8, <1>9, Typed
  DEF PageInv, PageSafety, PageTypeOK, LaunchStates, Sources
<1>11. ShownIsSelected'
  BY <1>2, <1>4 DEF PageInv, PageSafety, ShownIsSelected, Wanted
<1>12. LeftIsQuiet'
  BY <1>2, <1>4, WantedIsOpen DEF PageInv, PageSafety, LeftIsQuiet
<1> QED
  BY <1>7, <1>10, <1>11, <1>12 DEF PageInv, PageSafety

LEMMA OtherRepliesKeep ==
  ASSUME PageInv, NEW q \in wire,
         CapacityArrives(q) \/ LogsArrive(q) \/ LogsFail(q) \/ HistoryArrives(q) \/ OtherFails(q)
  PROVE  PageInv'
<1>1. q \in Requests /\ wire \subseteq Requests
  BY DEF PageInv, RequestsOK
<1>2. UNCHANGED <<launch, name, tab, source, status, polling>> /\ wire' = wire \ {q}
  BY DEF CapacityArrives, LogsArrive, LogsFail, HistoryArrives, OtherFails, view
<1>3. \/ UNCHANGED logs \/ logs' = Nothing
      \/ Wanted(q) /\ q.from = source /\ logs' = [of |-> q.of, from |-> q.from]
  BY DEF CapacityArrives, LogsArrive, LogsFail, HistoryArrives, OtherFails, view, StillSelected
<1>4. (capacity' = capacity \/ capacity' = q.of)
      /\ (history' = history \/ (Wanted(q) /\ history' = q.of))
  <2>1. CASE CapacityArrives(q)
    BY <2>1 DEF CapacityArrives
  <2>2. CASE HistoryArrives(q)
    BY <2>2 DEF HistoryArrives
  <2>3. CASE LogsArrive(q) \/ LogsFail(q) \/ OtherFails(q)
    BY <2>3 DEF LogsArrive, LogsFail, OtherFails, view
  <2> QED
    BY <2>1, <2>2, <2>3
<1>5. (RequestsOK /\ ViewOK)'
  BY <1>1, <1>2, <1>3 DEF PageInv, RequestsOK, ViewOK, Requests
<1>6. tailing' \in BOOLEAN /\ (tailing' => tailing \/ Wanted(q))
  <2>1. tailing \in BOOLEAN
    BY DEF PageInv, PageSafety, PageTypeOK
  <2>2. CASE LogsArrive(q)
    <3>1. CASE StillSelected(q)
      <4>1. tailing' = (tab = "logs" /\ source = "build" /\ ShowsMoving)
        BY <2>2, <3>1 DEF LogsArrive
      <4> QED
        BY <3>1, <4>1 DEF StillSelected
    <3>2. CASE ~StillSelected(q)
      BY <2>1, <2>2, <3>2 DEF LogsArrive
    <3> QED
      BY <3>1, <3>2
  <2>3. CASE CapacityArrives(q) \/ LogsFail(q) \/ HistoryArrives(q) \/ OtherFails(q)
    BY <2>1, <2>3 DEF CapacityArrives, LogsFail, HistoryArrives, OtherFails, view
  <2> QED
    BY <2>2, <2>3
<1>7. capacity' \in Services \cup {Nobody} /\ history' \in Services \cup {Nobody}
  BY <1>1, <1>4 DEF PageInv, PageSafety, PageTypeOK, Requests
<1>8. PageTypeOK'
  BY <1>2, <1>5, <1>6, <1>7, Typed
  DEF PageInv, PageSafety, PageTypeOK, LaunchStates, Sources
<1>9. ShownIsSelected'
  BY <1>2, <1>3, <1>4 DEF PageInv, PageSafety, ShownIsSelected, Wanted
<1>10. LeftIsQuiet'
  BY <1>2, <1>6, WantedIsOpen DEF PageInv, PageSafety, LeftIsQuiet
<1> QED
  BY <1>5, <1>8, <1>9, <1>10 DEF PageInv, PageSafety

(* Whatever services are visited, tabs opened and logs chosen while        *)
(* replies are out, and whichever of them are lost, the status, the lines  *)
(* and the history shown are those selected, and a page that was left asks *)
(* for nothing (MicroservicePage.vue, the checks behind each await).       *)
THEOREM PageShowsItsService == PageSpec => []PageSafety
<1>1. PageInv /\ [PageNext]_pageVars => PageInv'
  <2> SUFFICES ASSUME PageInv, [PageNext]_pageVars PROVE PageInv'
    OBVIOUS
  <2>1. CASE UNCHANGED pageVars
    BY <2>1, ServerKeeps
    DEF pageVars, PageInv, PageSafety, PageTypeOK, RequestsOK, LaunchStates
  <2>2. ASSUME NEW q \in wire, Replies(q) PROVE PageInv'
    BY <2>2, StatusKeeps, OtherRepliesKeep DEF Replies
  <2> QED
    BY <2>1, <2>2, LaunchMoves, ServedKeeps, AskKeeps DEF PageNext, AnyServed, AnyReply
<1>2. PageInv => PageSafety
  BY DEF PageInv
<1> QED
  BY <1>1, <1>2, PageInitially, PTL DEF PageSpec
-----------------------------------------------------------------------------
(* A VALUE THAT LOADS BY ITSELF                                            *)

(* Something is shown only of a request that was made.                     *)
ShownWasAsked == shown # "loading" => controller # 0

LoadInv == LoadSafety /\ ShownWasAsked

(* Aborting a request leaves the types alone, and every request that is    *)
(* over.                                                                   *)
LEMMA AbortedType ==
  ASSUME LoadTypeOK
  PROVE  /\ Aborted \in [Fetch -> {"unsent", "open", "answered", "refused", "aborted", "over"}]
         /\ \A n \in Fetch : fetches[n] = "over" => Aborted[n] = "over"
BY DEF LoadTypeOK, Aborted, Fetch

LEMMA LoadInitially == LoadInit => LoadInv
<1> SUFFICES ASSUME LoadInit PROVE LoadInv
  OBVIOUS
<1>1. LoadTypeOK
  <2>1. fetches \in [Fetch -> {"unsent", "open", "answered", "refused", "aborted", "over"}]
    BY DEF LoadInit
  <2>2. 0 \in 0..Reloads
    BY ReloadsAssumption
  <2> QED
    BY <2>1, <2>2 DEF LoadInit, LoadTypeOK
<1>2. NewestWins /\ ShownWasAsked
  BY DEF LoadInit, NewestWins, ShownWasAsked
<1> QED
  BY <1>1, <1>2 DEF LoadInv, LoadSafety

LEMMA LoadStep == LoadInv /\ [LoadNext]_loadVars => LoadInv'
<1> SUFFICES ASSUME LoadInv, [LoadNext]_loadVars PROVE LoadInv'
  OBVIOUS
<1> USE ReloadsAssumption DEF LoadInv, LoadSafety, NewestWins, ShownWasAsked
<1>1. CASE Reload
  <2>1. controller + 1 \in Fetch
    BY <1>1 DEF Reload, LoadTypeOK, Fetch
  <2> QED
    BY <1>1, <2>1, AbortedType DEF Reload, LoadTypeOK
<1>2. CASE TimerFires
  BY <1>2 DEF TimerFires, LoadTypeOK, Fetch
<1>3. CASE Dispose
  <2>1. LoadTypeOK'
    BY <1>3, AbortedType DEF Dispose, LoadTypeOK
  <2>2. shown # "loading" => controller \in Fetch
    BY DEF LoadTypeOK, Fetch
  <2> QED
    BY <1>3, <2>1, <2>2, AbortedType DEF Dispose
<1>4. CASE \E n \in Fetch, how \in {"answered", "refused"} : Respond(n, how)
  BY <1>4 DEF Respond, LoadTypeOK, Fetch
<1>5. ASSUME NEW n \in Fetch, Continue(n) PROVE LoadInv'
  <2>1. Settled(n) \in {"ready", "error", "timeout"}
    BY DEF Settled
  <2>2. CASE Speaks(n)
    <3>1. n = controller /\ shown' = Settled(n) /\ fetches'[n] = "over"
      BY <1>5, <2>2 DEF Continue, Speaks, LoadTypeOK
    <3>2. shown' = "ready" => content' = n
      BY <1>5, <2>2, <3>1 DEF Continue, Settled
    <3>3. shown' = "timeout" => n \in timedOut
      BY <3>1 DEF Settled
    <3> QED
      BY <1>5, <2>1, <2>2, <3>1, <3>2, <3>3 DEF Continue, LoadTypeOK, Fetch
  <2>3. CASE ~Speaks(n)
    BY <1>5, <2>3 DEF Continue, LoadTypeOK, Fetch
  <2> QED
    BY <2>2, <2>3
<1>6. CASE UNCHANGED loadVars
  BY <1>6 DEF loadVars, LoadTypeOK
<1> QED
  BY <1>1, <1>2, <1>3, <1>4, <1>5, <1>6 DEF LoadNext

(* Whatever order the answers, the timers and the reloads come in, what is *)
(* shown is the outcome of the newest request (useAsyncValue.ts 63-64).    *)
THEOREM NewestShown == LoadSpec => []LoadSafety
<1>1. LoadInv => LoadSafety
  BY DEF LoadInv
<1> QED
  BY <1>1, LoadInitially, LoadStep, PTL DEF LoadSpec
=============================================================================
