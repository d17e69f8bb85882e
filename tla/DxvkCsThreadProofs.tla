-------------------------- MODULE DxvkCsThreadProofs --------------------------
(***************************************************************************)
(* Proofs about the command stream, for any number of callers, any size of *)
(* a chunk and any number of commands.                                     *)
(*                                                                         *)
(* Commands are numbered as they are recorded, so those executed, those of *)
(* the worker's chunk, of the queued chunks and of the chunk being         *)
(* recorded are adjacent intervals; and every command that is not executed *)
(* yet is in a chunk whose number bounds what a caller must wait for.      *)
(***************************************************************************)
EXTENDS DxvkCsThread, SequenceTheorems, TLAPS

(* The chunk holds the commands that follow number from, in order.         *)
Runs(c, from) == \A j \in 1 .. Len(c) : c[j] = from + j

(* The chunks hold the commands from + 1 .. to; b[i] is where chunk i ends.*)
Holds(q, from, to) ==
  \E b \in [0 .. Len(q) -> 0 .. MaxCommands] :
    /\ b[0] = from /\ b[Len(q)] = to
    /\ \A i \in 1 .. Len(q) : Runs(q[i], b[i - 1]) /\ b[i] = b[i - 1] + Len(q[i])

(* The chunks that were taken from the queue.                              *)
Taken == m_chunksExecuted + IF pc["worker"] \in {"execute", "executed"} THEN 1 ELSE 0

(* The command is executed once the worker has counted n chunks.           *)
Covered(id, n) ==
  \/ id \in Range(executed)
  \/ id \in Range(chunk) /\ m_chunksExecuted < n
  \/ \E i \in 1 .. Len(m_chunksQueued) :
       id \in Range(m_chunksQueued[i]) /\ Taken + i <= n
  \/ id \in Range(m_csChunk) /\ m_csSeqNum < n

Places(t) ==
  IF t = "worker" THEN {"loop", "waiting", "execute", "executed", "exited"}
                  ELSE {"idle", "synchronize", "synchronized", "gone"}

Counts ==
  /\ pc = [t \in Threads |-> pc[t]] /\ \A t \in Threads : pc[t] \in Places(t)
  /\ m_chunksQueued \in Seq(Seq(Commands) \ {<<>>})
  /\ m_chunksDispatched = Taken + Len(m_chunksQueued)
  /\ m_chunksDispatched + Len(m_csChunk) <= commands /\ seqOfResource <= commands

Ordered ==
  /\ Runs(executed, 0)
  /\ Runs(chunk, Len(executed))
  /\ Holds(m_chunksQueued, Len(executed) + Len(chunk), commands - Len(m_csChunk))
  /\ Runs(m_csChunk, commands - Len(m_csChunk))
  /\ pc["worker"] = "execute" <=> chunk # <<>>

Numbers == 0 .. MaxCommands + 1

Placed ==
  \A n \in Numbers : n >= seqOfResource => \A id \in uses : Covered(id, n)

(* A caller keeps the lock while it waits, and for ever when it destroys   *)
(* the device.                                                             *)
Locked ==
  /\ \A c \in Callers : pc[c] # "idle" => deviceLock = c
  /\ m_stopped =>
       /\ \E c \in Callers : pc[c] = "gone"
       /\ m_chunksExecuted = m_chunksDispatched /\ m_csChunk = <<>>
  /\ pc["worker"] = "exited" => m_stopped

Waits ==
  \A c \in Callers : pc[c] \in {"synchronize", "synchronized"} =>
    /\ before[c] = commands
    /\ asked[c] = SynchronizeAll => seq[c] = m_chunksDispatched /\ m_csChunk = <<>>
    /\ asked[c] # SynchronizeAll => seq[c] = seqOfResource
    /\ pc[c] = "synchronized" => m_chunksExecuted >= seq[c]

IInv == TypeOK /\ Counts /\ Ordered /\ Placed /\ Locked /\ Waits

-----------------------------------------------------------------------------
(* Sequences of chunks *)

LEMMA HoldsNone ==
  ASSUME NEW from \in 0 .. MaxCommands
  PROVE  Holds(<<>>, from, from)
<1> DEFINE b == [i \in 0 .. 0 |-> from]
<1>1. b \in [0 .. 0 -> 0 .. MaxCommands] /\ b[0] = from /\ Len(<<>>) = 0
  OBVIOUS
<1> HIDE DEF b
<1>2. \A i \in 1 .. Len(<<>>) :
        Runs(<<>>[i], b[i - 1]) /\ b[i] = b[i - 1] + Len(<<>>[i])
  BY <1>1
<1>3. QED
  BY <1>1, <1>2 DEF Holds

LEMMA HoldsOne ==
  ASSUME NEW c \in Seq(Commands), NEW from \in 0 .. MaxCommands, Runs(c, from),
         from + Len(c) <= MaxCommands
  PROVE  Holds(<<c>>, from, from + Len(c))
<1> DEFINE b == [i \in 0 .. 1 |-> IF i = 0 THEN from ELSE from + Len(c)]
<1>1. MaxCommands \in Nat /\ Len(c) \in Nat
  BY StreamAssumption
<1>2. b \in [0 .. 1 -> 0 .. MaxCommands] /\ b[0] = from /\ b[1] = from + Len(c)
  BY <1>1
<1>3. Len(<<c>>) = 1 /\ <<c>>[1] = c
  OBVIOUS
<1>4. \A i \in 1 .. 1 : Runs(<<c>>[i], b[i - 1]) /\ b[i] = b[i - 1] + Len(<<c>>[i])
  <2> SUFFICES ASSUME NEW i \in 1 .. 1
               PROVE  Runs(<<c>>[i], b[i - 1]) /\ b[i] = b[i - 1] + Len(<<c>>[i])
    OBVIOUS
  <2>1. i = 1 /\ i - 1 = 0
    OBVIOUS
  <2> HIDE DEF b
  <2>2. QED
    BY <2>1, <1>2, <1>3
<1> HIDE DEF b
<1>5. QED
  BY <1>2, <1>3, <1>4 DEF Holds

LEMMA HoldsConcat ==
  ASSUME NEW p \in Seq(Seq(Commands)), NEW q \in Seq(Seq(Commands)),
         NEW from, NEW mid, NEW to, Holds(p, from, mid), Holds(q, mid, to)
  PROVE  Holds(p \o q, from, to)
<1>1. PICK a \in [0 .. Len(p) -> 0 .. MaxCommands] :
        /\ a[0] = from /\ a[Len(p)] = mid
        /\ \A i \in 1 .. Len(p) : Runs(p[i], a[i - 1]) /\ a[i] = a[i - 1] + Len(p[i])
  BY DEF Holds
<1>2. PICK b \in [0 .. Len(q) -> 0 .. MaxCommands] :
        /\ b[0] = mid /\ b[Len(q)] = to
        /\ \A i \in 1 .. Len(q) : Runs(q[i], b[i - 1]) /\ b[i] = b[i - 1] + Len(q[i])
  BY DEF Holds
<1>3. Len(p) \in Nat /\ Len(q) \in Nat /\ Len(p \o q) = Len(p) + Len(q)
  OBVIOUS
<1> DEFINE d == [i \in 0 .. Len(p) + Len(q) |-> IF i <= Len(p) THEN a[i] ELSE b[i - Len(p)]]
<1>4. d \in [0 .. Len(p) + Len(q) -> 0 .. MaxCommands]
  BY <1>3
<1>5. /\ \A i \in 0 .. Len(p) : d[i] = a[i]
      /\ \A i \in 0 .. Len(q) : d[Len(p) + i] = b[i]
  BY <1>1, <1>2, <1>3
<1> HIDE DEF d
<1>6. d[0] = from /\ d[Len(p) + Len(q)] = to
  BY <1>1, <1>2, <1>3, <1>5
<1>7. \A i \in 1 .. Len(p) + Len(q) :
        Runs((p \o q)[i], d[i - 1]) /\ d[i] = d[i - 1] + Len((p \o q)[i])
  <2> SUFFICES ASSUME NEW i \in 1 .. Len(p) + Len(q)
               PROVE  Runs((p \o q)[i], d[i - 1]) /\ d[i] = d[i - 1] + Len((p \o q)[i])
    OBVIOUS
  <2>1. CASE i <= Len(p)
    <3>1. (p \o q)[i] = p[i] /\ d[i - 1] = a[i - 1] /\ d[i] = a[i]
      BY <2>1, <1>3, <1>5
    <3>2. QED
      BY <2>1, <3>1, <1>1, <1>3
  <2>2. CASE i > Len(p)
    <3>1. PICK j \in 1 .. Len(q) : i = Len(p) + j
      <4>1. i - Len(p) \in 1 .. Len(q) /\ i = Len(p) + (i - Len(p))
        BY <2>2, <1>3
      <4>2. QED
        BY <4>1
    <3>2. (p \o q)[i] = q[j] /\ j - 1 \in 0 .. Len(q) /\ i - 1 = Len(p) + (j - 1)
      BY <3>1, <2>2, <1>3
    <3>3. d[i - 1] = b[j - 1] /\ d[i] = b[j]
      BY <3>1, <3>2, <1>3, <1>5
    <3>4. QED
      BY <3>1, <3>2, <3>3, <1>2, <1>3
  <2>3. QED
    BY <2>1, <2>2, <1>3
<1>8. QED
  BY <1>3, <1>4, <1>6, <1>7 DEF Holds

LEMMA HoldsTail ==
  ASSUME NEW q \in Seq(Seq(Commands)), q # <<>>, NEW from, NEW to, Holds(q, from, to)
  PROVE  /\ Runs(Head(q), from) /\ from \in 0 .. MaxCommands
         /\ Holds(Tail(q), from + Len(Head(q)), to)
<1>1. PICK b \in [0 .. Len(q) -> 0 .. MaxCommands] :
        /\ b[0] = from /\ b[Len(q)] = to
        /\ \A i \in 1 .. Len(q) : Runs(q[i], b[i - 1]) /\ b[i] = b[i - 1] + Len(q[i])
  BY DEF Holds
<1>2. /\ Len(q) \in Nat \ {0} /\ Len(Tail(q)) = Len(q) - 1 /\ Head(q) = q[1]
      /\ \A i \in 1 .. Len(q) - 1 : Tail(q)[i] = q[i + 1]
  OBVIOUS
<1>3. 1 \in 1 .. Len(q) /\ 1 - 1 = 0
  BY <1>2
<1>4. Runs(q[1], from) /\ b[1] = from + Len(q[1]) /\ from \in 0 .. MaxCommands
  <2>1. Runs(q[1], b[1 - 1]) /\ b[1] = b[1 - 1] + Len(q[1])
    BY <1>1, <1>3
  <2>2. b[1 - 1] = from
    BY <1>1, <1>3
  <2>3. 0 \in 0 .. Len(q)
    BY <1>2
  <2>4. QED
    BY <2>1, <2>2, <2>3, <1>1
<1> DEFINE d == [i \in 0 .. Len(q) - 1 |-> b[i + 1]]
<1>5. /\ d \in [0 .. Len(q) - 1 -> 0 .. MaxCommands]
      /\ \A i \in 0 .. Len(q) - 1 : d[i] = b[i + 1]
  BY <1>2
<1> HIDE DEF d
<1>6. d[0] = from + Len(q[1]) /\ d[Len(q) - 1] = to
  <2>1. 0 \in 0 .. Len(q) - 1 /\ Len(q) - 1 \in 0 .. Len(q) - 1 /\ Len(q) - 1 + 1 = Len(q) /\ 0 + 1 = 1
    BY <1>2
  <2>2. d[0] = b[1]
    BY <1>5, <2>1
  <2>3. d[Len(q) - 1] = b[Len(q)]
    BY <1>5, <2>1
  <2>4. QED
    BY <2>2, <2>3, <1>1, <1>4
<1>7. \A i \in 1 .. Len(q) - 1 :
        Runs(Tail(q)[i], d[i - 1]) /\ d[i] = d[i - 1] + Len(Tail(q)[i])
  <2> SUFFICES ASSUME NEW i \in 1 .. Len(q) - 1
               PROVE  Runs(Tail(q)[i], d[i - 1]) /\ d[i] = d[i - 1] + Len(Tail(q)[i])
    OBVIOUS
  <2>1. /\ i + 1 \in 1 .. Len(q) /\ i - 1 \in 0 .. Len(q) - 1 /\ i \in 0 .. Len(q) - 1
        /\ (i - 1) + 1 = i /\ (i + 1) - 1 = i
    BY <1>2
  <2>2. d[i - 1] = b[i] /\ d[i] = b[i + 1]
    BY <1>5, <2>1
  <2>3. Runs(q[i + 1], b[i]) /\ b[i + 1] = b[i] + Len(q[i + 1])
    BY <1>1, <2>1
  <2>4. QED
    BY <2>2, <2>3, <1>2
<1>8. Holds(Tail(q), from + Len(q[1]), to)
  BY <1>2, <1>5, <1>6, <1>7 DEF Holds
<1>9. QED
  BY <1>2, <1>4, <1>8

-----------------------------------------------------------------------------
(* A call of the front end: the chunks it dispatches, and what it leaves   *)
(* in the chunk being recorded.                                            *)

Dispatches(chunks) ==
  /\ chunks \in Seq(Seq(Commands) \ {<<>>})
  /\ commands' \in commands .. MaxCommands
  /\ m_csChunk' \in Seq(Commands) /\ Len(m_csChunk') <= ChunkSize
  /\ m_chunksDispatched + Len(chunks) + Len(m_csChunk') <= commands'
  /\ Holds(chunks, commands - Len(m_csChunk), commands' - Len(m_csChunk'))
  /\ Runs(m_csChunk', commands' - Len(m_csChunk'))
  /\ Range(m_csChunk) \subseteq Range(IF chunks = <<>> THEN m_csChunk' ELSE chunks[1])
  /\ \A id \in commands + 1 .. commands' :
       id \in Range(m_csChunk') \/ \E i \in 1 .. Len(chunks) : id \in Range(chunks[i])
  /\ DispatchChunks(chunks)
  /\ UNCHANGED <<m_chunksExecuted, chunk, executed>> /\ pc'["worker"] = pc["worker"]

LEMMA RecordDispatches ==
  ASSUME TypeOK, Counts, Ordered, NEW c \in Callers, Record(c)
  PROVE  \E chunks : Dispatches(chunks)
<1>0. /\ commands < MaxCommands /\ commands' = commands + 1
      /\ m_chunksDispatched \in 0 .. MaxCommands /\ m_csChunk \in Seq(Commands)
      /\ commands \in 0 .. MaxCommands /\ m_chunksDispatched + Len(m_csChunk) <= commands
  BY DEF TypeOK, Record, Counts
<1>1. /\ MaxCommands \in Nat /\ ChunkSize \in Nat \ {0} /\ commands \in 0 .. MaxCommands
      /\ commands' = commands + 1 /\ commands' \in Commands /\ m_csChunk \in Seq(Commands)
      /\ Len(m_csChunk) \in Nat /\ m_chunksDispatched \in Nat
      /\ m_chunksDispatched + Len(m_csChunk) <= commands
      /\ commands' \in commands .. MaxCommands
  BY <1>0, StreamAssumption DEF Commands
<1>2. UNCHANGED <<m_chunksExecuted, chunk, executed>> /\ pc'["worker"] = pc["worker"]
  BY DEF Record
<1>3. Runs(m_csChunk, commands - Len(m_csChunk))
  BY DEF Ordered
<1>4. CASE Full
  <2> DEFINE chunks == <<m_csChunk>>
  <2>1. /\ DispatchChunks(chunks) /\ m_csChunk' = <<commands'>>
        /\ Len(m_csChunk) = ChunkSize /\ m_csChunk # <<>>
    BY <1>1, <1>4 DEF Record, Full
  <2>2. /\ chunks \in Seq(Seq(Commands) \ {<<>>}) /\ chunks # <<>>
        /\ Len(chunks) = 1 /\ chunks[1] = m_csChunk
    BY <1>1, <2>1
  <2>3. /\ m_csChunk' \in Seq(Commands) /\ Len(m_csChunk') = 1 /\ Len(m_csChunk') <= ChunkSize /\ m_csChunk'[1] = commands'
        /\ commands' \in Range(m_csChunk')
    BY <1>1, <2>1 DEF Range
  <2>4. Holds(chunks, commands - Len(m_csChunk), commands' - Len(m_csChunk'))
    <3>1. commands - Len(m_csChunk) \in 0 .. MaxCommands
      BY <1>1
    <3>2. commands - Len(m_csChunk) + Len(m_csChunk) = commands' - Len(m_csChunk')
      BY <1>1, <2>3
    <3>3. commands - Len(m_csChunk) + Len(m_csChunk) <= MaxCommands
      BY <1>1
    <3>4. QED
      BY <3>1, <3>2, <3>3, <1>1, <1>3, HoldsOne
  <2>5. Runs(m_csChunk', commands' - Len(m_csChunk'))
    BY <1>1, <2>3 DEF Runs
  <2>6. \A id \in commands + 1 .. commands' : id \in Range(m_csChunk')
    BY <1>1, <2>3
  <2>7. m_chunksDispatched + Len(chunks) + Len(m_csChunk') <= commands'
    BY <1>1, <2>1, <2>2, <2>3
  <2> HIDE DEF chunks
  <2>8. Dispatches(chunks)
    BY <1>1, <1>2, <2>1, <2>2, <2>3, <2>4, <2>5, <2>6, <2>7 DEF Dispatches
  <2>9. QED
    BY <2>8
<1>5. CASE ~Full
  <2>1. /\ DispatchChunks(<<>>) /\ m_csChunk' = Append(m_csChunk, commands')
        /\ Len(m_csChunk) < ChunkSize
    <3>1. DispatchChunks(<<>>) /\ m_csChunk' = Append(m_csChunk, commands')
      BY <1>5 DEF Record
    <3>2. Len(m_csChunk) <= ChunkSize /\ Len(m_csChunk) # ChunkSize
      BY <1>5 DEF Full, TypeOK
    <3>3. QED
      BY <1>1, <3>1, <3>2
  <2>2. /\ m_csChunk' \in Seq(Commands) /\ Len(m_csChunk') = Len(m_csChunk) + 1
        /\ \A i \in 1 .. Len(m_csChunk) : m_csChunk'[i] = m_csChunk[i]
        /\ m_csChunk'[Len(m_csChunk) + 1] = commands'
    BY <1>1, <2>1
  <2>3. commands' \in Range(m_csChunk') /\ Range(m_csChunk) \subseteq Range(m_csChunk')
    <3>1. DOMAIN m_csChunk = 1 .. Len(m_csChunk) /\ DOMAIN m_csChunk' = 1 .. Len(m_csChunk) + 1
      BY <1>1, <2>2
    <3>2. Len(m_csChunk) + 1 \in DOMAIN m_csChunk' /\ \A i \in DOMAIN m_csChunk : i \in DOMAIN m_csChunk'
      BY <1>1, <3>1
    <3>3. QED
      BY <2>2, <3>1, <3>2 DEF Range
  <2>4. Holds(<<>>, commands - Len(m_csChunk), commands' - Len(m_csChunk'))
    BY <1>1, <2>2, HoldsNone
  <2>5. Runs(m_csChunk', commands' - Len(m_csChunk'))
    <3>1. commands' - Len(m_csChunk') = commands - Len(m_csChunk)
      BY <1>1, <2>2
    <3>2. m_csChunk'[Len(m_csChunk) + 1] = commands - Len(m_csChunk) + (Len(m_csChunk) + 1)
      BY <1>1, <2>2
    <3>3. \A j \in 1 .. Len(m_csChunk) : m_csChunk'[j] = commands - Len(m_csChunk) + j
      BY <1>3, <2>2 DEF Runs
    <3>4. \A j \in 1 .. Len(m_csChunk') : j \in 1 .. Len(m_csChunk) \/ j = Len(m_csChunk) + 1
      BY <1>1, <2>2
    <3>5. QED
      BY <3>1, <3>2, <3>3, <3>4 DEF Runs
  <2>6. \A id \in commands + 1 .. commands' : id \in Range(m_csChunk')
    BY <1>1, <2>3
  <2>7. /\ Len(<<>>) = 0 /\ Len(m_csChunk') <= ChunkSize
        /\ m_chunksDispatched + Len(<<>>) + Len(m_csChunk') <= commands'
        /\ <<>> \in Seq(Seq(Commands) \ {<<>>})
    BY <1>1, <2>1, <2>2
  <2>8. Dispatches(<<>>)
    BY <1>1, <1>2, <2>1, <2>2, <2>3, <2>4, <2>5, <2>6, <2>7 DEF Dispatches
  <2>9. QED
    BY <2>8
<1>6. QED
  BY <1>4, <1>5

LEMMA FlushDispatches ==
  ASSUME TypeOK, Counts, Ordered, NEW c \in Callers, Flush(c)
  PROVE  \E chunks : Dispatches(chunks)
<1>0. /\ commands < MaxCommands /\ commands' = commands + 1 /\ m_csChunk' = <<>>
      /\ m_chunksDispatched \in 0 .. MaxCommands /\ m_csChunk \in Seq(Commands)
      /\ commands \in 0 .. MaxCommands /\ m_chunksDispatched + Len(m_csChunk) <= commands
  BY DEF TypeOK, Flush, Counts
<1>1. /\ MaxCommands \in Nat /\ ChunkSize \in Nat \ {0} /\ commands \in 0 .. MaxCommands
      /\ commands' = commands + 1 /\ commands' \in Commands /\ m_csChunk \in Seq(Commands)
      /\ Len(m_csChunk) \in Nat /\ m_chunksDispatched \in Nat
      /\ m_chunksDispatched + Len(m_csChunk) <= commands /\ m_csChunk' = <<>>
      /\ commands' \in commands .. MaxCommands
  BY <1>0, StreamAssumption DEF Commands
<1>2. UNCHANGED <<m_chunksExecuted, chunk, executed>> /\ pc'["worker"] = pc["worker"]
  BY DEF Flush
<1>3. /\ Runs(m_csChunk, commands - Len(m_csChunk)) /\ Runs(m_csChunk', commands' - Len(m_csChunk'))
      /\ commands - Len(m_csChunk) \in 0 .. MaxCommands
      /\ Len(m_csChunk') = 0 /\ m_csChunk' \in Seq(Commands)
  BY <1>1 DEF Ordered, Runs
<1>4. CASE Full
  <2> DEFINE last == <<commands'>>
             chunks == <<m_csChunk, last>>
  <2>1. DispatchChunks(chunks) /\ Len(m_csChunk) = ChunkSize /\ m_csChunk # <<>>
    BY <1>1, <1>4 DEF Flush, Full
  <2>2. /\ last \in Seq(Commands) \ {<<>>} /\ Len(last) = 1 /\ last[1] = commands'
        /\ commands' \in Range(last)
    BY <1>1 DEF Range
  <2> HIDE DEF last
  <2>3. /\ chunks \in Seq(Seq(Commands) \ {<<>>}) /\ chunks # <<>> /\ Len(chunks) = 2
        /\ chunks[1] = m_csChunk /\ chunks[2] = last /\ chunks = <<m_csChunk>> \o <<last>>
        /\ <<m_csChunk>> \in Seq(Seq(Commands)) /\ <<last>> \in Seq(Seq(Commands))
    BY <1>1, <2>1, <2>2
  <2>4. Holds(<<m_csChunk>>, commands - Len(m_csChunk), commands)
    <3>1. commands - Len(m_csChunk) + Len(m_csChunk) = commands /\ commands <= MaxCommands
      BY <1>1
    <3>2. QED
      BY <3>1, <1>1, <1>3, HoldsOne
  <2>5. Holds(<<last>>, commands, commands')
    <3>1. Runs(last, commands)
      BY <1>1, <2>2 DEF Runs
    <3>2. commands + Len(last) = commands' /\ commands' <= MaxCommands
      BY <1>1, <2>2 DEF Commands
    <3>3. QED
      BY <3>1, <3>2, <1>1, <2>2, HoldsOne
  <2>6. Holds(chunks, commands - Len(m_csChunk), commands' - Len(m_csChunk'))
    <3>1. Holds(<<m_csChunk>> \o <<last>>, commands - Len(m_csChunk), commands')
      BY <2>3, <2>4, <2>5, HoldsConcat
    <3>2. commands' - Len(m_csChunk') = commands'
      BY <1>1, <1>3
    <3>3. QED
      BY <3>1, <3>2, <2>3
  <2>7. \A id \in commands + 1 .. commands' : \E i \in 1 .. Len(chunks) : id \in Range(chunks[i])
    <3>1. 2 \in 1 .. Len(chunks)
      BY <2>3
    <3>2. \A id \in commands + 1 .. commands' : id \in Range(chunks[2])
      BY <1>1, <2>2, <2>3
    <3>3. QED
      BY <3>1, <3>2
  <2>8. m_chunksDispatched + Len(chunks) + Len(m_csChunk') <= commands'
    BY <1>1, <1>3, <2>1, <2>3
  <2> HIDE DEF chunks
  <2>9. Dispatches(chunks)
    BY <1>1, <1>2, <1>3, <2>1, <2>3, <2>6, <2>7, <2>8 DEF Dispatches, Commands
  <2>10. QED
    BY <2>9
<1>5. CASE ~Full
  <2> DEFINE last == Append(m_csChunk, commands')
             chunks == <<last>>
  <2>1. DispatchChunks(chunks)
    BY <1>1, <1>5 DEF Flush
  <2>2. /\ last \in Seq(Commands) \ {<<>>} /\ Len(last) = Len(m_csChunk) + 1
        /\ \A i \in 1 .. Len(m_csChunk) : last[i] = m_csChunk[i]
        /\ last[Len(m_csChunk) + 1] = commands'
    BY <1>1
  <2> HIDE DEF last
  <2>3. commands' \in Range(last) /\ Range(m_csChunk) \subseteq Range(last)
    <3>1. DOMAIN m_csChunk = 1 .. Len(m_csChunk) /\ DOMAIN last = 1 .. Len(m_csChunk) + 1
      BY <1>1, <2>2
    <3>2. Len(m_csChunk) + 1 \in DOMAIN last /\ \A i \in DOMAIN m_csChunk : i \in DOMAIN last
      BY <1>1, <3>1
    <3>3. QED
      BY <2>2, <3>1, <3>2 DEF Range
  <2>4. /\ chunks \in Seq(Seq(Commands) \ {<<>>}) /\ chunks # <<>> /\ Len(chunks) = 1
        /\ chunks[1] = last
    BY <2>2
  <2>5. Runs(last, commands - Len(m_csChunk))
    BY <1>1, <1>3, <2>2 DEF Runs
  <2>6. Holds(chunks, commands - Len(m_csChunk), commands' - Len(m_csChunk'))
    <3>1. commands - Len(m_csChunk) + Len(last) = commands' - Len(m_csChunk')
      BY <1>1, <1>3, <2>2
    <3>2. commands - Len(m_csChunk) + Len(last) <= MaxCommands
      BY <1>1, <2>2 DEF Commands
    <3>3. QED
      BY <3>1, <3>2, <1>3, <2>2, <2>5, HoldsOne
  <2>7. \A id \in commands + 1 .. commands' : \E i \in 1 .. Len(chunks) : id \in Range(chunks[i])
    <3>1. 1 \in 1 .. Len(chunks)
      BY <2>4
    <3>2. \A id \in commands + 1 .. commands' : id \in Range(chunks[1])
      BY <1>1, <2>3, <2>4
    <3>3. QED
      BY <3>1, <3>2
  <2>8. m_chunksDispatched + Len(chunks) + Len(m_csChunk') <= commands'
    BY <1>1, <1>3, <2>4
  <2> HIDE DEF chunks
  <2>9. Dispatches(chunks)
    BY <1>1, <1>2, <1>3, <2>1, <2>3, <2>4, <2>6, <2>7, <2>8 DEF Dispatches, Commands
  <2>10. QED
    BY <2>9
<1>6. QED
  BY <1>4, <1>5
LEMMA FlushedChunk ==
  ASSUME TypeOK, Counts, Ordered
  PROVE  /\ FlushCsChunk \in Seq(Seq(Commands) \ {<<>>})
         /\ Holds(FlushCsChunk, commands - Len(m_csChunk), commands)
         /\ Len(FlushCsChunk) <= Len(m_csChunk)
         /\ FlushCsChunk = <<>> => m_csChunk = <<>>
         /\ FlushCsChunk # <<>> => FlushCsChunk[1] = m_csChunk
<1>1. /\ MaxCommands \in Nat /\ commands \in 0 .. MaxCommands /\ m_csChunk \in Seq(Commands)
      /\ Len(m_csChunk) \in Nat /\ Len(m_csChunk) <= commands
      /\ Runs(m_csChunk, commands - Len(m_csChunk))
  <2>1. /\ m_chunksDispatched \in 0 .. MaxCommands /\ m_csChunk \in Seq(Commands)
        /\ commands \in 0 .. MaxCommands /\ m_chunksDispatched + Len(m_csChunk) <= commands
        /\ Runs(m_csChunk, commands - Len(m_csChunk))
    BY DEF TypeOK, Counts, Ordered
  <2>2. QED
    BY <2>1, StreamAssumption
<1>2. CASE m_csChunk = <<>>
  <2>1. FlushCsChunk = <<>> /\ commands - Len(m_csChunk) = commands
    BY <1>1, <1>2 DEF FlushCsChunk
  <2>2. Holds(<<>>, commands, commands)
    BY <1>1, HoldsNone
  <2>3. QED
    BY <1>1, <1>2, <2>1, <2>2
<1>3. CASE m_csChunk # <<>>
  <2> DEFINE chunks == <<m_csChunk>>
  <2>1. /\ chunks \in Seq(Seq(Commands) \ {<<>>}) /\ Len(chunks) = 1 /\ chunks[1] = m_csChunk
        /\ Len(m_csChunk) >= 1 /\ chunks # <<>> /\ FlushCsChunk = chunks
    BY <1>1, <1>3 DEF FlushCsChunk
  <2>2. Holds(chunks, commands - Len(m_csChunk), commands)
    <3>1. /\ commands - Len(m_csChunk) + Len(m_csChunk) = commands /\ commands <= MaxCommands
          /\ commands - Len(m_csChunk) \in 0 .. MaxCommands
      BY <1>1
    <3>2. QED
      BY <3>1, <1>1, HoldsOne
  <2> HIDE DEF chunks
  <2>3. QED
    BY <2>1, <2>2
<1>4. QED
  BY <1>2, <1>3

LEMMA ListDispatches ==
  ASSUME TypeOK, Counts, Ordered, NEW c \in Callers, ExecuteCommandList(c)
  PROVE  \E chunks : Dispatches(chunks)
<1> DEFINE x == <<commands + 1>>
           y == <<commands + 2>>
           list == <<x, y>>
           chunks == FlushCsChunk \o list
<1>0. /\ commands + 2 <= MaxCommands /\ commands' = commands + 2 /\ m_csChunk' = <<>>
      /\ m_chunksDispatched \in 0 .. MaxCommands /\ m_csChunk \in Seq(Commands)
      /\ commands \in 0 .. MaxCommands /\ m_chunksDispatched + Len(m_csChunk) <= commands
      /\ UNCHANGED <<m_chunksExecuted, chunk, executed>> /\ pc'["worker"] = pc["worker"]
  BY DEF TypeOK, ExecuteCommandList, Counts
<1>1. /\ MaxCommands \in Nat /\ ChunkSize \in Nat \ {0}
      /\ commands + 1 \in Commands /\ commands + 2 \in Commands
      /\ Len(m_csChunk) \in Nat /\ m_chunksDispatched \in Nat
      /\ commands' \in commands .. MaxCommands
  BY <1>0, StreamAssumption DEF Commands
<1>2. DispatchChunks(chunks)
  BY DEF ExecuteCommandList
<1>3. /\ x \in Seq(Commands) \ {<<>>} /\ Len(x) = 1 /\ x[1] = commands + 1
      /\ y \in Seq(Commands) \ {<<>>} /\ Len(y) = 1 /\ y[1] = commands + 2
  BY <1>1
<1>4. commands + 1 \in Range(x) /\ commands + 2 \in Range(y)
  BY <1>3 DEF Range
<1> HIDE DEF x, y
<1>5. /\ list \in Seq(Seq(Commands) \ {<<>>}) /\ Len(list) = 2 /\ list[1] = x /\ list[2] = y
      /\ list = <<x>> \o <<y>> /\ <<x>> \in Seq(Seq(Commands)) /\ <<y>> \in Seq(Seq(Commands))
      /\ list \in Seq(Seq(Commands))
  <2>1. x \in Seq(Commands) \ {<<>>} /\ y \in Seq(Commands) \ {<<>>}
    BY <1>3
  <2> DEFINE S == Seq(Commands) \ {<<>>}
  <2>2. S \subseteq Seq(Commands) /\ x \in S /\ y \in S
    BY <2>1
  <2> HIDE DEF S
  <2>3. list \in Seq(S) /\ Len(list) = 2 /\ list[1] = x /\ list[2] = y /\ <<x>> \in Seq(S) /\ <<y>> \in Seq(S)
    BY <2>2
  <2>4. list = <<x>> \o <<y>>
    <3> DEFINE both == <<x>> \o <<y>>
    <3>1. both \in Seq(S) /\ Len(both) = 2 /\ both[1] = x /\ both[2] = y
      BY <2>2, <2>3
    <3> HIDE DEF both, list
    <3>2. Len(both) = Len(list) /\ \A i \in 1 .. Len(both) : both[i] = list[i]
      BY <3>1, <2>3
    <3>3. QED
      BY <3>1, <3>2, <2>3, SeqEqual DEF both
  <2>5. \A s \in Seq(S) : s \in Seq(Seq(Commands))
    BY <2>2, SeqMonotonic
  <2>6. QED
    BY <2>3, <2>4, <2>5 DEF S
<1>6. Holds(list, commands, commands')
  <2>1. Runs(x, commands) /\ Runs(y, commands + 1)
    BY <1>0, <1>3 DEF Runs
  <2>2. Holds(<<x>>, commands, commands + Len(x))
    <3>1. commands \in 0 .. MaxCommands /\ commands + Len(x) <= MaxCommands
      BY <1>0, <1>1, <1>3
    <3>2. QED
      BY <3>1, <1>3, <2>1, HoldsOne
  <2>3. Holds(<<y>>, commands + 1, commands + 1 + Len(y))
    <3>1. commands + 1 \in 0 .. MaxCommands /\ commands + 1 + Len(y) <= MaxCommands
      BY <1>0, <1>1, <1>3
    <3>2. QED
      BY <3>1, <1>3, <2>1, HoldsOne
  <2>4. commands + Len(x) = commands + 1 /\ commands + 1 + Len(y) = commands'
    BY <1>0, <1>3
  <2>5. QED
    BY <2>2, <2>3, <2>4, <1>5, HoldsConcat
<1>7. /\ FlushCsChunk \in Seq(Seq(Commands) \ {<<>>})
      /\ Holds(FlushCsChunk, commands - Len(m_csChunk), commands)
      /\ Len(FlushCsChunk) \in Nat /\ Len(FlushCsChunk) <= Len(m_csChunk)
      /\ FlushCsChunk = <<>> => m_csChunk = <<>>
      /\ FlushCsChunk # <<>> => FlushCsChunk[1] = m_csChunk
  BY FlushedChunk
<1>8. Len(m_csChunk') = 0 /\ m_csChunk' \in Seq(Commands) /\ Runs(m_csChunk', commands' - Len(m_csChunk'))
  BY <1>0 DEF Runs
<1>9. Holds(chunks, commands - Len(m_csChunk), commands' - Len(m_csChunk'))
  <2>1. FlushCsChunk \in Seq(Seq(Commands))
    BY <1>7, SeqMonotonic
  <2>2. commands' - Len(m_csChunk') = commands'
    BY <1>0, <1>8
  <2>3. QED
    BY <2>1, <2>2, <1>5, <1>6, <1>7, HoldsConcat
<1> HIDE DEF list
<1>10. /\ chunks \in Seq(Seq(Commands) \ {<<>>}) /\ Len(chunks) = Len(FlushCsChunk) + 2
       /\ chunks # <<>> /\ chunks[Len(FlushCsChunk) + 1] = x /\ chunks[Len(FlushCsChunk) + 2] = y
       /\ FlushCsChunk # <<>> => chunks[1] = FlushCsChunk[1]
  BY <1>5, <1>7
<1> HIDE DEF chunks
<1>11. Range(m_csChunk) \subseteq Range(chunks[1])
  BY <1>7, <1>10 DEF Range
<1>12. \A id \in commands + 1 .. commands' : \E i \in 1 .. Len(chunks) : id \in Range(chunks[i])
  <2>1. Len(FlushCsChunk) + 1 \in 1 .. Len(chunks) /\ Len(FlushCsChunk) + 2 \in 1 .. Len(chunks)
    BY <1>7, <1>10
  <2>2. \A id \in commands + 1 .. commands' : id = commands + 1 \/ id = commands + 2
    BY <1>0
  <2>3. QED
    BY <2>1, <2>2, <1>4, <1>10
<1>13. m_chunksDispatched + Len(chunks) + Len(m_csChunk') <= commands'
  BY <1>0, <1>1, <1>7, <1>8, <1>10
<1>14. Len(m_csChunk') <= ChunkSize
  BY <1>1, <1>8
<1>15. Dispatches(chunks)
  BY <1>0, <1>1, <1>2, <1>8, <1>9, <1>10, <1>11, <1>12, <1>13, <1>14 DEF Dispatches
<1>16. QED
  BY <1>15

LEMMA SynchronizeDispatches ==
  ASSUME TypeOK, Counts, Ordered, NEW c \in Callers, NEW number, Synchronize(c, number)
  PROVE  \E chunks : Dispatches(chunks)
<1>1. /\ MaxCommands \in Nat /\ ChunkSize \in Nat \ {0} /\ commands' = commands
      /\ m_chunksDispatched \in 0 .. MaxCommands /\ m_csChunk \in Seq(Commands)
      /\ Len(m_csChunk) <= ChunkSize
      /\ commands \in 0 .. MaxCommands /\ m_chunksDispatched + Len(m_csChunk) <= commands
      /\ UNCHANGED <<m_chunksExecuted, chunk, executed>>
  BY StreamAssumption DEF TypeOK, Synchronize, Enter, Counts
<1>2. pc'["worker"] = pc["worker"]
  <2>1. "worker" # c /\ "worker" \in Threads
    BY StreamAssumption DEF Threads
  <2>2. QED
    BY <2>1 DEF Synchronize, Enter, Goto, TypeOK
<1>3. commands' \in commands .. MaxCommands /\ Len(m_csChunk) \in Nat
  BY <1>1
<1>4. /\ FlushCsChunk \in Seq(Seq(Commands) \ {<<>>})
      /\ Holds(FlushCsChunk, commands - Len(m_csChunk), commands)
      /\ Len(FlushCsChunk) \in Nat /\ Len(FlushCsChunk) <= Len(m_csChunk)
      /\ FlushCsChunk = <<>> => m_csChunk = <<>>
      /\ FlushCsChunk # <<>> => FlushCsChunk[1] = m_csChunk
  BY FlushedChunk
<1>5. \A id \in commands + 1 .. commands' : FALSE
  BY <1>1
<1>6. CASE Flushes(number)
  <2>1. DispatchChunks(FlushCsChunk) /\ m_csChunk' = <<>>
    BY <1>6 DEF Synchronize
  <2>2. /\ Len(m_csChunk') = 0 /\ m_csChunk' \in Seq(Commands) /\ Len(m_csChunk') <= ChunkSize
        /\ Runs(m_csChunk', commands' - Len(m_csChunk')) /\ commands' - Len(m_csChunk') = commands
    BY <1>1, <2>1 DEF Runs
  <2>3. m_chunksDispatched + Len(FlushCsChunk) + Len(m_csChunk') <= commands'
    BY <1>1, <1>3, <1>4, <2>2
  <2>4. Range(m_csChunk) \subseteq Range(IF FlushCsChunk = <<>> THEN m_csChunk' ELSE FlushCsChunk[1])
    BY <1>4 DEF Range
  <2>5. Dispatches(FlushCsChunk)
    BY <1>1, <1>2, <1>3, <1>4, <1>5, <2>1, <2>2, <2>3, <2>4 DEF Dispatches
  <2>6. QED
    BY <2>5
<1>7. CASE ~Flushes(number)
  <2>1. DispatchChunks(<<>>) /\ m_csChunk' = m_csChunk
    BY <1>7 DEF Synchronize
  <2>2. Runs(m_csChunk', commands' - Len(m_csChunk')) /\ commands' - Len(m_csChunk') = commands - Len(m_csChunk)
    BY <1>1, <2>1 DEF Ordered
  <2>3. Holds(<<>>, commands - Len(m_csChunk), commands' - Len(m_csChunk'))
    <3>1. commands - Len(m_csChunk) \in 0 .. MaxCommands
      BY <1>1, <1>3
    <3>2. QED
      BY <3>1, <2>2, HoldsNone
  <2>4. /\ <<>> \in Seq(Seq(Commands) \ {<<>>}) /\ Len(<<>>) = 0
        /\ m_chunksDispatched + Len(<<>>) + Len(m_csChunk') <= commands'
    BY <1>1, <1>3, <2>1
  <2>5. Range(m_csChunk) \subseteq Range(m_csChunk')
    BY <2>1
  <2>6. Dispatches(<<>>)
    BY <1>1, <1>2, <1>3, <1>5, <2>1, <2>2, <2>3, <2>4, <2>5 DEF Dispatches
  <2>7. QED
    BY <2>6
<1>8. QED
  BY <1>6, <1>7
(* With nothing in the chunk being recorded, no number exceeds the last.   *)
LEMMA CoveredByLast ==
  ASSUME NEW id, NEW n \in Int, NEW m \in Int,
         m_csChunk' = <<>>, m_csSeqNum' \in Int, m_chunksExecuted' \in Int,
         m_csSeqNum' = Taken' + Len(m_chunksQueued'), Len(m_chunksQueued') \in Nat,
         chunk' # <<>> => pc'["worker"] = "execute",
         Covered(id, n)', m >= m_csSeqNum'
  PROVE  Covered(id, m)'
<1>1. Taken' \in Int
  BY DEF Taken
<1>2. CASE id \in Range(executed')
  BY <1>2 DEF Covered
<1>3. CASE id \in Range(chunk')
  <2>1. chunk' # <<>>
    BY <1>3 DEF Range
  <2>2. Taken' = m_chunksExecuted' + 1
    BY <2>1 DEF Taken
  <2>3. QED
    BY <1>3, <2>2 DEF Covered
<1>4. CASE \E i \in 1 .. Len(m_chunksQueued') : id \in Range(m_chunksQueued'[i])
  <2>1. PICK i \in 1 .. Len(m_chunksQueued') : id \in Range(m_chunksQueued'[i])
    BY <1>4
  <2>2. \A k, l, s \in Int : s = k + l /\ i <= l /\ s <= m => k + i <= m
    BY <2>1
  <2>3. Taken' + i <= m
    <3>1. i <= Len(m_chunksQueued') /\ Len(m_chunksQueued') \in Int
      BY <2>1
    <3>2. m_csSeqNum' <= m
      OBVIOUS
    <3>3. QED
      BY <1>1, <2>2, <3>1, <3>2, Zenon
  <2>4. QED
    BY <2>1, <2>3 DEF Covered
<1>5. id \notin Range(m_csChunk')
  BY DEF Range
<1>6. QED
  BY <1>2, <1>3, <1>4, <1>5 DEF Covered

LEMMA CoveredIsExecuted ==
  ASSUME TypeOK, Counts, NEW id, NEW n \in Int, Covered(id, n), m_chunksExecuted >= n
  PROVE  id \in Range(executed)
<1>1. /\ m_chunksExecuted \in Int /\ m_csSeqNum \in Int /\ m_chunksExecuted <= m_csSeqNum
      /\ Taken \in Int /\ Taken >= m_chunksExecuted
  BY StreamAssumption DEF TypeOK, Taken
<1>2. QED
  BY <1>1 DEF Covered

(* What a call of the front end does to the queue, and that every command  *)
(* stays in a chunk with the number it had, or that it was to get.         *)
LEMMA DispatchKeepsTypes ==
  ASSUME TypeOK, Counts, NEW chunks, Dispatches(chunks)
  PROVE  /\ Taken' = Taken /\ Taken \in Nat /\ m_chunksQueued' = m_chunksQueued \o chunks
         /\ m_chunksQueued' \in Seq(Seq(Commands) \ {<<>>})
         /\ Len(m_chunksQueued') = Len(m_chunksQueued) + Len(chunks)
         /\ Len(m_chunksQueued) \in Nat /\ Len(chunks) \in Nat
         /\ m_chunksDispatched' = m_chunksDispatched + Len(chunks)
         /\ m_chunksDispatched' = Taken' + Len(m_chunksQueued')
         /\ m_csSeqNum' = m_chunksDispatched' /\ m_chunksDispatched' \in 0 .. MaxCommands
         /\ m_chunksDispatched' + Len(m_csChunk') <= commands'
         /\ commands' \in 0 .. MaxCommands
         /\ sleeping' \in [Threads -> {"awake", "m_condOnAdd", "m_condOnSync"}]
<1>1. /\ m_chunksExecuted \in Nat /\ m_csSeqNum = m_chunksDispatched /\ m_chunksDispatched \in Nat
      /\ commands \in Nat /\ MaxCommands \in Nat
  BY StreamAssumption DEF TypeOK
<1>2. Taken' = Taken /\ Taken \in Nat
  BY <1>1 DEF Taken, Dispatches
<1>3. m_chunksQueued' = m_chunksQueued \o chunks /\ m_chunksDispatched' = m_chunksDispatched + Len(chunks)
  BY DEF Dispatches, DispatchChunks
<1>4. /\ m_chunksQueued \in Seq(Seq(Commands) \ {<<>>}) /\ chunks \in Seq(Seq(Commands) \ {<<>>})
      /\ m_chunksDispatched = Taken + Len(m_chunksQueued)
      /\ commands' \in commands .. MaxCommands /\ m_csChunk' \in Seq(Commands)
      /\ m_chunksDispatched + Len(chunks) + Len(m_csChunk') <= commands'
  BY DEF Counts, Dispatches
<1>5. /\ m_chunksQueued' \in Seq(Seq(Commands) \ {<<>>})
      /\ Len(m_chunksQueued') = Len(m_chunksQueued) + Len(chunks)
      /\ Len(m_chunksQueued) \in Nat /\ Len(chunks) \in Nat /\ Len(m_csChunk') \in Nat
      /\ chunks = <<>> => Len(chunks) = 0
  BY <1>3, <1>4
<1>6. m_csSeqNum' = m_chunksDispatched'
  BY <1>1, <1>3, <1>5 DEF Dispatches, DispatchChunks
<1>7. sleeping' \in [Threads -> {"awake", "m_condOnAdd", "m_condOnSync"}]
  BY DEF Dispatches, DispatchChunks, NotifyOne, TypeOK
<1>8. QED
  BY <1>1, <1>2, <1>3, <1>4, <1>5, <1>6, <1>7

LEMMA DispatchKeepsOrder ==
  ASSUME TypeOK, Counts, Ordered, NEW chunks, Dispatches(chunks)
  PROVE  Ordered'
<1>1. /\ m_chunksQueued' = m_chunksQueued \o chunks
      /\ m_chunksQueued \in Seq(Seq(Commands)) /\ chunks \in Seq(Seq(Commands))
  <2>1. /\ m_chunksQueued \in Seq(Seq(Commands) \ {<<>>}) /\ chunks \in Seq(Seq(Commands) \ {<<>>})
        /\ m_chunksQueued' = m_chunksQueued \o chunks
    BY DispatchKeepsTypes DEF Counts, Dispatches
  <2>2. QED
    BY <2>1, SeqMonotonic
<1>2. Holds(m_chunksQueued', Len(executed) + Len(chunk), commands' - Len(m_csChunk'))
  BY <1>1, HoldsConcat DEF Ordered, Dispatches
<1>3. QED
  BY <1>2 DEF Ordered, Dispatches

LEMMA DispatchKeepsCovered ==
  ASSUME TypeOK, Counts, Ordered, NEW chunks, Dispatches(chunks)
  PROVE  /\ \A id, n : n \in Int /\ Covered(id, n) => Covered(id, n)'
         /\ \A id \in commands + 1 .. commands', n \in Int : n > m_csSeqNum' => Covered(id, n)'
<1>1. /\ Taken' = Taken /\ Taken \in Nat /\ m_chunksQueued' = m_chunksQueued \o chunks
      /\ Len(m_chunksQueued') = Len(m_chunksQueued) + Len(chunks)
      /\ Len(m_chunksQueued) \in Nat /\ Len(chunks) \in Nat
      /\ m_csSeqNum' = Taken + Len(m_chunksQueued) + Len(chunks)
      /\ m_csSeqNum = Taken + Len(m_chunksQueued)
  BY DispatchKeepsTypes DEF Counts, TypeOK
<1>2. /\ m_chunksQueued \in Seq(Seq(Commands) \ {<<>>}) /\ chunks \in Seq(Seq(Commands) \ {<<>>})
      /\ UNCHANGED <<m_chunksExecuted, chunk, executed>>
      /\ Range(m_csChunk) \subseteq Range(IF chunks = <<>> THEN m_csChunk' ELSE chunks[1])
      /\ \A id \in commands + 1 .. commands' :
           id \in Range(m_csChunk') \/ \E i \in 1 .. Len(chunks) : id \in Range(chunks[i])
      /\ m_chunksExecuted \in Nat /\ m_csSeqNum \in Nat
  <2>1. m_chunksQueued \in Seq(Seq(Commands) \ {<<>>})
    BY DEF Counts
  <2>2. m_chunksExecuted \in Nat /\ m_csSeqNum \in Nat
    BY DEF TypeOK
  <2>3. QED
    BY <2>1, <2>2 DEF Dispatches
<1>3. /\ \A i \in 1 .. Len(m_chunksQueued) : m_chunksQueued'[i] = m_chunksQueued[i]
      /\ \A i \in 1 .. Len(chunks) : m_chunksQueued'[Len(m_chunksQueued) + i] = chunks[i]
      /\ chunks # <<>> => Len(chunks) >= 1
  BY <1>1, <1>2
<1>4. ASSUME NEW id, NEW n \in Int, Covered(id, n)
      PROVE  Covered(id, n)'
  <2>1. CASE id \in Range(executed) \/ (id \in Range(chunk) /\ m_chunksExecuted < n)
    BY <2>1, <1>2 DEF Covered
  <2>2. CASE \E i \in 1 .. Len(m_chunksQueued) :
               id \in Range(m_chunksQueued[i]) /\ Taken + i <= n
    <3>1. PICK i \in 1 .. Len(m_chunksQueued) :
                 id \in Range(m_chunksQueued[i]) /\ Taken + i <= n
      BY <2>2
    <3>2. /\ i \in 1 .. Len(m_chunksQueued') /\ id \in Range(m_chunksQueued'[i])
          /\ Taken' + i <= n
      BY <3>1, <1>1, <1>3
    <3>3. QED
      BY <3>2 DEF Covered
  <2>3. CASE id \in Range(m_csChunk) /\ m_csSeqNum < n
    <3>1. CASE chunks = <<>>
      <4>1. id \in Range(m_csChunk') /\ m_csSeqNum' = m_csSeqNum
        BY <3>1, <2>3, <1>1, <1>2
      <4>2. QED
        BY <4>1, <2>3 DEF Covered
    <3>2. CASE chunks # <<>>
      <4>1. id \in Range(chunks[1]) /\ 1 \in 1 .. Len(chunks)
        BY <3>2, <2>3, <1>1, <1>2, <1>3
      <4> DEFINE i == Len(m_chunksQueued) + 1
      <4>2. /\ i \in 1 .. Len(m_chunksQueued') /\ id \in Range(m_chunksQueued'[i])
            /\ Taken' + i <= n
        BY <4>1, <2>3, <1>1, <1>2, <1>3
      <4>3. QED
        BY <4>2 DEF Covered
    <3>3. QED
      BY <3>1, <3>2
  <2>4. QED
    BY <2>1, <2>2, <2>3, <1>4 DEF Covered
<1>5. ASSUME NEW id \in commands + 1 .. commands', NEW n \in Int, n > m_csSeqNum'
      PROVE  Covered(id, n)'
  <2>1. CASE id \in Range(m_csChunk')
    BY <2>1, <1>5 DEF Covered
  <2>2. CASE \E i \in 1 .. Len(chunks) : id \in Range(chunks[i])
    <3>1. PICK k \in 1 .. Len(chunks) : id \in Range(chunks[k])
      BY <2>2
    <3> DEFINE i == Len(m_chunksQueued) + k
    <3>2. /\ i \in 1 .. Len(m_chunksQueued') /\ id \in Range(m_chunksQueued'[i])
          /\ Taken' + i <= n
      BY <3>1, <1>1, <1>3, <1>5
    <3>3. QED
      BY <3>2 DEF Covered
  <2>3. QED
    BY <2>1, <2>2, <1>2
<1>6. QED
  BY <1>4, <1>5
-----------------------------------------------------------------------------
(* The invariant is inductive *)

LEMMA InitInvariant == Init => IInv
<1> SUFFICES ASSUME Init PROVE IInv
  OBVIOUS
<1>1. /\ MaxCommands \in Nat /\ ChunkSize \in Nat \ {0}
      /\ "worker" \in Threads /\ Callers \subseteq Threads /\ "worker" \notin Callers
  BY StreamAssumption DEF Threads
<1>2. /\ <<>> \in Seq(Commands) /\ Len(<<>>) = 0 /\ <<>> \in Seq(Seq(Commands) \ {<<>>})
  OBVIOUS
<1>3. TypeOK
  <2>1. /\ seq \in [Callers -> 0 .. MaxCommands] /\ before \in [Callers -> 0 .. MaxCommands]
        /\ asked \in [Callers -> -1 .. MaxCommands]
    BY <1>1 DEF Init
  <2>2. /\ sleeping \in [Threads -> {"awake", "m_condOnAdd", "m_condOnSync"}]
        /\ pc \in [Threads -> {"idle", "synchronize", "synchronized", "gone", "loop",
                               "waiting", "execute", "executed", "exited"}]
    BY DEF Init
  <2>3. /\ m_csChunk \in Seq(Commands) /\ chunk \in Seq(Commands) /\ executed \in Seq(Commands)
        /\ Len(m_csChunk) <= ChunkSize /\ DOMAIN m_chunksQueued = {}
    BY <1>1, <1>2 DEF Init
  <2>4. /\ 0 \in 0 .. MaxCommands /\ 0 \in 0 .. 0 /\ 0 \in 0 .. 0 + 1
    BY <1>1
  <2>5. /\ m_csSeqNum = 0 /\ commands = 0 /\ seqOfResource = 0 /\ m_chunksDispatched = 0
        /\ m_chunksExecuted = 0 /\ uses = {} /\ deviceLock = "free" /\ m_stopped = FALSE
    BY DEF Init
  <2>6. QED
    BY <1>1, <2>1, <2>2, <2>3, <2>4, <2>5 DEF TypeOK
<1>4. Taken = 0
  BY <1>1 DEF Init, Taken
<1>5. Counts
  BY <1>1, <1>2, <1>4 DEF Init, Counts, Places
<1>6. Ordered
  <2>1. Holds(<<>>, 0, 0)
    BY <1>1, HoldsNone
  <2>2. executed = <<>> /\ chunk = <<>> /\ commands = 0 /\ m_csChunk = <<>>
    BY DEF Init
  <2>3. Len(executed) + Len(chunk) = 0 /\ commands - Len(m_csChunk) = 0
    <3>1. Len(executed) = 0 /\ Len(chunk) = 0 /\ Len(m_csChunk) = 0
      BY <2>2
    <3>2. 0 + 0 = 0 /\ 0 - 0 = 0
      OBVIOUS
    <3>3. QED
      BY <2>2, <3>1, <3>2
  <2>4. QED
    BY <1>1, <1>2, <2>1, <2>2, <2>3 DEF Init, Ordered, Runs
<1>7. Placed
  BY DEF Init, Placed
<1>8. Locked /\ Waits
  BY <1>1 DEF Init, Locked, Waits
<1>9. QED
  BY <1>3, <1>5, <1>6, <1>7, <1>8 DEF IInv

(* While a call of the front end runs, no other is under way.              *)
LEMMA OthersIdle ==
  ASSUME IInv, NEW c \in Callers, Calls(c)
  PROVE  /\ \A d \in Callers : pc[d] = "idle"
         /\ ~m_stopped /\ pc["worker"] # "exited" /\ deviceLock = "free"
  BY StreamAssumption DEF IInv, Locked, Calls

LEMMA RecordingKeeps ==
  ASSUME IInv, NEW c \in Callers, Record(c) \/ Flush(c) \/ ExecuteCommandList(c)
  PROVE  IInv'
<1>1. TypeOK /\ Counts /\ Ordered /\ Placed /\ Locked /\ Waits
  BY DEF IInv
<1>2. PICK chunks : Dispatches(chunks)
  BY <1>1, RecordDispatches, FlushDispatches, ListDispatches
<1>3. /\ Taken' = Taken /\ Taken \in Nat
      /\ m_chunksQueued' \in Seq(Seq(Commands) \ {<<>>})
      /\ Len(chunks) \in Nat /\ m_csSeqNum' = m_chunksDispatched + Len(chunks)
      /\ m_chunksDispatched' = m_chunksDispatched + Len(chunks)
      /\ m_chunksDispatched' = Taken' + Len(m_chunksQueued')
      /\ m_csSeqNum' = m_chunksDispatched' /\ m_chunksDispatched' \in 0 .. MaxCommands
      /\ m_chunksDispatched' + Len(m_csChunk') <= commands'
      /\ commands' \in 0 .. MaxCommands
      /\ sleeping' \in [Threads -> {"awake", "m_condOnAdd", "m_condOnSync"}]
  BY <1>1, <1>2, DispatchKeepsTypes
<1>4. /\ m_csChunk' \in Seq(Commands) /\ Len(m_csChunk') <= ChunkSize
      /\ MaxCommands \in Nat /\ Len(m_csChunk') \in Nat /\ Len(m_chunksQueued') \in Nat
      /\ m_chunksDispatched \in Nat /\ m_csSeqNum = m_chunksDispatched
      /\ m_chunksExecuted \in 0 .. m_chunksDispatched
      /\ seqOfResource \in 0 .. m_csSeqNum + 1 /\ seqOfResource <= commands
      /\ uses \subseteq Commands /\ commands \in Nat
  <2>1. /\ m_csChunk' \in Seq(Commands) /\ Len(m_csChunk') <= ChunkSize
        /\ m_chunksQueued' \in Seq(Seq(Commands) \ {<<>>})
    BY <1>2, <1>3 DEF Dispatches
  <2>2. Len(m_csChunk') \in Nat /\ Len(m_chunksQueued') \in Nat
    BY <2>1
  <2>3. QED
    BY <1>1, <2>1, <2>2, StreamAssumption DEF TypeOK, Counts
<1>5. /\ UNCHANGED <<deviceLock, m_chunksExecuted, m_stopped, chunk, executed, pc, seq, asked, before>>
      /\ Calls(c)
  BY DEF Record, Flush, ExecuteCommandList, calls
<1>6. /\ \A d \in Callers : pc[d] = "idle"
      /\ ~m_stopped /\ pc["worker"] # "exited" /\ deviceLock = "free"
  BY <1>5, OthersIdle
<1>7. \/ /\ uses' = uses \cup {commands'} /\ seqOfResource' = m_csSeqNum' + 1
         /\ commands' = commands + 1 /\ Len(m_csChunk') >= 1
      \/ UNCHANGED <<uses, seqOfResource>>
      \/ /\ uses' = uses \cup {commands + 1} /\ seqOfResource' = m_csSeqNum'
         /\ commands' = commands + 2 /\ m_csChunk' = <<>>
  <2>1. CASE Record(c)
    <3>1. Len(m_csChunk') >= 1 /\ commands' = commands + 1
      BY <2>1, <1>1, <1>4 DEF Record, TypeOK
    <3>2. QED
      BY <2>1, <3>1 DEF Record
  <2>2. CASE Flush(c)
    BY <2>2 DEF Flush
  <2>3. CASE ExecuteCommandList(c)
    BY <2>3 DEF ExecuteCommandList
  <2>4. QED
    BY <2>1, <2>2, <2>3
<1>8. seqOfResource' \in 0 .. m_csSeqNum' + 1 /\ seqOfResource' <= commands' /\ uses' \subseteq Commands
  <2> DEFINE d == m_chunksDispatched + Len(chunks)
  <2>1. /\ m_csSeqNum' = d /\ d \in Nat /\ d >= m_chunksDispatched
        /\ d + Len(m_csChunk') <= commands' /\ commands' <= MaxCommands
    BY <1>3, <1>4
  <2> HIDE DEF d
  <2>2. CASE /\ uses' = uses \cup {commands'} /\ seqOfResource' = m_csSeqNum' + 1
             /\ commands' = commands + 1 /\ Len(m_csChunk') >= 1
    <3>1. seqOfResource' = d + 1 /\ d + 1 <= commands + 1 /\ commands + 1 \in Commands
      BY <1>4, <2>1, <2>2 DEF Commands
    <3>2. QED
      BY <1>4, <2>1, <2>2, <3>1
  <2>3. CASE UNCHANGED <<uses, seqOfResource>>
    <3>1. commands' = commands + 1 \/ commands' = commands + 2
      BY DEF Record, Flush, ExecuteCommandList
    <3>2. QED
      BY <1>4, <2>1, <2>3, <3>1
  <2>4. CASE uses' = uses \cup {commands + 1} /\ seqOfResource' = m_csSeqNum' /\ commands' = commands + 2
    <3>1. seqOfResource' = d /\ d <= commands + 2 /\ commands + 1 \in Commands
      BY <1>4, <2>1, <2>4 DEF Commands
    <3>2. QED
      BY <1>4, <2>1, <2>4, <3>1
  <2>5. QED
    BY <1>7, <2>2, <2>3, <2>4
<1>9. TypeOK'
  <2>1. m_chunksExecuted \in 0 .. m_chunksDispatched'
    BY <1>3, <1>4
  <2>2. \A i \in DOMAIN m_chunksQueued' : m_chunksQueued'[i] \in Seq(Commands) \ {<<>>}
    BY <1>3
  <2>3. QED
    BY <1>1, <1>3, <1>4, <1>5, <1>8, <2>1, <2>2 DEF TypeOK
<1>10. Counts'
  BY <1>1, <1>3, <1>5, <1>8 DEF Counts
<1>11. Ordered'
  BY <1>1, <1>2, DispatchKeepsOrder
<1>12. /\ \A id, n : n \in Int /\ Covered(id, n) => Covered(id, n)'
       /\ \A id \in commands + 1 .. commands', n \in Int : n > m_csSeqNum' => Covered(id, n)'
  BY <1>1, <1>2, DispatchKeepsCovered
<1>13. Placed'
  <2> DEFINE d == m_chunksDispatched + Len(chunks)
  <2>1. /\ m_csSeqNum = m_chunksDispatched /\ m_chunksDispatched \in Nat /\ m_csSeqNum' = d /\ d \in Nat
        /\ m_csSeqNum <= d /\ m_chunksExecuted' \in Nat /\ m_chunksExecuted' = m_chunksExecuted
        /\ commands \in Nat /\ seqOfResource \in Nat /\ seqOfResource <= m_csSeqNum + 1
        /\ commands' = commands + 1 \/ commands' = commands + 2
        /\ Numbers \subseteq Int
    <3>1. commands' = commands + 1 \/ commands' = commands + 2
      BY DEF Record, Flush, ExecuteCommandList
    <3>2. Numbers \subseteq Int
      BY StreamAssumption DEF Numbers
    <3>3. QED
      BY <1>3, <1>4, <1>5, <3>1, <3>2
  <2> HIDE DEF d
  <2>3. ASSUME NEW n \in Numbers, n >= seqOfResource', NEW id \in uses'
        PROVE  Covered(id, n)'
    <3>0. n \in Int
      BY <2>1
    <3>1. CASE UNCHANGED <<uses, seqOfResource>>
      <4>1. Covered(id, n)
        BY <1>1, <2>3, <3>1 DEF Placed
      <4>2. QED
        BY <4>1, <1>12, <3>0
    <3>2. CASE seqOfResource' = m_csSeqNum' + 1 /\ uses' = uses \cup {commands'} /\ commands' = commands + 1
      <4>1. n > m_csSeqNum' /\ n >= seqOfResource
        <5>1. n >= d + 1
          BY <2>1, <2>3, <3>2
        <5>2. n > d /\ n >= seqOfResource
          BY <2>1, <3>0, <5>1
        <5>3. QED
          BY <2>1, <5>2
      <4>2. CASE id \in uses
        <5>1. Covered(id, n)
          BY <1>1, <4>1, <4>2, <2>3 DEF Placed
        <5>2. QED
          BY <5>1, <1>12, <3>0
      <4>3. CASE id = commands'
        <5>1. id \in commands + 1 .. commands'
          BY <2>1, <3>2, <4>3
        <5>2. QED
          BY <5>1, <1>12, <3>0, <4>1
      <4>4. QED
        BY <4>2, <4>3, <3>2, <2>3
    <3>3. CASE /\ seqOfResource' = m_csSeqNum' /\ uses' = uses \cup {commands + 1} /\ m_csChunk' = <<>>
               /\ commands' = commands + 2
      <4>1. \E k \in Int : Covered(id, k)'
        <5>1. CASE id \in uses
          <6>1. seqOfResource \in Numbers /\ seqOfResource \in Int
            BY <1>1, <2>1, StreamAssumption DEF TypeOK, Numbers
          <6> DEFINE r == seqOfResource
          <6>2. \E k \in Numbers : k >= seqOfResource /\ k \in Int
            BY <6>1
          <6>3. \E k \in Int : Covered(id, k)
            BY <6>2, <1>1, <5>1 DEF Placed
          <6>4. QED
            BY <6>3, <1>12
        <5>2. CASE id = commands + 1
          <6>1. id \in commands + 1 .. commands' /\ \E k \in Int : k > m_csSeqNum'
            <7>1. d + 1 > d /\ d + 1 \in Int
              BY <2>1
            <7>2. QED
              BY <7>1, <2>1, <3>3, <5>2
          <6>2. QED
            BY <6>1, <1>12
        <5>3. QED
          BY <5>1, <5>2, <3>3, <2>3
      <4>2. PICK k \in Int : Covered(id, k)'
        BY <4>1
      <4>3. n >= m_csSeqNum' /\ m_csChunk' = <<>>
        BY <2>3, <3>3
      <4>4. chunk' # <<>> => pc'["worker"] = "execute"
        BY <1>11 DEF Ordered
      <4>5. QED
        BY <2>1, <3>0, <4>2, <4>3, <4>4, <1>3, CoveredByLast
    <3>4. QED
      BY <1>7, <3>1, <3>2, <3>3
  <2>4. QED
    BY <2>3 DEF Placed
<1>14. Locked'
  BY <1>1, <1>5, <1>6 DEF Locked
<1>15. Waits'
  BY <1>5, <1>6 DEF Waits
<1>16. QED
  BY <1>9, <1>10, <1>11, <1>13, <1>14, <1>15 DEF IInv
LEMMA GotoStep ==
  ASSUME NEW t \in Threads, NEW where, Goto(t, where), pc = [u \in Threads |-> pc[u]]
  PROVE  /\ pc' = [u \in Threads |-> pc'[u]] /\ pc'[t] = where
         /\ \A u \in Threads : u # t => pc'[u] = pc[u]
BY DEF Goto

LEMMA ThreadNames ==
  "worker" \in Threads /\ Callers \subseteq Threads /\ "worker" \notin Callers /\ "free" \notin Callers
BY StreamAssumption DEF Threads

LEMMA SynchronizeKeeps ==
  ASSUME IInv, NEW c \in Callers, NEW number \in {SynchronizeAll, seqOfResource},
         Synchronize(c, number)
  PROVE  IInv'
<1>1. TypeOK /\ Counts /\ Ordered /\ Placed /\ Locked /\ Waits
  BY DEF IInv
<1>2. PICK chunks : Dispatches(chunks)
  BY <1>1, SynchronizeDispatches
<1>3. /\ Taken' = Taken /\ Taken \in Nat
      /\ m_chunksQueued' \in Seq(Seq(Commands) \ {<<>>})
      /\ Len(chunks) \in Nat /\ m_csSeqNum' = m_chunksDispatched + Len(chunks)
      /\ m_chunksDispatched' = m_chunksDispatched + Len(chunks)
      /\ m_chunksDispatched' = Taken' + Len(m_chunksQueued')
      /\ m_csSeqNum' = m_chunksDispatched' /\ m_chunksDispatched' \in 0 .. MaxCommands
      /\ m_chunksDispatched' + Len(m_csChunk') <= commands'
      /\ commands' \in 0 .. MaxCommands
      /\ sleeping' \in [Threads -> {"awake", "m_condOnAdd", "m_condOnSync"}]
  BY <1>1, <1>2, DispatchKeepsTypes
<1>4. /\ m_csChunk' \in Seq(Commands) /\ Len(m_csChunk') <= ChunkSize
      /\ MaxCommands \in Nat
      /\ m_chunksDispatched \in Nat /\ m_csSeqNum = m_chunksDispatched
      /\ m_chunksExecuted \in 0 .. m_chunksDispatched
      /\ seqOfResource \in 0 .. m_csSeqNum + 1 /\ seqOfResource <= commands
      /\ commands \in 0 .. MaxCommands /\ uses \subseteq Commands
  BY <1>1, <1>2, StreamAssumption DEF Dispatches, TypeOK, Counts
<1>5. /\ UNCHANGED <<commands, seqOfResource, uses, m_chunksExecuted, m_stopped, chunk, executed>>
      /\ Calls(c) /\ deviceLock' = c /\ Goto(c, "synchronize")
      /\ asked' = [asked EXCEPT ![c] = number] /\ before' = [before EXCEPT ![c] = commands]
      /\ seq' = [seq EXCEPT ![c] = IF number = SynchronizeAll THEN m_chunksDispatched' ELSE number]
      /\ number = SynchronizeAll => m_csChunk' = <<>>
  BY DEF Synchronize, Enter, Flushes
<1>6. /\ \A d \in Callers : pc[d] = "idle"
      /\ ~m_stopped /\ pc["worker"] # "exited" /\ deviceLock = "free"
  BY <1>5, OthersIdle
<1>7. /\ pc' = [u \in Threads |-> pc'[u]] /\ pc'[c] = "synchronize"
      /\ \A u \in Threads : u # c => pc'[u] = pc[u]
      /\ pc'["worker"] = pc["worker"]
  BY <1>1, <1>5, GotoStep, ThreadNames DEF Counts
<1>8. /\ \A t \in Threads : pc'[t] \in Places(t)
      /\ pc' \in [Threads -> {"idle", "synchronize", "synchronized", "gone", "loop",
                              "waiting", "execute", "executed", "exited"}]
  <2>1. \A t \in Threads : pc'[t] \in Places(t)
    BY <1>1, <1>7, ThreadNames DEF Counts, Places
  <2>2. \A t \in Threads : Places(t) \subseteq {"idle", "synchronize", "synchronized", "gone", "loop",
                              "waiting", "execute", "executed", "exited"}
    BY DEF Places
  <2>3. QED
    BY <2>1, <2>2, <1>7
<1>9. /\ seqOfResource \in 0 .. m_csSeqNum' + 1 /\ m_chunksExecuted \in 0 .. m_chunksDispatched'
      /\ m_chunksDispatched' \in 0 .. MaxCommands
  BY <1>3, <1>4
<1>10. /\ seq' \in [Callers -> 0 .. MaxCommands] /\ before' \in [Callers -> 0 .. MaxCommands]
       /\ asked' \in [Callers -> -1 .. MaxCommands]
  <2>1. seqOfResource \in 0 .. MaxCommands /\ SynchronizeAll \in -1 .. MaxCommands
    BY <1>4 DEF SynchronizeAll
  <2>2. /\ number \in -1 .. MaxCommands
        /\ (IF number = SynchronizeAll THEN m_chunksDispatched' ELSE number) \in 0 .. MaxCommands
    BY <2>1, <1>4, <1>9
  <2>3. QED
    BY <2>2, <1>1, <1>4, <1>5 DEF TypeOK
<1>11. TypeOK'
  <2>1. \A i \in DOMAIN m_chunksQueued' : m_chunksQueued'[i] \in Seq(Commands) \ {<<>>}
    BY <1>3
  <2>2. QED
    BY <1>1, <1>3, <1>4, <1>5, <1>8, <1>9, <1>10, <2>1 DEF TypeOK
<1>12. Counts'
  BY <1>1, <1>3, <1>4, <1>5, <1>7, <1>8 DEF Counts
<1>13. Ordered'
  BY <1>1, <1>2, DispatchKeepsOrder
<1>14. Placed'
  <2>1. \A id, n : n \in Int /\ Covered(id, n) => Covered(id, n)'
    BY <1>1, <1>2, DispatchKeepsCovered
  <2>2. Numbers \subseteq Int
    BY StreamAssumption DEF Numbers
  <2>3. QED
    BY <1>1, <1>5, <2>1, <2>2 DEF Placed
<1>15. Locked'
  BY <1>1, <1>5, <1>6, <1>7, ThreadNames DEF Locked
<1>16. Waits'
  <2> SUFFICES ASSUME NEW d \in Callers, pc'[d] \in {"synchronize", "synchronized"}
               PROVE  /\ before'[d] = commands'
                      /\ asked'[d] = SynchronizeAll => seq'[d] = m_chunksDispatched' /\ m_csChunk' = <<>>
                      /\ asked'[d] # SynchronizeAll => seq'[d] = seqOfResource'
                      /\ pc'[d] = "synchronized" => m_chunksExecuted' >= seq'[d]
    BY DEF Waits
  <2>1. d = c
    BY <1>6, <1>7, ThreadNames
  <2>2. /\ before'[c] = commands /\ asked'[c] = number
        /\ seq'[c] = IF number = SynchronizeAll THEN m_chunksDispatched' ELSE number
    BY <1>1, <1>5 DEF TypeOK
  <2>3. QED
    BY <2>1, <2>2, <1>5, <1>7
<1>17. QED
  BY <1>11, <1>12, <1>13, <1>14, <1>15, <1>16 DEF IInv

-----------------------------------------------------------------------------
(* Waiters *)

(* A step that moves only the caller, and the lock.                        *)
LEMMA CallerKeeps ==
  ASSUME IInv, NEW c \in Callers,
         UNCHANGED <<frontEnd, queue, m_chunksExecuted, chunk, executed, calls>>,
         pc' = [u \in Threads |-> pc'[u]], \A t \in Threads : pc'[t] \in Places(t),
         \A u \in Threads : u # c => pc'[u] = pc[u],
         m_stopped' \in BOOLEAN, deviceLock' \in Callers \cup {"free"},
         sleeping' \in [Threads -> {"awake", "m_condOnAdd", "m_condOnSync"}]
  PROVE  TypeOK' /\ Counts' /\ Ordered' /\ Placed'
<1>1. TypeOK /\ Counts /\ Ordered /\ Placed
  BY DEF IInv
<1>2. pc'["worker"] = pc["worker"]
  BY ThreadNames
<1>3. pc' \in [Threads -> {"idle", "synchronize", "synchronized", "gone", "loop",
                           "waiting", "execute", "executed", "exited"}]
  <2>1. \A t \in Threads : Places(t) \subseteq {"idle", "synchronize", "synchronized", "gone", "loop",
                              "waiting", "execute", "executed", "exited"}
    BY DEF Places
  <2>2. QED
    BY <2>1
<1>4. TypeOK'
  BY <1>1, <1>3 DEF TypeOK, frontEnd, queue, calls
<1>5. Taken' = Taken
  BY <1>2 DEF Taken
<1>6. Counts'
  BY <1>1, <1>5 DEF Counts, frontEnd, queue
<1>7. Ordered'
  BY <1>1, <1>2 DEF Ordered, frontEnd, queue
<1>8. \A id, n : Covered(id, n) => Covered(id, n)'
  BY <1>5 DEF Covered, frontEnd, queue
<1>9. Placed'
  BY <1>1, <1>8 DEF Placed, frontEnd
<1>10. QED
  BY <1>4, <1>6, <1>7, <1>9

LEMMA WaiterKeeps ==
  ASSUME IInv, NEW c \in Callers, Waiter(c)
  PROVE  IInv'
<1>1. TypeOK /\ Counts /\ Ordered /\ Placed /\ Locked /\ Waits
  BY DEF IInv
<1>2. CASE WaitOver(c)
  <2>1. /\ pc[c] = "synchronize" /\ m_chunksExecuted >= seq[c] /\ Goto(c, "synchronized")
        /\ UNCHANGED <<frontEnd, deviceLock, queue, m_chunksExecuted, m_stopped, chunk,
                        executed, sleeping, calls>>
    BY <1>2 DEF WaitOver
  <2>2. /\ pc' = [u \in Threads |-> pc'[u]] /\ pc'[c] = "synchronized"
        /\ \A u \in Threads : u # c => pc'[u] = pc[u]
    BY <1>1, <2>1, GotoStep, ThreadNames DEF Counts
  <2>3. \A t \in Threads : pc'[t] \in Places(t)
    BY <1>1, <2>2, ThreadNames DEF Counts, Places
  <2>4. TypeOK' /\ Counts' /\ Ordered' /\ Placed'
    BY <1>1, <2>1, <2>2, <2>3, CallerKeeps DEF TypeOK
  <2>5. Locked'
    BY <1>1, <2>1, <2>2, ThreadNames DEF Locked, frontEnd, queue
  <2>6. Waits'
    BY <1>1, <2>1, <2>2, ThreadNames DEF Waits, frontEnd, queue, calls
  <2>7. QED
    BY <2>4, <2>5, <2>6 DEF IInv
<1>3. CASE WaitGoesOn(c)
  <2>1. UNCHANGED <<frontEnd, deviceLock, queue, m_chunksExecuted, m_stopped, chunk,
                    executed, pc, calls>>
    BY <1>3 DEF WaitGoesOn
  <2>2. sleeping' \in [Threads -> {"awake", "m_condOnAdd", "m_condOnSync"}]
    BY <1>1, <1>3 DEF WaitGoesOn, TypeOK
  <2>3. TypeOK' /\ Counts' /\ Ordered' /\ Placed'
    BY <1>1, <2>1, <2>2, CallerKeeps DEF TypeOK, Counts
  <2>4. Locked' /\ Waits'
    BY <1>1, <2>1 DEF Locked, Waits, frontEnd, queue, calls
  <2>5. QED
    BY <2>3, <2>4 DEF IInv
<1>4. QED
  BY <1>2, <1>3 DEF Waiter

LEMMA ReturnsKeeps ==
  ASSUME IInv, NEW c \in Callers, Returns(c)
  PROVE  IInv'
<1>1. TypeOK /\ Counts /\ Ordered /\ Placed /\ Locked /\ Waits
  BY DEF IInv
<1>2. /\ pc[c] = "synchronized" /\ deviceLock' = "free" /\ Goto(c, "idle")
      /\ UNCHANGED <<frontEnd, queue, m_chunksExecuted, m_stopped, chunk, executed,
                      sleeping, calls>>
  BY DEF Returns
<1>3. /\ pc' = [u \in Threads |-> pc'[u]] /\ pc'[c] = "idle"
      /\ \A u \in Threads : u # c => pc'[u] = pc[u]
  BY <1>1, <1>2, GotoStep, ThreadNames DEF Counts
<1>4. \A t \in Threads : pc'[t] \in Places(t)
  BY <1>1, <1>3, ThreadNames DEF Counts, Places
<1>5. TypeOK' /\ Counts' /\ Ordered' /\ Placed'
  BY <1>1, <1>2, <1>3, <1>4, CallerKeeps DEF TypeOK
<1>6. \A d \in Callers : d # c => pc[d] = "idle"
  BY <1>1, <1>2 DEF Locked
<1>7. Locked'
  BY <1>1, <1>2, <1>3, <1>6, ThreadNames DEF Locked, frontEnd, queue
<1>8. Waits'
  BY <1>1, <1>3, <1>6, ThreadNames DEF Waits
<1>9. QED
  BY <1>5, <1>7, <1>8 DEF IInv

LEMMA DestroyKeeps ==
  ASSUME IInv, NEW c \in Callers, Destroy(c)
  PROVE  IInv'
<1>1. TypeOK /\ Counts /\ Ordered /\ Placed /\ Locked /\ Waits
  BY DEF IInv
<1>2. /\ pc[c] = "synchronized" /\ asked[c] = SynchronizeAll /\ m_stopped' = TRUE
      /\ Goto(c, "gone") /\ NotifyOne("m_condOnAdd")
      /\ \A t \in Callers \ {c} : pc[t] = "idle"
      /\ UNCHANGED <<frontEnd, deviceLock, queue, m_chunksExecuted, chunk, executed, calls>>
  BY DEF Destroy
<1>3. /\ pc' = [u \in Threads |-> pc'[u]] /\ pc'[c] = "gone"
      /\ \A u \in Threads : u # c => pc'[u] = pc[u]
  BY <1>1, <1>2, GotoStep, ThreadNames DEF Counts
<1>4. \A t \in Threads : pc'[t] \in Places(t)
  BY <1>1, <1>3, ThreadNames DEF Counts, Places
<1>5. sleeping' \in [Threads -> {"awake", "m_condOnAdd", "m_condOnSync"}]
  BY <1>1, <1>2 DEF NotifyOne, TypeOK
<1>6. TypeOK' /\ Counts' /\ Ordered' /\ Placed'
  BY <1>1, <1>2, <1>3, <1>4, <1>5, CallerKeeps DEF TypeOK
<1>7. m_chunksExecuted = m_chunksDispatched /\ m_csChunk = <<>> /\ deviceLock = c
  <2>1. /\ m_chunksExecuted >= seq[c] /\ seq[c] = m_chunksDispatched /\ m_csChunk = <<>>
        /\ deviceLock = c
    BY <1>1, <1>2 DEF Waits, Locked
  <2>2. m_chunksDispatched \in Nat /\ m_chunksExecuted \in 0 .. m_chunksDispatched
    BY <1>1 DEF TypeOK
  <2>3. QED
    BY <2>1, <2>2
<1>8. Locked'
  BY <1>1, <1>2, <1>3, <1>7, ThreadNames DEF Locked, frontEnd, queue
<1>9. Waits'
  BY <1>1, <1>2, <1>3, ThreadNames DEF Waits
<1>10. QED
  BY <1>6, <1>8, <1>9 DEF IInv
-----------------------------------------------------------------------------
(* The worker *)

(* When the thread is stopped all that was dispatched is counted.          *)
LEMMA StoppedMeansDone ==
  ASSUME IInv, m_stopped
  PROVE  m_chunksQueued = <<>> /\ pc["worker"] \notin {"execute", "executed"}
<1>1. /\ m_chunksExecuted = m_chunksDispatched /\ m_chunksExecuted \in Nat
      /\ m_chunksDispatched = Taken + Len(m_chunksQueued)
      /\ m_chunksQueued \in Seq(Seq(Commands) \ {<<>>})
  BY DEF IInv, Locked, Counts, TypeOK
<1>2. Len(m_chunksQueued) \in Nat /\ (m_chunksQueued # <<>> => Len(m_chunksQueued) >= 1)
  BY <1>1
<1>3. QED
  BY <1>1, <1>2 DEF Taken

(* A step of the worker that leaves the front end alone.                   *)
LEMMA WorkerKeeps ==
  ASSUME IInv, NEW where \in Places("worker"), Goto("worker", where), where # "exited", ~m_stopped,
         UNCHANGED <<frontEnd, deviceLock, m_chunksDispatched, m_stopped, calls>>,
         m_chunksQueued' \in Seq(Seq(Commands) \ {<<>>}),
         chunk' \in Seq(Commands), executed' \in Seq(Commands),
         m_chunksExecuted' \in Nat, m_chunksExecuted' >= m_chunksExecuted,
         m_chunksDispatched = Taken' + Len(m_chunksQueued'),
         sleeping' \in [Threads -> {"awake", "m_condOnAdd", "m_condOnSync"}],
         m_chunksExecuted' <= m_chunksDispatched,
         Ordered', \A id, n : n \in Int /\ Covered(id, n) => Covered(id, n)'
  PROVE  IInv'
<1>1. TypeOK /\ Counts /\ Ordered /\ Placed /\ Locked /\ Waits
  BY DEF IInv
<1>2. /\ pc' = [u \in Threads |-> pc'[u]] /\ pc'["worker"] = where
      /\ \A u \in Threads : u # "worker" => pc'[u] = pc[u]
  BY <1>1, GotoStep, ThreadNames DEF Counts
<1>3. /\ \A t \in Threads : pc'[t] \in Places(t)
      /\ pc' \in [Threads -> {"idle", "synchronize", "synchronized", "gone", "loop",
                              "waiting", "execute", "executed", "exited"}]
  <2>1. \A t \in Threads : pc'[t] \in Places(t)
    BY <1>1, <1>2, ThreadNames DEF Counts
  <2>2. \A t \in Threads : Places(t) \subseteq {"idle", "synchronize", "synchronized", "gone", "loop",
                              "waiting", "execute", "executed", "exited"}
    BY DEF Places
  <2>3. QED
    BY <2>1, <2>2, <1>2
<1>4. TypeOK'
  <2>1. \A i \in DOMAIN m_chunksQueued' : m_chunksQueued'[i] \in Seq(Commands) \ {<<>>}
    OBVIOUS
  <2>2. m_chunksExecuted' \in 0 .. m_chunksDispatched
    BY <1>1, StreamAssumption DEF TypeOK
  <2>3. QED
    BY <1>1, <1>3, <2>1, <2>2 DEF TypeOK, frontEnd, calls
<1>5. Counts'
  BY <1>1, <1>2, <1>3 DEF Counts, frontEnd
<1>6. Placed'
  <2>1. Numbers \subseteq Int
    BY StreamAssumption DEF Numbers
  <2>2. QED
    BY <1>1, <2>1 DEF Placed, frontEnd
<1>7. Locked'
  BY <1>1, <1>2, ThreadNames DEF Locked, frontEnd
<1>8. Waits'
  <2>1. \A c \in Callers : pc[c] = "synchronized" => m_chunksExecuted >= seq[c]
    BY <1>1 DEF Waits
  <2>2. \A c \in Callers : seq[c] \in Int /\ pc'[c] = pc[c]
    BY <1>1, <1>2, ThreadNames DEF TypeOK
  <2>3. \A a, b, d \in Int : a >= b /\ b >= d => a >= d
    OBVIOUS
  <2>4. m_chunksExecuted \in Int /\ m_chunksExecuted' \in Int
    BY <1>1 DEF TypeOK
  <2>5. \A c \in Callers : pc[c] = "synchronized" => m_chunksExecuted' >= seq[c]
    BY <2>1, <2>2, <2>3, <2>4
  <2>6. QED
    BY <1>1, <2>2, <2>5 DEF Waits, frontEnd, calls
<1>9. QED
  BY <1>4, <1>5, Ordered', <1>6, <1>7, <1>8 DEF IInv

LEMMA CountStep ==
  ASSUME TypeOK, Counts, CountExecuted, pc["worker"] \in {"loop", "executed", "waiting"}
  PROVE  /\ m_chunksExecuted' = Taken /\ Taken \in Nat /\ Taken >= m_chunksExecuted
         /\ sleeping' \in [Threads -> {"awake", "m_condOnAdd", "m_condOnSync"}]
<1>1. m_chunksExecuted \in Nat
  BY DEF TypeOK
<1>2. CASE pc["worker"] = "executed"
  <2>1. m_chunksExecuted' = m_chunksExecuted + 1 /\ NotifyOne("m_condOnSync") /\ Taken = m_chunksExecuted + 1
    BY <1>2 DEF CountExecuted, Taken
  <2>2. sleeping' \in [Threads -> {"awake", "m_condOnAdd", "m_condOnSync"}]
    BY <2>1 DEF NotifyOne, TypeOK
  <2>3. QED
    BY <1>1, <2>1, <2>2
<1>3. CASE pc["worker"] # "executed"
  BY <1>1, <1>3 DEF CountExecuted, Taken, TypeOK
<1>4. QED
  BY <1>2, <1>3

LEMMA TakeKeeps ==
  ASSUME IInv, Take
  PROVE  IInv'
<1>1. TypeOK /\ Counts /\ Ordered
  BY DEF IInv
<1>2. /\ pc["worker"] \in {"loop", "executed", "waiting"} /\ m_chunksQueued # <<>> /\ CountExecuted
      /\ chunk' = Head(m_chunksQueued) /\ m_chunksQueued' = Tail(m_chunksQueued)
      /\ Goto("worker", "execute")
      /\ UNCHANGED <<frontEnd, deviceLock, m_chunksDispatched, m_stopped, executed, calls>>
  BY DEF Take
<1>3. ~m_stopped /\ chunk = <<>>
  BY <1>1, <1>2, StoppedMeansDone DEF Ordered
<1>4. /\ m_chunksQueued \in Seq(Seq(Commands) \ {<<>>})
      /\ m_chunksDispatched = Taken + Len(m_chunksQueued) /\ executed \in Seq(Commands)
      /\ m_chunksDispatched \in Nat
  BY <1>1 DEF Counts, TypeOK
<1>5. /\ m_chunksQueued' \in Seq(Seq(Commands) \ {<<>>})
      /\ Len(m_chunksQueued) \in Nat /\ Len(m_chunksQueued) >= 1
      /\ Len(m_chunksQueued') = Len(m_chunksQueued) - 1
      /\ chunk' = m_chunksQueued[1] /\ chunk' \in Seq(Commands) /\ chunk' # <<>>
      /\ \A i \in 1 .. Len(m_chunksQueued) - 1 : m_chunksQueued'[i] = m_chunksQueued[i + 1]
  BY <1>2, <1>4
<1>6. /\ m_chunksExecuted' = Taken /\ Taken \in Nat /\ Taken >= m_chunksExecuted
      /\ sleeping' \in [Threads -> {"awake", "m_condOnAdd", "m_condOnSync"}]
  BY <1>1, <1>2, CountStep
<1>7. /\ pc' = [u \in Threads |-> pc'[u]] /\ pc'["worker"] = "execute"
  BY <1>1, <1>2, GotoStep, ThreadNames DEF Counts
<1>8. Taken' = Taken + 1
  BY <1>6, <1>7 DEF Taken
<1>9. /\ m_chunksDispatched = Taken' + Len(m_chunksQueued') /\ m_chunksExecuted' <= m_chunksDispatched
      /\ m_chunksExecuted' \in Nat /\ m_chunksExecuted' >= m_chunksExecuted
  BY <1>4, <1>5, <1>6, <1>8
<1>10. Ordered'
  <2>1. m_chunksQueued \in Seq(Seq(Commands))
    BY <1>4, SeqMonotonic
  <2>2. Len(chunk) = 0 /\ Len(executed) \in Nat
    BY <1>3, <1>4
  <2>3. Len(executed) + Len(chunk) = Len(executed)
    BY <2>2
  <2>4. Holds(m_chunksQueued, Len(executed), commands - Len(m_csChunk))
    BY <1>1, <2>3 DEF Ordered
  <2>5. /\ Runs(Head(m_chunksQueued), Len(executed))
        /\ Holds(Tail(m_chunksQueued), Len(executed) + Len(Head(m_chunksQueued)), commands - Len(m_csChunk))
    BY <1>2, <2>1, <2>4, HoldsTail
  <2>6. QED
    BY <1>1, <1>2, <1>5, <1>7, <2>5 DEF Ordered, frontEnd
<1>11. \A id, n : n \in Int /\ Covered(id, n) => Covered(id, n)'
  <2> SUFFICES ASSUME NEW id, NEW n \in Int, Covered(id, n)
               PROVE  Covered(id, n)'
    OBVIOUS
  <2>1. CASE id \in Range(executed) \/ (id \in Range(m_csChunk) /\ m_csSeqNum < n)
    BY <2>1, <1>2 DEF Covered, frontEnd
  <2>2. id \notin Range(chunk)
    BY <1>3 DEF Range
  <2>3. CASE \E i \in 1 .. Len(m_chunksQueued) : id \in Range(m_chunksQueued[i]) /\ Taken + i <= n
    <3>1. PICK i \in 1 .. Len(m_chunksQueued) : id \in Range(m_chunksQueued[i]) /\ Taken + i <= n
      BY <2>3
    <3>2. CASE i = 1
      <4>1. id \in Range(chunk') /\ m_chunksExecuted' < n
        BY <3>1, <3>2, <1>5, <1>6
      <4>2. QED
        BY <4>1 DEF Covered
    <3>3. CASE i # 1
      <4> DEFINE j == i - 1
      <4>1. j \in 1 .. Len(m_chunksQueued) - 1 /\ j + 1 = i /\ (Taken + 1) + j <= n
        BY <3>1, <3>3, <1>5, <1>6
      <4>2. j \in 1 .. Len(m_chunksQueued') /\ id \in Range(m_chunksQueued'[j])
        BY <3>1, <4>1, <1>5
      <4>3. Taken' + j <= n
        BY <4>1, <1>8
      <4>4. QED
        BY <4>2, <4>3 DEF Covered
    <3>4. QED
      BY <3>2, <3>3
  <2>4. QED
    BY <2>1, <2>2, <2>3 DEF Covered
<1>12. "execute" \in Places("worker") /\ executed' \in Seq(Commands)
  BY <1>2, <1>4 DEF Places
<1>13. QED
  BY <1>2, <1>3, <1>5, <1>6, <1>9, <1>10, <1>11, <1>12, WorkerKeeps

LEMMA CountAndWaitKeeps ==
  ASSUME IInv, CountAndWait
  PROVE  IInv'
<1>1. TypeOK /\ Counts /\ Ordered
  BY DEF IInv
<1>2. /\ pc["worker"] \in {"loop", "executed"} /\ m_chunksQueued = <<>> /\ CountExecuted /\ ~m_stopped
      /\ Goto("worker", "waiting")
      /\ UNCHANGED <<frontEnd, deviceLock, queue, m_stopped, chunk, executed, calls>>
  BY DEF CountAndWait
<1>3. /\ m_chunksDispatched = Taken + Len(m_chunksQueued) /\ m_chunksDispatched \in Nat
      /\ chunk \in Seq(Commands) /\ executed \in Seq(Commands) /\ chunk = <<>>
      /\ m_chunksQueued \in Seq(Seq(Commands) \ {<<>>}) /\ Len(m_chunksQueued) = 0
  <2>1. m_chunksDispatched \in Nat /\ chunk \in Seq(Commands) /\ executed \in Seq(Commands)
    BY <1>1 DEF TypeOK
  <2>2. chunk = <<>> /\ Len(m_chunksQueued) = 0
    BY <1>1, <1>2 DEF Ordered
  <2>3. QED
    BY <1>1, <2>1, <2>2 DEF Counts
<1>4. /\ m_chunksExecuted' = Taken /\ Taken \in Nat /\ Taken >= m_chunksExecuted
      /\ sleeping' \in [Threads -> {"awake", "m_condOnAdd", "m_condOnSync"}]
  BY <1>1, <1>2, CountStep
<1>5. /\ pc' = [u \in Threads |-> pc'[u]] /\ pc'["worker"] = "waiting"
  BY <1>1, <1>2, GotoStep, ThreadNames DEF Counts
<1>6. Taken' = Taken
  BY <1>4, <1>5 DEF Taken
<1>7. /\ m_chunksDispatched = Taken' + Len(m_chunksQueued') /\ m_chunksExecuted' <= m_chunksDispatched
      /\ m_chunksExecuted' \in Nat /\ m_chunksExecuted' >= m_chunksExecuted
  BY <1>2, <1>3, <1>4, <1>6 DEF queue
<1>8. Ordered'
  BY <1>1, <1>2, <1>3, <1>5 DEF Ordered, frontEnd, queue
<1>9. \A id, n : n \in Int /\ Covered(id, n) => Covered(id, n)'
  BY <1>2, <1>3, <1>6 DEF Covered, frontEnd, queue, Range
<1>10. /\ "waiting" \in Places("worker") /\ executed' \in Seq(Commands) /\ chunk' \in Seq(Commands)
       /\ m_chunksQueued' \in Seq(Seq(Commands) \ {<<>>}) /\ UNCHANGED m_chunksDispatched
  BY <1>2, <1>3 DEF Places, queue
<1>11. QED
  BY <1>2, <1>4, <1>7, <1>8, <1>9, <1>10, WorkerKeeps

LEMMA ExecuteKeeps ==
  ASSUME IInv, Execute
  PROVE  IInv'
<1>1. TypeOK /\ Counts /\ Ordered
  BY DEF IInv
<1> DEFINE where == IF Len(chunk) = 1 THEN "executed" ELSE "execute"
<1>2. /\ pc["worker"] = "execute"
      /\ executed' = Append(executed, Head(chunk)) /\ chunk' = Tail(chunk)
      /\ Goto("worker", where)
      /\ UNCHANGED <<frontEnd, deviceLock, queue, m_chunksExecuted, m_stopped, sleeping, calls>>
  BY DEF Execute
<1>3. ~m_stopped /\ chunk # <<>>
  BY <1>1, <1>2, StoppedMeansDone DEF Ordered
<1>4. /\ m_chunksDispatched = Taken + Len(m_chunksQueued) /\ m_chunksExecuted \in 0 .. m_chunksDispatched
      /\ chunk \in Seq(Commands) /\ executed \in Seq(Commands)
      /\ m_chunksQueued \in Seq(Seq(Commands) \ {<<>>})
      /\ sleeping \in [Threads -> {"awake", "m_condOnAdd", "m_condOnSync"}]
  BY <1>1, <1>2 DEF Counts, TypeOK
<1>5. /\ Len(chunk) \in Nat /\ Len(chunk) >= 1 /\ Len(executed) \in Nat /\ Head(chunk) = chunk[1]
      /\ Len(chunk') = Len(chunk) - 1 /\ chunk' \in Seq(Commands) /\ Head(chunk) \in Commands
      /\ \A j \in 1 .. Len(chunk) - 1 : chunk'[j] = chunk[j + 1]
      /\ executed' \in Seq(Commands) /\ Len(executed') = Len(executed) + 1
      /\ executed'[Len(executed) + 1] = chunk[1]
      /\ \A j \in 1 .. Len(executed) : executed'[j] = executed[j]
  BY <1>2, <1>3, <1>4
<1>6. pc' = [u \in Threads |-> pc'[u]] /\ pc'["worker"] = where
  BY <1>1, <1>2, GotoStep, ThreadNames DEF Counts
<1>7. Taken' = Taken
  BY <1>2, <1>6 DEF Taken
<1>8. Ordered'
  <2>1. chunk[1] = Len(executed) + 1 /\ \A j \in 1 .. Len(chunk) : chunk[j] = Len(executed) + j
    BY <1>1, <1>5 DEF Ordered, Runs
  <2>2. Runs(executed', 0)
    <3>1. \A j \in 1 .. Len(executed) : executed[j] = 0 + j
      BY <1>1 DEF Ordered, Runs
    <3>2. \A j \in 1 .. Len(executed) + 1 : j \in 1 .. Len(executed) \/ j = Len(executed) + 1
      BY <1>5
    <3>3. \A j \in 1 .. Len(executed) + 1 : executed'[j] = 0 + j
      <4>1. executed'[Len(executed) + 1] = 0 + (Len(executed) + 1)
        BY <1>5, <2>1
      <4>2. \A j \in 1 .. Len(executed) : executed'[j] = 0 + j
        BY <1>5, <3>1
      <4>3. QED
        BY <3>2, <4>1, <4>2
    <3>4. QED
      BY <3>3, <1>5 DEF Runs
  <2>3. Runs(chunk', Len(executed'))
    BY <1>5, <2>1 DEF Runs
  <2>4. Len(executed') + Len(chunk') = Len(executed) + Len(chunk)
    BY <1>5
  <2>5. Holds(m_chunksQueued, Len(executed) + Len(chunk), commands - Len(m_csChunk))
    BY <1>1 DEF Ordered
  <2>6. pc'["worker"] = "execute" <=> chunk' # <<>>
    BY <1>5, <1>6
  <2>7. Runs(m_csChunk, commands - Len(m_csChunk))
    BY <1>1 DEF Ordered
  <2>8. QED
    BY <1>2, <2>2, <2>3, <2>4, <2>5, <2>6, <2>7 DEF Ordered, frontEnd, queue
<1>9. \A id, n : n \in Int /\ Covered(id, n) => Covered(id, n)'
  <2>1. \A id : id \in Range(executed) => id \in Range(executed')
    <3>1. DOMAIN executed = 1 .. Len(executed) /\ DOMAIN executed' = 1 .. Len(executed) + 1
      BY <1>4, <1>5
    <3>2. \A j \in DOMAIN executed : j \in DOMAIN executed' /\ executed'[j] = executed[j]
      BY <1>5, <3>1
    <3>3. QED
      BY <3>2 DEF Range
  <2>2. \A id : id \in Range(chunk) => id \in Range(executed') \/ id \in Range(chunk')
    <3> SUFFICES ASSUME NEW id, id \in Range(chunk)
                 PROVE  id \in Range(executed') \/ id \in Range(chunk')
      OBVIOUS
    <3>1. PICK j \in 1 .. Len(chunk) : id = chunk[j]
      BY <1>4 DEF Range
    <3>2. CASE j = 1
      <4>1. Len(executed) + 1 \in DOMAIN executed'
        BY <1>5
      <4>2. QED
        BY <3>1, <3>2, <4>1, <1>5 DEF Range
    <3>3. CASE j # 1
      <4> DEFINE k == j - 1
      <4>1. k \in DOMAIN chunk' /\ chunk'[k] = id
        BY <3>1, <3>3, <1>5
      <4>2. QED
        BY <4>1 DEF Range
    <3>4. QED
      BY <3>2, <3>3
  <2>3. QED
    BY <1>2, <1>7, <2>1, <2>2 DEF Covered, frontEnd, queue
<1>10. /\ where \in Places("worker") /\ where # "exited"
       /\ m_chunksQueued' \in Seq(Seq(Commands) \ {<<>>}) /\ UNCHANGED m_chunksDispatched
       /\ m_chunksExecuted' \in Nat /\ m_chunksExecuted' >= m_chunksExecuted
       /\ m_chunksDispatched = Taken' + Len(m_chunksQueued') /\ m_chunksExecuted' <= m_chunksDispatched
       /\ sleeping' \in [Threads -> {"awake", "m_condOnAdd", "m_condOnSync"}]
  BY <1>2, <1>4, <1>7 DEF Places, queue
<1> HIDE DEF where
<1>11. QED
  BY <1>2, <1>3, <1>5, <1>8, <1>9, <1>10, WorkerKeeps

LEMMA WorkerSleepsOrExitsKeeps ==
  ASSUME IInv, WorkerSleeps \/ WorkerExits
  PROVE  IInv'
<1>1. TypeOK /\ Counts /\ Ordered /\ Placed /\ Locked /\ Waits
  BY DEF IInv
<1>2. /\ UNCHANGED <<frontEnd, deviceLock, queue, m_chunksExecuted, m_stopped, chunk, executed, calls>>
      /\ sleeping' \in [Threads -> {"awake", "m_condOnAdd", "m_condOnSync"}]
      /\ pc["worker"] \in {"loop", "executed", "waiting"}
      /\ UNCHANGED pc \/ (Goto("worker", "exited") /\ m_stopped)
  BY <1>1 DEF WorkerSleeps, WorkerExits, TypeOK
<1>3. /\ pc' = [u \in Threads |-> pc'[u]] /\ \A u \in Threads : u # "worker" => pc'[u] = pc[u]
      /\ pc'["worker"] = pc["worker"] \/ (pc'["worker"] = "exited" /\ m_stopped)
  BY <1>1, <1>2, GotoStep, ThreadNames DEF Counts
<1>4. \A t \in Threads : pc'[t] \in Places(t)
  BY <1>1, <1>3, ThreadNames DEF Counts, Places
<1>5. Taken' = Taken /\ (pc'["worker"] = "execute" <=> pc["worker"] = "execute")
  BY <1>2, <1>3, StoppedMeansDone DEF Taken
<1>6. TypeOK'
  <2>1. \A t \in Threads : Places(t) \subseteq {"idle", "synchronize", "synchronized", "gone", "loop",
                              "waiting", "execute", "executed", "exited"}
    BY DEF Places
  <2>2. pc' \in [Threads -> {"idle", "synchronize", "synchronized", "gone", "loop",
                              "waiting", "execute", "executed", "exited"}]
    BY <2>1, <1>3, <1>4
  <2>3. QED
    BY <1>1, <1>2, <2>2 DEF TypeOK, frontEnd, queue, calls
<1>7. Counts'
  BY <1>1, <1>2, <1>3, <1>4, <1>5 DEF Counts, frontEnd, queue
<1>8. Ordered'
  BY <1>1, <1>2, <1>5 DEF Ordered, frontEnd, queue
<1>9. \A id, n : Covered(id, n) => Covered(id, n)'
  BY <1>2, <1>5 DEF Covered, frontEnd, queue
<1>10. Placed'
  BY <1>1, <1>2, <1>9 DEF Placed, frontEnd
<1>11. Locked' /\ Waits'
  BY <1>1, <1>2, <1>3, ThreadNames DEF Locked, Waits, frontEnd, queue, calls
<1>12. QED
  BY <1>6, <1>7, <1>8, <1>10, <1>11 DEF IInv

LEMMA NextInvariant == IInv /\ [Next]_vars => IInv'
<1> SUFFICES ASSUME IInv, [Next]_vars PROVE IInv'
  OBVIOUS
<1>1. CASE UNCHANGED vars
  BY <1>1 DEF vars, frontEnd, queue, calls, IInv, TypeOK, Counts, Ordered, Placed, Locked, Waits,
              Covered, Taken
<1>2. CASE \E c \in Callers : Record(c) \/ Flush(c) \/ ExecuteCommandList(c)
  BY <1>2, RecordingKeeps
<1>3. CASE \E c \in Callers : \E number \in {SynchronizeAll, seqOfResource} : Synchronize(c, number)
  BY <1>3, SynchronizeKeeps
<1>4. CASE \E c \in Callers : Waiter(c) \/ Returns(c) \/ Destroy(c)
  BY <1>4, WaiterKeeps, ReturnsKeeps, DestroyKeeps
<1>5. CASE Worker
  BY <1>5, TakeKeeps, CountAndWaitKeeps, ExecuteKeeps, WorkerSleepsOrExitsKeeps DEF Worker
<1>6. QED
  BY <1>1, <1>2, <1>3, <1>4, <1>5 DEF Next

LEMMA Invariance == Spec => []IInv
<1>1. QED
  BY InitInvariant, NextInvariant, PTL DEF Spec

-----------------------------------------------------------------------------
(* The theorems *)

(* The variables keep their types: in particular no more chunks are        *)
(* counted than were dispatched, and the device's number of the last chunk *)
(* is the thread's.                                                        *)
THEOREM StreamTypes == Spec => []TypeOK
<1>1. IInv => TypeOK
  BY DEF IInv
<1>2. QED
  BY <1>1, Invariance, PTL

(* With nothing being recorded and every dispatched chunk counted, every   *)
(* command was executed.                                                   *)
LEMMA AllExecuted ==
  ASSUME IInv, m_csChunk = <<>>, m_chunksExecuted >= m_chunksDispatched
  PROVE  Len(executed) = commands /\ 1 .. commands \subseteq Executed
<1>1. /\ TypeOK /\ m_chunksDispatched = Taken + Len(m_chunksQueued) /\ Ordered
      /\ m_chunksQueued \in Seq(Seq(Commands) \ {<<>>}) /\ m_chunksExecuted \in Nat
      /\ executed \in Seq(Commands) /\ commands \in Nat
  <2>1. TypeOK /\ Counts /\ Ordered
    BY DEF IInv
  <2>2. m_chunksExecuted \in Nat /\ executed \in Seq(Commands) /\ commands \in Nat
    BY <2>1, StreamAssumption DEF TypeOK
  <2>3. QED
    BY <2>1, <2>2 DEF Counts
<1>2. Len(m_chunksQueued) = 0 /\ pc["worker"] # "execute"
  <2>1. Len(m_chunksQueued) \in Nat
    BY <1>1
  <2>2. QED
    BY <1>1, <2>1 DEF Taken
<1>3. chunk = <<>> /\ Len(executed) \in Nat
  BY <1>1, <1>2 DEF Ordered
<1>4. Len(executed) + Len(chunk) = Len(executed) /\ commands - Len(m_csChunk) = commands
  <2>1. Len(chunk) = 0 /\ Len(m_csChunk) = 0
    BY <1>3
  <2>2. QED
    BY <2>1, <1>1, <1>3
<1>5. Holds(m_chunksQueued, Len(executed), commands)
  BY <1>1, <1>4 DEF Ordered
<1>6. Len(executed) = commands
  BY <1>2, <1>5 DEF Holds
<1>7. \A i \in 1 .. commands : executed[i] = i
  BY <1>1, <1>6 DEF Ordered, Runs
<1>8. QED
  BY <1>1, <1>6, <1>7 DEF Executed, Range

(* Commands are executed in the order in which they were recorded, none    *)
(* twice and none left out, and all of them when the worker has ended.     *)
THEOREM CommandsInOrder == Spec => []ExecutedInOrder
<1>1. ASSUME IInv
      PROVE  ExecutedInOrder
  <2>1. \A i \in DOMAIN executed : executed[i] = i
    BY <1>1 DEF IInv, TypeOK, Ordered, Runs
  <2>2. ASSUME pc["worker"] = "exited"
        PROVE  Len(executed) = commands
    <3>1. m_chunksExecuted = m_chunksDispatched /\ m_csChunk = <<>> /\ m_chunksExecuted \in Nat
      BY <1>1, <2>2 DEF IInv, Locked, TypeOK
    <3>2. QED
      BY <1>1, <3>1, AllExecuted
  <2>3. QED
    BY <2>1, <2>2 DEF ExecutedInOrder
<1>2. QED
  BY <1>1, Invariance, PTL

LEMMA UsesExecuted ==
  ASSUME IInv, m_chunksExecuted >= seqOfResource
  PROVE  uses \subseteq Executed
<1>1. /\ TypeOK /\ Counts /\ Placed /\ seqOfResource \in Int
      /\ seqOfResource \in Numbers
  BY StreamAssumption DEF IInv, TypeOK, Numbers
<1>2. \A id \in uses : Covered(id, seqOfResource)
  BY <1>1 DEF Placed
<1>3. QED
  BY <1>1, <1>2, CoveredIsExecuted DEF Executed

(* A sequence number that was counted tells that nothing that uses the     *)
(* resource is pending.                                                    *)
THEOREM LastNumberIsSound == Spec => []LastNumberMeansExecuted
<1>1. IInv => LastNumberMeansExecuted
  BY UsesExecuted DEF LastNumberMeansExecuted
<1>2. QED
  BY <1>1, Invariance, PTL

(* When SynchronizeCsThread returns, what it was called for was executed.  *)
THEOREM SynchronizeIsSound == Spec => []SynchronizedMeansExecuted
<1>1. ASSUME IInv
      PROVE  SynchronizedMeansExecuted
  <2> SUFFICES ASSUME NEW c \in Callers, pc[c] = "synchronized"
               PROVE  /\ asked[c] = SynchronizeAll => 1 .. before[c] \subseteq Executed
                      /\ asked[c] # SynchronizeAll => uses \subseteq Executed
    BY DEF SynchronizedMeansExecuted
  <2>1. /\ before[c] = commands /\ m_chunksExecuted >= seq[c]
        /\ asked[c] = SynchronizeAll => seq[c] = m_chunksDispatched /\ m_csChunk = <<>>
        /\ asked[c] # SynchronizeAll => seq[c] = seqOfResource
    BY <1>1 DEF IInv, Waits
  <2>2. QED
    BY <1>1, <2>1, AllExecuted, UsesExecuted
<1>2. QED
  BY <1>1, Invariance, PTL
===============================================================================
