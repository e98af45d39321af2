------------------------- MODULE SnapshotSyncProofs -------------------------
(***************************************************************************)
(* Proofs about SnapshotSync, for every number of blocks, chunks, handlers *)
(* and faults, and every pair of builds.                                   *)
(*                                                                         *)
(* None of the properties is inductive.  SyncInv follows a descriptor and  *)
(* the chunks along the pipeline: the first message on the stream of a     *)
(* handler that waits for it is a descriptor that the exporter gave out,   *)
(* so a collecting handler compares with the hash of a committed state;    *)
(* what is left of the export continues where the engine stopped taking;   *)
(* and a clean attempt has one handler at work, on the engine's own        *)
(* descriptor, so that nobody installs after the verdict "ok".             *)
(***************************************************************************)
EXTENDS SnapshotSync, SequenceTheorems, TLAPS

Formats == PeerFormats \cup {snapshotFormat}

(* The descriptors of the first n blocks. *)
DescriptorsTo(n) == {Descriptor(h, f) : h \in 0..n, f \in Formats}

(* Messages on an import stream of which nothing has been read: a descriptor *)
(* in D, then chunks.                                                        *)
Headed(s, D) ==
    /\ s \in Seq(Chunk \cup D)
    /\ s # <<>> => s[1] \in D /\ \A i \in 2..Len(s) : s[i] \in Chunk

(* The variables that SyncTypeOK leaves out; DescInv says what they hold. *)
StreamTypes ==
    /\ DOMAIN sent = Handlers /\ DOMAIN hDesc = Handlers /\ DOMAIN received = Handlers
    /\ offered \in [Handlers -> Seq(Chunk)]

(* The rest of the export continues where the engine stopped taking. *)
ExportInv ==
    /\ taken + Len(held) + Len(src) <= NChunks
    /\ ePc \in {"open", "send"} =>
        /\ held # <<>> => held[1] = [index |-> taken, data |-> desc.height]
        /\ \A i \in 1..Len(src) :
            src[i] = [index |-> taken + Len(held) + i - 1, data |-> desc.height]

(* Every descriptor that is about comes from the exporter. *)
DescInv ==
    /\ desc \in DescriptorsTo(expHeight)
    /\ \A h \in Handlers :
        /\ hPc[h] = "first" => /\ Headed(sent[h], DescriptorsTo(expHeight))
                               /\ conn[h] # "broken" => sent[h] # <<>>
        /\ hPc[h] # "first" => sent[h] \in Seq(Chunk)
        /\ hPc[h] = "collect" => hDesc[h] \in DescriptorsTo(expHeight)

(* A handler at work has given no verdict. *)
VerdictInv == \A h \in Handlers : hPc[h] # "idle" => verdict[h] = "none"

(* The engine's handler is the only one at work on a clean attempt, with the *)
(* engine's descriptor, and its verdict "ok" stands for what is installed.   *)
AttemptInv ==
    /\ ePc \in {"send", "wait"} => serving \in Handlers
    /\ ePc \in {"send", "wait"} /\ clean =>
        /\ \A k \in Handlers \ {serving} : hPc[k] = "idle"
        /\ hPc[serving] = "first" => Headed(sent[serving], {desc})
        /\ hPc[serving] = "collect" => hDesc[serving] = desc
        /\ verdict[serving] = "ok" => impCurrent = desc.hash
    /\ ePc = "done" /\ clean =>
        /\ \A k \in Handlers : hPc[k] = "idle"
        /\ impCurrent = desc.hash

SyncInv ==
    /\ SyncTypeOK /\ StreamTypes
    /\ InstalledIsCommitted
    /\ ExportInv /\ DescInv /\ VerdictInv /\ AttemptInv

-----------------------------------------------------------------------------
(* Descriptors and sequences of messages. *)

(* Descriptors of fewer blocks are descriptors of more. *)
LEMMA DescriptorsGrow ==
  ASSUME NEW m \in Nat, NEW n \in Nat, m <= n
  PROVE  DescriptorsTo(m) \subseteq DescriptorsTo(n)
  BY DEF DescriptorsTo

(* What a descriptor of one of the first n blocks says. *)
LEMMA DescriptorOf ==
  ASSUME NEW n \in Nat, NEW d \in DescriptorsTo(n)
  PROVE  /\ d.height \in 0..n
         /\ d.hash = Snapshot(d.height)
         /\ d.chunks = NChunks
  BY DEF DescriptorsTo, Descriptor

(* The descriptor that opens the stream. *)
LEMMA HeadedOne ==
  ASSUME NEW D, NEW d \in D
  PROVE  Headed(<<d>>, D)
  BY DEF Headed

(* The stream remains headed by a descriptor in a larger set. *)
LEMMA HeadedGrows ==
  ASSUME NEW D, NEW E, D \subseteq E, NEW s, Headed(s, D)
  PROVE  Headed(s, E)
<1>1. s \in Seq(Chunk \cup E)
  BY SeqMonotonic, Chunk \cup D \subseteq Chunk \cup E DEF Headed
<1>2. QED
  BY <1>1 DEF Headed

(* A chunk sent after the descriptor. *)
LEMMA HeadedAppend ==
  ASSUME NEW D, NEW s, Headed(s, D), s # <<>>, NEW c \in Chunk
  PROVE  Headed(Append(s, c), D) /\ Append(s, c) # <<>>
  BY DEF Headed

(* A chunk that the relay doubles. *)
LEMMA HeadedTwice ==
  ASSUME NEW D, NEW s, Headed(s, D), s # <<>>, NEW c \in Chunk
  PROVE  Headed(s \o <<c, c>>, D) /\ s \o <<c, c>> # <<>>
  BY ConcatProperties DEF Headed

(* A broken stream keeps a prefix of what was sent. *)
LEMMA HeadedPrefix ==
  ASSUME NEW D, NEW s, Headed(s, D), NEW n \in 0..Len(s)
  PROVE  Headed(SubSeq(s, 1, n), D)
  BY SubSeqProperties, EmptySeq DEF Headed

(* Once the descriptor is read, only chunks are left. *)
LEMMA HeadedTail ==
  ASSUME NEW D, NEW s, Headed(s, D), s # <<>>
  PROVE  Head(s) \in D /\ Tail(s) \in Seq(Chunk)
<1>1. Len(s) \in Nat \ {0}
  BY EmptySeq DEF Headed
<1>2. Tail(s) = SubSeq(s, 2, Len(s))
  BY TailIsSubSeq DEF Headed
<1>3. \A i \in 2..Len(s) : s[i] \in Chunk
  BY DEF Headed
<1>4. SubSeq(s, 2, Len(s)) \in Seq(Chunk)
  BY <1>1, <1>3, SubSeqProperties
<1>5. Head(s) = s[1]
  BY <1>1 DEF Headed
<1>6. QED
  BY <1>2, <1>4, <1>5 DEF Headed

-----------------------------------------------------------------------------
(* The invariant. *)

(* It holds initially. *)
LEMMA SyncInitInv == SyncInit => SyncInv
<1> SUFFICES ASSUME SyncInit PROVE SyncInv
  OBVIOUS
<1> USE SyncAssumption DEF SyncInit
<1>1. SyncTypeOK
  <2>1. <<>> \in Seq(Chunk) /\ Len(<<>>) = 0 /\ DOMAIN <<>> = {}
    BY EmptySeq
  <2>2. impCurrent \in [Indices -> 0..MaxHeight]
    BY DEF Genesis, Snapshot
  <2>3. \A h \in Handlers : Len(offered[h]) <= 1 /\ DOMAIN received[h] \subseteq Indices
    BY <2>1
  <2>4. desc \in {Descriptor(h, f) : h \in 0..MaxHeight, f \in PeerFormats \cup {snapshotFormat}}
    BY DEF NoDescriptor
  <2>5. src \in Seq(Chunk) /\ Len(src) <= NChunks /\ held \in Seq(Chunk) /\ Len(held) <= 1
    BY <2>1
  <2>6. chClosed \in BOOLEAN /\ clean \in BOOLEAN /\ chunksClosed \in [Handlers -> BOOLEAN]
    OBVIOUS
  <2>7. QED
    BY <2>2, <2>3, <2>4, <2>5, <2>6 DEF SyncTypeOK
<1>2. NoDescriptor \in DescriptorsTo(0)
  BY DEF NoDescriptor, DescriptorsTo, Formats
<1>3. StreamTypes
  BY EmptySeq DEF StreamTypes
<1>4. InstalledIsCommitted
  BY DEF InstalledIsCommitted, Genesis
<1>5. ExportInv
  BY DEF ExportInv
<1>6. DescInv /\ VerdictInv
  BY <1>2, EmptySeq DEF DescInv, VerdictInv
<1>7. AttemptInv
  BY DEF AttemptInv
<1>8. QED
  BY <1>1, <1>3, <1>4, <1>5, <1>6, <1>7 DEF SyncInv

(* The exporter's height only grows, and only the verdict "ok" of a handler  *)
(* that compared with a committed hash changes the importer's state.         *)
LEMMA InstalledStep ==
  ASSUME SyncInv, SyncNext
  PROVE  /\ expHeight' \in expHeight..MaxHeight
         /\ InstalledIsCommitted'
<1>1. /\ MaxHeight \in Nat /\ expHeight \in 0..MaxHeight
      /\ InstalledIsCommitted
  BY SyncAssumption DEF SyncInv, SyncTypeOK
<1>2. CASE ExporterCommits
  BY <1>1, <1>2 DEF ExporterCommits, InstalledIsCommitted
<1>3. ASSUME NEW h \in Handlers, ImportSnapshot(h)
      PROVE  expHeight' = expHeight /\ InstalledIsCommitted'
  <2>1. expHeight' = expHeight
    BY <1>3 DEF ImportSnapshot, exporterVars
  <2>2. CASE ImportVerdict(hDesc[h], received[h]) = "ok"
    <3>1. hDesc[h] \in DescriptorsTo(expHeight)
      BY <1>3 DEF SyncInv, DescInv, ImportSnapshot
    <3>2. received[h] = hDesc[h].hash
      BY <2>2 DEF ImportVerdict
    <3>3. impCurrent' = Snapshot(hDesc[h].height) /\ hDesc[h].height \in 0..expHeight
      BY <1>1, <1>3, <2>2, <3>1, <3>2, DescriptorOf DEF ImportSnapshot
    <3>4. QED
      BY <2>1, <3>3 DEF InstalledIsCommitted
  <2>3. CASE ImportVerdict(hDesc[h], received[h]) # "ok"
    BY <1>1, <1>3, <2>1, <2>3 DEF ImportSnapshot, InstalledIsCommitted
  <2>4. QED
    BY <2>1, <2>2, <2>3
<1>4. CASE UNCHANGED <<expHeight, impCurrent>>
  BY <1>1, <1>4 DEF InstalledIsCommitted
<1>5. CASE EngineStep
  BY <1>4, <1>5
  DEF EngineStep, exporterVars, AvailableSnapshots, ExportSnapshot, ImportOpen, ImportSend,
      ImportCloseSend, ImportReturns
<1>6. CASE ExportRecv \/ ExportEnd \/ ExportBreaks \/ ImportBreaks
  BY <1>4, <1>6 DEF exporterVars, ExportRecv, ExportEnd, ExportBreaks, ImportBreaks
<1>7. ASSUME NEW h \in Handlers, HandlerFirst(h) \/ HandlerRecv(h) \/ HandlerEnd(h) \/ Collect(h)
      PROVE  UNCHANGED <<expHeight, impCurrent>>
  BY <1>7 DEF exporterVars, HandlerFirst, HandlerRecv, HandlerEnd, Collect
<1>8. QED
  BY <1>1, <1>2, <1>3, <1>4, <1>5, <1>6, <1>7 DEF SyncNext, HandlerStep

(* The rest of an export keeps its order while the engine takes from it. *)
LEMMA ExportStep ==
  ASSUME SyncInv, SyncNext
  PROVE  /\ ExportInv'
         /\ src' \in Seq(Chunk) /\ held' \in Seq(Chunk) /\ Len(held') <= 1
         /\ taken' \in 0..NChunks
<1> USE SyncAssumption DEF exportVars, engineVars
<1>1. /\ src \in Seq(Chunk) /\ held \in Seq(Chunk) /\ Len(held) <= 1
      /\ taken \in 0..NChunks /\ ExportInv
      /\ expHeight \in 0..MaxHeight
      /\ <<>> \in Seq(Chunk) /\ Len(<<>>) = 0
  BY EmptySeq DEF SyncInv, SyncTypeOK
<1>2. CASE ExportSnapshot
  <2>1. ChunksOf(expHeight) \in Seq(Chunk) /\ Len(ChunksOf(expHeight)) = NChunks
    BY <1>1 DEF ChunksOf, Chunk, Indices
  <2>2. CASE src' = <<>>
    <3>1. held' = <<>> /\ taken' = 0
      BY <1>2 DEF ExportSnapshot
    <3>2. Len(held') = 0 /\ Len(src') = 0
      BY <1>1, <2>2, <3>1
    <3>3. QED
      BY <1>1, <2>2, <3>1, <3>2 DEF ExportInv
  <2>3. CASE desc.height = expHeight /\ src' = ChunksOf(expHeight)
    BY <1>2, <2>1, <2>3 DEF ExportSnapshot, ExportInv, ChunksOf
  <2>4. QED
    BY <1>2, <2>2, <2>3 DEF ExportSnapshot
<1>3. CASE ExportRecv
  <2>1. Head(src) \in Chunk /\ Head(src) = src[1] /\ Len(held) = 0 /\ Len(src) \in Nat \ {0}
    BY <1>1, <1>3, HeadTailProperties DEF ExportRecv
  <2>2. /\ Tail(src) \in Seq(Chunk) /\ Len(Tail(src)) = Len(src) - 1
        /\ \A i \in 1..Len(src) - 1 : Tail(src)[i] = src[i + 1]
    BY <1>1, <1>3, HeadTailProperties DEF ExportRecv
  <2>3. /\ held' = <<src[1]>> /\ src' = Tail(src)
        /\ UNCHANGED <<taken, ePc, desc>> /\ ePc \in {"open", "send"}
    BY <1>3, <2>1 DEF ExportRecv
  <2>4. Len(held') = 1 /\ held'[1] = src[1] /\ held' \in Seq(Chunk)
    BY <2>1, <2>3
  <2>5. QED
    BY <1>1, <2>1, <2>2, <2>3, <2>4 DEF ExportInv
<1>4. CASE ExportBreaks
  BY <1>1, <1>4 DEF ExportBreaks, ExportInv
<1>5. CASE ImportSend
  <2>1. /\ held # <<>> /\ held' = <<>> /\ taken' = taken + 1 /\ src' = src /\ desc' = desc
        /\ ePc = "send" /\ ePc' \in {"send", "list"}
    BY <1>5 DEF ImportSend, Returns
  <2>2. Len(held) \in Nat \ {0} /\ Len(held) <= 1 /\ Len(src) \in Nat
    BY <1>1, <2>1, EmptySeq, LenProperties
  <2>3. Len(held) = 1
    BY <2>2
  <2>4. Len(held') = 0
    BY <1>1, <2>1
  <2>5. QED
    BY <1>1, <2>1, <2>2, <2>3, <2>4 DEF ExportInv
<1>6. ASSUME NEW h \in Handlers, ImportOpen(h)
      PROVE  UNCHANGED exportVars /\ ExportInv'
  BY <1>1, <1>6 DEF ImportOpen, ExportInv
<1>7. CASE AvailableSnapshots \/ ImportCloseSend \/ ImportReturns
  BY <1>1, <1>7
  DEF AvailableSnapshots, ImportCloseSend, ImportReturns, Returns, ExportInv
<1>8. CASE UNCHANGED <<src, held, taken, ePc, desc>>
  BY <1>1, <1>8 DEF ExportInv
<1>9. QED
  BY <1>1, <1>2, <1>3, <1>4, <1>5, <1>6, <1>7, <1>8
  DEF SyncNext, EngineStep, HandlerStep, ExporterCommits, ExportEnd, ImportBreaks,
      HandlerFirst, HandlerRecv, HandlerEnd, Collect, ImportSnapshot

(* What a send does to the stream: nothing, or a chunk or two more while it  *)
(* is open.                                                                  *)
LEMMA Sends ==
  ASSUME SyncInv, ImportSend
  PROVE  /\ serving \in Handlers
         /\ \/ sent' = sent
            \/ /\ conn[serving] = "open"
               /\ \E c \in Chunk : \/ sent' = [sent EXCEPT ![serving] = Append(@, c)]
                                  \/ sent' = [sent EXCEPT ![serving] = @ \o <<c, c>>]
<1>1. ePc = "send" /\ held # <<>>
  BY DEF ImportSend
<1>2. serving \in Handlers
  BY <1>1 DEF SyncInv, AttemptInv
<1>3. held[1] \in Chunk
  BY <1>1, EmptySeq, ElementOfSeq DEF SyncInv, SyncTypeOK
<1>4. [held[1] EXCEPT !.data = 0] \in Chunk
  BY <1>3, SyncAssumption DEF Chunk
<1>5. CASE conn[serving] = "open" /\ Relayed(held[1])
  BY <1>2, <1>3, <1>4, <1>5 DEF Relayed
<1>6. QED
  BY <1>2, <1>5 DEF ImportSend

(* The descriptor stays ahead of the chunks, on every stream. *)
LEMMA DescStep ==
  ASSUME SyncInv, SyncNext
  PROVE  DescInv' /\ DOMAIN sent' = Handlers /\ DOMAIN hDesc' = Handlers
<1> DEFINE D == DescriptorsTo(expHeight)
<1>1. /\ DescInv
      /\ hPc \in [Handlers -> {"idle", "first", "collect"}]
      /\ conn \in [Handlers -> {"open", "half", "broken"}]
      /\ DOMAIN sent = Handlers /\ DOMAIN hDesc = Handlers
      /\ expHeight \in Nat /\ expHeight' \in Nat
  BY InstalledStep, SyncAssumption DEF SyncInv, SyncTypeOK, StreamTypes
<1>2. DescriptorsTo(expHeight) \subseteq DescriptorsTo(expHeight)'
  BY <1>1, InstalledStep, DescriptorsGrow DEF DescriptorsTo
<1>3. CASE ExporterCommits
  <2>1. UNCHANGED <<desc, sent, conn, hPc, hDesc>>
    BY <1>3 DEF ExporterCommits, engineVars, streamVars, handlerVars
  <2>2. \A h \in Handlers : Headed(sent[h], D) => Headed(sent[h], DescriptorsTo(expHeight'))
    BY <1>2, HeadedGrows
  <2>3. QED
    BY <1>1, <1>2, <2>1, <2>2 DEF DescInv
<1>4. CASE AvailableSnapshots
  <2>1. desc' \in D /\ UNCHANGED <<expHeight, sent, conn, hPc, hDesc>>
    BY <1>1, <1>4
    DEF AvailableSnapshots, exporterVars, streamVars, handlerVars, DescriptorsTo, Formats,
        SyncInv, SyncTypeOK
  <2>2. QED
    BY <1>1, <2>1 DEF DescInv
<1>5. ASSUME NEW h \in Handlers, ImportOpen(h)
      PROVE  DescInv' /\ DOMAIN sent' = Handlers /\ DOMAIN hDesc' = Handlers
  <2>1. UNCHANGED <<expHeight, desc, hDesc>>
    BY <1>5 DEF ImportOpen, exporterVars
  <2>2. Headed(<<desc>>, D) /\ <<desc>> # <<>>
    BY <1>1, HeadedOne DEF DescInv
  <2>3. /\ sent'[h] = <<desc>> /\ hPc'[h] = "first" /\ conn'[h] = "open"
        /\ \A k \in Handlers \ {h} : sent'[k] = sent[k] /\ hPc'[k] = hPc[k] /\ conn'[k] = conn[k]
        /\ DOMAIN sent' = Handlers
    BY <1>1, <1>5 DEF ImportOpen
  <2>4. QED
    BY <1>1, <2>1, <2>2, <2>3 DEF DescInv
<1>6. CASE ImportSend
  <2>1. UNCHANGED <<expHeight, desc, conn, hPc, hDesc>>
    BY <1>6 DEF ImportSend, Returns, exporterVars, engineVars, handlerVars
  <2>2. CASE sent' = sent
    BY <1>1, <2>1, <2>2 DEF DescInv
  <2>3. ASSUME NEW c \in Chunk, conn[serving] = "open", serving \in Handlers,
               \/ sent' = [sent EXCEPT ![serving] = Append(@, c)]
               \/ sent' = [sent EXCEPT ![serving] = @ \o <<c, c>>]
        PROVE  DescInv' /\ DOMAIN sent' = Handlers
    <3>1. /\ sent'[serving] \in {Append(sent[serving], c), sent[serving] \o <<c, c>>}
          /\ \A k \in Handlers \ {serving} : sent'[k] = sent[k]
          /\ DOMAIN sent' = Handlers
      BY <1>1, <2>3
    <3>2. CASE hPc[serving] = "first"
      <4>1. Headed(sent[serving], D) /\ sent[serving] # <<>>
        BY <1>1, <2>3, <3>2 DEF DescInv
      <4>2. Headed(Append(sent[serving], c), D) /\ Append(sent[serving], c) # <<>>
        BY <4>1, HeadedAppend
      <4>3. Headed(sent[serving] \o <<c, c>>, D) /\ sent[serving] \o <<c, c>> # <<>>
        BY <4>1, HeadedTwice
      <4>4. Headed(sent'[serving], D) /\ sent'[serving] # <<>>
        BY <3>1, <4>2, <4>3
      <4>5. QED
        BY <1>1, <2>1, <3>1, <3>2, <4>4 DEF DescInv
    <3>3. CASE hPc[serving] # "first"
      <4>1. sent[serving] \in Seq(Chunk) /\ <<c, c>> \in Seq(Chunk)
        BY <1>1, <2>3, <3>3 DEF DescInv
      <4>2. Append(sent[serving], c) \in Seq(Chunk)
        BY <4>1
      <4>3. sent[serving] \o <<c, c>> \in Seq(Chunk)
        BY <4>1, ConcatProperties
      <4>4. sent'[serving] \in Seq(Chunk)
        BY <3>1, <4>2, <4>3
      <4>5. QED
        BY <1>1, <2>1, <3>1, <3>3, <4>4 DEF DescInv
    <3>4. QED
      BY <3>1, <3>2, <3>3
  <2>4. QED
    BY <1>1, <1>6, <2>1, <2>2, <2>3, Sends
<1>7. CASE ImportBreaks
  <2>1. UNCHANGED <<expHeight, desc, hPc, hDesc>>
    BY <1>7 DEF ImportBreaks, exporterVars, engineVars, handlerVars
  <2>2. serving \in Handlers
    BY <1>7 DEF ImportBreaks, SyncInv, SyncTypeOK
  <2>3. PICK n \in 0..Len(sent[serving]) : sent' = [sent EXCEPT ![serving] = SubSeq(@, 1, n)]
    BY <1>7 DEF ImportBreaks
  <2>4. /\ sent'[serving] = SubSeq(sent[serving], 1, n) /\ conn'[serving] = "broken"
        /\ \A k \in Handlers \ {serving} : sent'[k] = sent[k] /\ conn'[k] = conn[k]
        /\ DOMAIN sent' = Handlers
    BY <1>1, <1>7, <2>2, <2>3 DEF ImportBreaks
  <2>5. hPc[serving] = "first" => Headed(sent'[serving], D)
    BY <1>1, <2>2, <2>4, HeadedPrefix DEF DescInv
  <2>6. hPc[serving] # "first" => sent'[serving] \in Seq(Chunk)
    <3>1. SUFFICES ASSUME hPc[serving] # "first" PROVE SubSeq(sent[serving], 1, n) \in Seq(Chunk)
      BY <2>4
    <3>2. sent[serving] \in Seq(Chunk)
      BY <1>1, <2>2, <3>1 DEF DescInv
    <3>3. Len(sent[serving]) \in Nat /\ \A i \in 1..n : sent[serving][i] \in Chunk
      BY <3>2, LenProperties, ElementOfSeq
    <3>4. QED
      BY <3>3, SubSeqProperties
  <2>7. QED
    BY <1>1, <2>1, <2>2, <2>4, <2>5, <2>6 DEF DescInv
<1>8. ASSUME NEW h \in Handlers, HandlerFirst(h)
      PROVE  DescInv' /\ DOMAIN sent' = Handlers /\ DOMAIN hDesc' = Handlers
  <2>1. /\ UNCHANGED <<expHeight, desc, conn>> /\ hPc[h] = "first"
        /\ Headed(sent[h], D)
    BY <1>1, <1>8 DEF HandlerFirst, exporterVars, engineVars, DescInv
  <2>2. /\ \A k \in Handlers \ {h} : UNCHANGED <<sent[k], hPc[k], hDesc[k]>>
        /\ DOMAIN sent' = Handlers /\ DOMAIN hDesc' = Handlers
        /\ hPc'[h] \in {"idle", "collect"}
    BY <1>1, <1>8 DEF HandlerFirst, HandlerReturns
  <2>3. /\ sent'[h] \in Seq(Chunk)
        /\ hPc'[h] = "collect" => hDesc'[h] \in D
    <3>1. CASE sent[h] = <<>>
      <4>1. UNCHANGED sent /\ hPc'[h] = "idle"
        BY <1>1, <1>8, <3>1 DEF HandlerFirst, HandlerReturns
      <4>2. QED
        BY <3>1, <4>1, EmptySeq
    <3>2. CASE sent[h] # <<>>
      <4>1. sent'[h] = Tail(sent[h]) /\ (hPc'[h] = "collect" => hDesc'[h] = Head(sent[h]))
        BY <1>1, <1>8, <3>2 DEF HandlerFirst, HandlerReturns, Ended
      <4>2. QED
        BY <2>1, <3>2, <4>1, HeadedTail
    <3>3. QED
      BY <3>1, <3>2
  <2>4. QED
    BY <1>1, <2>1, <2>2, <2>3 DEF DescInv
<1>9. ASSUME NEW h \in Handlers, HandlerRecv(h)
      PROVE  DescInv' /\ DOMAIN sent' = Handlers /\ UNCHANGED hDesc
  <2>1. UNCHANGED <<expHeight, desc, conn, hPc, hDesc>> /\ hPc[h] # "first"
    BY <1>9 DEF HandlerRecv, exporterVars, engineVars, SyncInv, VerdictInv
  <2>2. /\ sent'[h] = Tail(sent[h]) /\ sent[h] # <<>>
        /\ \A k \in Handlers \ {h} : sent'[k] = sent[k]
        /\ DOMAIN sent' = Handlers
    BY <1>1, <1>9 DEF HandlerRecv
  <2>3. sent'[h] \in Seq(Chunk)
    BY <1>1, <2>1, <2>2, HeadTailProperties DEF DescInv
  <2>4. QED
    BY <1>1, <2>1, <2>2, <2>3 DEF DescInv
<1>10. CASE ImportCloseSend
  <2>1. UNCHANGED <<expHeight, desc, sent, hPc, hDesc>> /\ serving \in Handlers
    BY <1>10 DEF ImportCloseSend, exporterVars, handlerVars, SyncInv, AttemptInv
  <2>2. \A k \in Handlers : conn'[k] # "broken" => conn[k] # "broken"
    BY <1>1, <1>10, <2>1 DEF ImportCloseSend
  <2>3. QED
    BY <1>1, <2>1, <2>2 DEF DescInv
<1>11. ASSUME NEW h \in Handlers, ImportSnapshot(h)
       PROVE  DescInv' /\ UNCHANGED sent /\ DOMAIN hDesc' = Handlers
  <2>1. /\ UNCHANGED <<expHeight, desc, conn, sent>>
        /\ hPc[h] = "collect" /\ hPc'[h] = "idle" /\ DOMAIN hDesc' = Handlers
        /\ \A k \in Handlers \ {h} : hPc'[k] = hPc[k] /\ hDesc'[k] = hDesc[k]
    BY <1>1, <1>11
    DEF ImportSnapshot, HandlerReturns, exporterVars, engineVars, streamVars
  <2>2. QED
    BY <1>1, <2>1 DEF DescInv
<1>12. CASE UNCHANGED <<expHeight, desc, sent, conn, hPc, hDesc>>
  BY <1>1, <1>12 DEF DescInv
<1>13. CASE ExportSnapshot \/ ImportReturns \/ ExportRecv \/ ExportEnd \/ ExportBreaks
  BY <1>12, <1>13
  DEF ExportSnapshot, ImportReturns, Returns, ExportRecv, ExportEnd, ExportBreaks, exporterVars,
      engineVars, streamVars, handlerVars
<1>14. ASSUME NEW h \in Handlers, HandlerEnd(h) \/ Collect(h)
       PROVE  UNCHANGED <<expHeight, desc, sent, conn, hPc, hDesc>>
  BY <1>14 DEF HandlerEnd, Collect, exporterVars, engineVars, streamVars
<1>15. QED
  BY <1>1, <1>3, <1>4, <1>5, <1>6, <1>7, <1>8, <1>9, <1>10, <1>11, <1>12, <1>13, <1>14
  DEF SyncNext, EngineStep, HandlerStep

(* A handler gives its verdict in the step in which it stops working. *)
LEMMA VerdictStep ==
  ASSUME SyncInv, SyncNext
  PROVE  VerdictInv'
<1>1. /\ VerdictInv
      /\ hPc \in [Handlers -> {"idle", "first", "collect"}]
      /\ verdict \in [Handlers -> {"none", "ok", "reject", "retry", "err"}]
  BY DEF SyncInv, SyncTypeOK
<1>2. ASSUME NEW h \in Handlers, ImportOpen(h) PROVE VerdictInv'
  BY <1>1, <1>2 DEF ImportOpen, VerdictInv
<1>3. ASSUME NEW h \in Handlers, HandlerFirst(h) PROVE VerdictInv'
  BY <1>1, <1>3 DEF HandlerFirst, HandlerReturns, VerdictInv
<1>4. ASSUME NEW h \in Handlers, ImportSnapshot(h) PROVE VerdictInv'
  BY <1>1, <1>4 DEF ImportSnapshot, HandlerReturns, VerdictInv
<1>5. CASE UNCHANGED <<hPc, verdict>>
  BY <1>1, <1>5 DEF VerdictInv
<1>6. CASE \/ ExporterCommits \/ AvailableSnapshots \/ ExportSnapshot \/ ImportSend
           \/ ImportCloseSend \/ ImportReturns
           \/ ExportRecv \/ ExportEnd \/ ExportBreaks \/ ImportBreaks
  BY <1>5, <1>6
  DEF ExporterCommits, AvailableSnapshots, ExportSnapshot, ImportSend, ImportCloseSend,
      ImportReturns, ExportRecv, ExportEnd, ExportBreaks, ImportBreaks, handlerVars
<1>7. ASSUME NEW h \in Handlers, HandlerRecv(h) \/ HandlerEnd(h) \/ Collect(h)
      PROVE  UNCHANGED <<hPc, verdict>>
  BY <1>7 DEF HandlerRecv, HandlerEnd, Collect
<1>8. QED
  BY <1>2, <1>3, <1>4, <1>5, <1>6, <1>7 DEF SyncNext, EngineStep, HandlerStep

(* A clean attempt remains one handler's work on the engine's descriptor. *)
LEMMA AttemptStep ==
  ASSUME SyncInv, SyncNext
  PROVE  AttemptInv'
<1> DEFINE Clean == ePc \in {"send", "wait"} /\ clean
<1>1. /\ AttemptInv /\ VerdictInv
      /\ hPc \in [Handlers -> {"idle", "first", "collect"}]
      /\ verdict \in [Handlers -> {"none", "ok", "reject", "retry", "err"}]
      /\ conn \in [Handlers -> {"open", "half", "broken"}]
      /\ DOMAIN sent = Handlers /\ DOMAIN hDesc = Handlers
  BY DEF SyncInv, SyncTypeOK, StreamTypes
<1>2. CASE AvailableSnapshots
  BY <1>2 DEF AvailableSnapshots, AttemptInv
<1>3. CASE ExportSnapshot
  BY <1>3 DEF ExportSnapshot, AttemptInv
<1>4. ASSUME NEW h \in Handlers, ImportOpen(h) PROVE AttemptInv'
  <2>1. /\ ePc' = "send" /\ serving' = h /\ UNCHANGED desc
        /\ clean' => \A k \in Handlers \ {h} : hPc'[k] = "idle"
        /\ hPc'[h] = "first" /\ sent'[h] = <<desc>> /\ verdict'[h] = "none"
    BY <1>1, <1>4 DEF ImportOpen
  <2>2. Headed(<<desc>>, {desc})
    BY HeadedOne
  <2>3. QED
    BY <2>1, <2>2 DEF AttemptInv
<1>5. CASE ImportSend
  <2>1. /\ UNCHANGED <<impCurrent, desc, clean, conn, hPc, hDesc, verdict>>
        /\ \/ ePc' = "list"
           \/ ePc' = "send" /\ ePc = "send" /\ UNCHANGED serving
    BY <1>5 DEF ImportSend, Returns, engineVars, handlerVars
  <2>2. CASE sent' = sent
    BY <1>1, <2>1, <2>2 DEF AttemptInv
  <2>3. ASSUME NEW c \in Chunk, conn[serving] = "open", serving \in Handlers,
               \/ sent' = [sent EXCEPT ![serving] = Append(@, c)]
               \/ sent' = [sent EXCEPT ![serving] = @ \o <<c, c>>],
               ePc' = "send", clean, hPc[serving] = "first"
        PROVE  Headed(sent'[serving], {desc})
    <3>1. sent[serving] # <<>> /\ Headed(sent[serving], {desc})
      BY <1>1, <2>1, <2>3 DEF SyncInv, DescInv, AttemptInv
    <3>2. \/ sent'[serving] = Append(sent[serving], c)
          \/ sent'[serving] = sent[serving] \o <<c, c>>
      BY <1>1, <2>3
    <3>3. QED
      BY <3>1, <3>2, HeadedAppend, HeadedTwice
  <2>4. QED
    BY <1>1, <1>5, <2>1, <2>2, <2>3, Sends DEF AttemptInv
<1>6. CASE ImportCloseSend
  BY <1>1, <1>6 DEF ImportCloseSend, AttemptInv, handlerVars
<1>7. CASE ImportReturns
  <2>1. ePc = "wait" /\ UNCHANGED <<impCurrent, desc, clean, hPc>>
    BY <1>7 DEF ImportReturns, Returns, handlerVars
  <2>2. ePc' = "list" \/ (ePc' = "done" /\ verdict[serving] = "ok")
    BY <1>7 DEF ImportReturns, Returns
  <2>3. ASSUME clean, ePc' = "done"
        PROVE  impCurrent = desc.hash /\ \A k \in Handlers : hPc[k] = "idle"
    BY <1>1, <2>1, <2>2, <2>3 DEF AttemptInv, VerdictInv
  <2>4. QED
    BY <2>1, <2>2, <2>3 DEF AttemptInv
<1>8. CASE ImportBreaks
  <2>1. UNCHANGED <<impCurrent, ePc, desc, serving, clean, hPc, hDesc, verdict>>
    BY <1>8 DEF ImportBreaks, engineVars, handlerVars
  <2>2. ASSUME Clean, hPc[serving] = "first" PROVE Headed(sent'[serving], {desc})
    <3>1. serving \in Handlers /\ Headed(sent[serving], {desc})
      BY <1>1, <2>2 DEF AttemptInv
    <3>2. PICK n \in 0..Len(sent[serving]) : sent' = [sent EXCEPT ![serving] = SubSeq(@, 1, n)]
      BY <1>8 DEF ImportBreaks
    <3>3. QED
      BY <1>1, <3>1, <3>2, HeadedPrefix
  <2>3. QED
    BY <1>1, <2>1, <2>2 DEF AttemptInv
<1>9. ASSUME NEW h \in Handlers, HandlerFirst(h) PROVE AttemptInv'
  <2>1. /\ UNCHANGED <<impCurrent, ePc, desc, serving, clean>> /\ hPc[h] = "first"
        /\ \A k \in Handlers \ {h} : UNCHANGED <<hPc[k], sent[k], hDesc[k], verdict[k]>>
        /\ hPc'[h] \in {"idle", "collect"} /\ verdict'[h] # "ok"
    BY <1>1, <1>9 DEF HandlerFirst, HandlerReturns, engineVars, VerdictInv
  <2>2. ASSUME Clean, h = serving, hPc'[h] = "collect" PROVE hDesc'[h] = desc
    <3>1. sent[h] # <<>> /\ hDesc'[h] = Head(sent[h])
      BY <1>1, <1>9, <2>2 DEF HandlerFirst, HandlerReturns
    <3>2. Headed(sent[h], {desc})
      BY <1>1, <2>1, <2>2 DEF AttemptInv
    <3>3. QED
      BY <3>1, <3>2, HeadedTail
  <2>3. QED
    BY <1>1, <2>1, <2>2 DEF AttemptInv
<1>10. ASSUME NEW h \in Handlers, HandlerRecv(h) PROVE AttemptInv'
  <2>1. /\ UNCHANGED <<impCurrent, ePc, desc, serving, clean, hPc, hDesc, verdict>>
        /\ hPc[h] # "first" /\ \A k \in Handlers \ {h} : sent'[k] = sent[k]
    BY <1>1, <1>10 DEF HandlerRecv, engineVars, VerdictInv
  <2>2. QED
    BY <1>1, <2>1 DEF AttemptInv
<1>11. ASSUME NEW h \in Handlers, ImportSnapshot(h) PROVE AttemptInv'
  <2> DEFINE v == ImportVerdict(hDesc[h], received[h])
  <2>1. /\ UNCHANGED <<ePc, desc, serving, clean, sent>>
        /\ hPc[h] = "collect" /\ hPc'[h] = "idle" /\ verdict'[h] = v
        /\ \A k \in Handlers \ {h} : UNCHANGED <<hPc[k], hDesc[k], verdict[k]>>
    BY <1>1, <1>11 DEF ImportSnapshot, HandlerReturns, engineVars, streamVars
  <2>2. Clean => h = serving /\ hDesc[h] = desc
    BY <1>1, <2>1 DEF AttemptInv
  <2>3. v = "ok" => impCurrent' = hDesc[h].hash
    BY <1>11 DEF ImportSnapshot, ImportVerdict
  <2>4. ePc = "done" => ~clean
    BY <1>1, <2>1 DEF AttemptInv
  <2>5. QED
    BY <1>1, <2>1, <2>2, <2>3, <2>4 DEF AttemptInv
<1>12. CASE UNCHANGED <<impCurrent, ePc, desc, serving, clean, sent, hPc, hDesc, verdict>>
  BY <1>1, <1>12 DEF AttemptInv
<1>13. CASE ExporterCommits \/ ExportRecv \/ ExportEnd \/ ExportBreaks
  BY <1>12, <1>13
  DEF ExporterCommits, ExportRecv, ExportEnd, ExportBreaks, engineVars, streamVars, handlerVars
<1>14. ASSUME NEW h \in Handlers, HandlerEnd(h) \/ Collect(h)
       PROVE  UNCHANGED <<impCurrent, ePc, desc, serving, clean, sent, hPc, hDesc, verdict>>
  BY <1>14 DEF HandlerEnd, Collect, engineVars, streamVars
<1>15. QED
  BY <1>2, <1>3, <1>4, <1>5, <1>6, <1>7, <1>8, <1>9, <1>10, <1>11, <1>12, <1>13, <1>14
  DEF SyncNext, EngineStep, HandlerStep

(* The collected chunks have indices of the snapshot, and at most one is on  *)
(* its way to the collector.                                                 *)
LEMMA CollectStep ==
  ASSUME SyncInv, SyncNext
  PROVE  /\ offered' \in [Handlers -> Seq(Chunk)]
         /\ DOMAIN received' = Handlers
         /\ \A h \in Handlers : Len(offered'[h]) <= 1 /\ DOMAIN received'[h] \subseteq Indices
<1> DEFINE Goal ==
      /\ offered' \in [Handlers -> Seq(Chunk)]
      /\ DOMAIN received' = Handlers
      /\ \A h \in Handlers : Len(offered'[h]) <= 1 /\ DOMAIN received'[h] \subseteq Indices
<1>1. /\ offered \in [Handlers -> Seq(Chunk)] /\ DOMAIN received = Handlers
      /\ \A h \in Handlers : Len(offered[h]) <= 1 /\ DOMAIN received[h] \subseteq Indices
      /\ <<>> \in Seq(Chunk) /\ Len(<<>>) = 0 /\ DOMAIN <<>> = {}
  BY EmptySeq DEF SyncInv, SyncTypeOK, StreamTypes
<1>2. ASSUME NEW h \in Handlers, ImportOpen(h) PROVE Goal
  <2>1. offered' = [offered EXCEPT ![h] = <<>>] /\ UNCHANGED received
    BY <1>2 DEF ImportOpen
  <2>2. QED
    BY <1>1, <2>1
<1>3. ASSUME NEW h \in Handlers, HandlerFirst(h) \/ ImportSnapshot(h) PROVE Goal
  <2>1. UNCHANGED offered
    BY <1>3 DEF HandlerFirst, ImportSnapshot
  <2>2. UNCHANGED received \/ received' = [received EXCEPT ![h] = <<>>]
    BY <1>3 DEF HandlerFirst, ImportSnapshot, HandlerReturns
  <2>3. QED
    BY <1>1, <2>1, <2>2
<1>4. ASSUME NEW h \in Handlers, HandlerRecv(h) PROVE Goal
  <2>1. hPc[h] # "first" /\ sent[h] # <<>>
    BY <1>4 DEF HandlerRecv, SyncInv, VerdictInv
  <2>2. Head(sent[h]) \in Chunk
    BY <2>1, HeadTailProperties DEF SyncInv, DescInv
  <2>3. <<Head(sent[h])>> \in Seq(Chunk) /\ Len(<<Head(sent[h])>>) = 1
    BY <2>2
  <2>4. offered' = [offered EXCEPT ![h] = <<Head(sent[h])>>] /\ UNCHANGED received
    BY <1>4 DEF HandlerRecv
  <2>5. QED
    BY <1>1, <2>3, <2>4
<1>5. ASSUME NEW h \in Handlers, Collect(h) PROVE Goal
  <2> DEFINE c == offered[h][1]
  <2>1. c.index \in Indices
    <3>1. offered[h] \in Seq(Chunk) /\ offered[h] # <<>>
      BY <1>1, <1>5 DEF Collect
    <3>2. c \in Chunk
      BY <3>1, EmptySeq, ElementOfSeq
    <3>3. QED
      BY <3>2 DEF Chunk
  <2>2. /\ offered' = [offered EXCEPT ![h] = <<>>]
        /\ received' = [received EXCEPT ![h] =
             [i \in DOMAIN received[h] \cup {c.index} |-> IF i = c.index THEN c.data ELSE received[h][i]]]
    BY <1>5 DEF Collect
  <2>3. DOMAIN received'[h] = DOMAIN received[h] \cup {c.index}
    BY <1>1, <2>2
  <2>4. DOMAIN received' = Handlers /\ \A k \in Handlers \ {h} : received'[k] = received[k]
    BY <1>1, <2>2
  <2>5. \A k \in Handlers : DOMAIN received'[k] \subseteq Indices
    BY <1>1, <2>1, <2>3, <2>4
  <2>6. QED
    BY <1>1, <2>2, <2>4, <2>5
<1>6. CASE UNCHANGED <<offered, received>>
  BY <1>1, <1>6
<1>7. CASE \/ ExporterCommits \/ AvailableSnapshots \/ ExportSnapshot \/ ImportSend
           \/ ImportCloseSend \/ ImportReturns
           \/ ExportRecv \/ ExportEnd \/ ExportBreaks \/ ImportBreaks
  BY <1>6, <1>7
  DEF ExporterCommits, AvailableSnapshots, ExportSnapshot, ImportSend, ImportCloseSend,
      ImportReturns, ExportRecv, ExportEnd, ExportBreaks, ImportBreaks, handlerVars
<1>8. ASSUME NEW h \in Handlers, HandlerEnd(h) PROVE UNCHANGED <<offered, received>>
  BY <1>8 DEF HandlerEnd
<1>9. QED
  BY <1>2, <1>3, <1>4, <1>5, <1>6, <1>7, <1>8 DEF SyncNext, EngineStep, HandlerStep

(* The remaining variables keep their types. *)
LEMMA ControlStep ==
  ASSUME SyncInv, SyncNext
  PROVE  /\ expFormat' \in PeerFormats
         /\ ePc' \in {"list", "export", "open", "send", "wait", "done"}
         /\ chClosed' \in BOOLEAN /\ clean' \in BOOLEAN
         /\ serving' \in Handlers \cup {NoHandler}
         /\ conn' \in [Handlers -> {"open", "half", "broken"}]
         /\ hPc' \in [Handlers -> {"idle", "first", "collect"}]
         /\ chunksClosed' \in [Handlers -> BOOLEAN]
         /\ verdict' \in [Handlers -> {"none", "ok", "reject", "retry", "err"}]
         /\ faults' \in 0..MaxFaults
<1> DEFINE Control ==
      /\ expFormat \in PeerFormats
      /\ ePc \in {"list", "export", "open", "send", "wait", "done"}
      /\ chClosed \in BOOLEAN /\ clean \in BOOLEAN
      /\ serving \in Handlers \cup {NoHandler}
      /\ conn \in [Handlers -> {"open", "half", "broken"}]
      /\ hPc \in [Handlers -> {"idle", "first", "collect"}]
      /\ chunksClosed \in [Handlers -> BOOLEAN]
      /\ verdict \in [Handlers -> {"none", "ok", "reject", "retry", "err"}]
      /\ faults \in 0..MaxFaults
<1> USE SyncAssumption DEF exporterVars, exportVars, engineVars, streamVars, handlerVars
<1>1. Control
  BY DEF SyncInv, SyncTypeOK
<1>2. CASE ExporterCommits \/ AvailableSnapshots \/ ExportSnapshot
  BY <1>1, <1>2 DEF ExporterCommits, AvailableSnapshots, ExportSnapshot
<1>3. ASSUME NEW h \in Handlers, ImportOpen(h) PROVE Control'
  BY <1>1, <1>3 DEF ImportOpen
<1>4. CASE ImportSend
  BY <1>1, <1>4 DEF ImportSend, Relayed, Returns, Fault
<1>5. CASE ImportCloseSend \/ ImportReturns
  BY <1>1, <1>5 DEF ImportCloseSend, ImportReturns, Returns
<1>6. CASE ExportRecv \/ ExportEnd
  BY <1>1, <1>6 DEF ExportRecv, ExportEnd
<1>7. CASE ExportBreaks \/ ImportBreaks
  BY <1>1, <1>7 DEF ExportBreaks, ImportBreaks, Fault
<1>8. ASSUME NEW h \in Handlers, HandlerFirst(h) PROVE Control'
  BY <1>1, <1>8 DEF HandlerFirst, HandlerReturns
<1>9. ASSUME NEW h \in Handlers, HandlerRecv(h) \/ HandlerEnd(h) \/ Collect(h) PROVE Control'
  BY <1>1, <1>9 DEF HandlerRecv, HandlerEnd, Collect
<1>10. ASSUME NEW h \in Handlers, ImportSnapshot(h) PROVE Control'
  <2>1. ImportVerdict(hDesc[h], received[h]) \in {"ok", "reject", "retry"}
    BY DEF ImportVerdict
  <2>2. QED
    BY <1>1, <1>10, <2>1 DEF ImportSnapshot, HandlerReturns
<1>11. QED
  BY <1>2, <1>3, <1>4, <1>5, <1>6, <1>7, <1>8, <1>9, <1>10
  DEF SyncNext, EngineStep, HandlerStep

(* Every step, stuttering included, keeps the invariant. *)
LEMMA SyncNextInv == SyncInv /\ [SyncNext]_vars => SyncInv'
<1>1. ASSUME SyncInv, SyncNext PROVE SyncInv'
  <2>1. InstalledIsCommitted' /\ expHeight' \in 0..MaxHeight
    BY <1>1, InstalledStep DEF SyncInv, SyncTypeOK
  <2>2. impCurrent' \in [Indices -> 0..MaxHeight]
    BY <2>1, SyncAssumption DEF InstalledIsCommitted, Snapshot
  <2>3. ExportInv' /\ DescInv' /\ VerdictInv' /\ AttemptInv'
    BY <1>1, ExportStep, DescStep, VerdictStep, AttemptStep
  <2>4. desc' \in {Descriptor(h, f) : h \in 0..MaxHeight, f \in PeerFormats \cup {snapshotFormat}}
    BY <2>1, <2>3, SyncAssumption DEF DescInv, DescriptorsTo, Formats
  <2>5. /\ src' \in Seq(Chunk) /\ held' \in Seq(Chunk) /\ Len(held') <= 1
        /\ taken' \in 0..NChunks
    BY <1>1, ExportStep
  <2>6. Len(src') <= NChunks
    BY <2>3, <2>5, LenProperties, SyncAssumption DEF ExportInv
  <2>7. SyncTypeOK'
    BY <1>1, <2>1, <2>2, <2>4, <2>5, <2>6, CollectStep, ControlStep DEF SyncTypeOK
  <2>8. StreamTypes'
    BY <1>1, DescStep, CollectStep DEF StreamTypes
  <2>9. QED
    BY <2>1, <2>3, <2>7, <2>8 DEF SyncInv
<1>2. ASSUME SyncInv, UNCHANGED vars PROVE SyncInv'
  BY <1>2
  DEF vars, exporterVars, exportVars, engineVars, streamVars, handlerVars, SyncInv,
      SyncTypeOK, StreamTypes, InstalledIsCommitted, ExportInv, DescInv, VerdictInv, AttemptInv
<1>3. QED
  BY <1>1, <1>2

-----------------------------------------------------------------------------

(* SyncInv is an invariant of state sync. *)
THEOREM SyncInvariance == SyncSpec => []SyncInv
  BY SyncInitInv, SyncNextInv, PTL DEF SyncSpec

(* The variables of both nodes, the engine and the streams keep their types. *)
THEOREM SyncTypeCorrect == SyncSpec => []SyncTypeOK
<1>1. SyncInv => SyncTypeOK
  BY DEF SyncInv
<1>2. QED
  BY <1>1, SyncInvariance, PTL

(* No broken stream, spoilt chunk or handler of an abandoned attempt makes   *)
(* the importer install what the exporter never committed.                   *)
THEOREM InstalledWhole == SyncSpec => []InstalledIsCommitted
<1>1. SyncInv => InstalledIsCommitted
  BY DEF SyncInv
<1>2. QED
  BY <1>1, SyncInvariance, PTL

(* An acknowledged import is in force, if no older handler was at work. *)
THEOREM AckedInstalled == SyncSpec => []AckedIsInstalled
<1>1. SyncInv => AckedIsInstalled
  BY DEF SyncInv, AttemptInv, AckedIsInstalled
<1>2. QED
  BY <1>1, SyncInvariance, PTL

(* The engine takes the chunks of its descriptor in order, none left out. *)
THEOREM ExportOrdered == SyncSpec => []ExportInOrder
<1>1. SyncInv => ExportInOrder
  BY DEF SyncInv, ExportInv, ExportInOrder
<1>2. QED
  BY <1>1, SyncInvariance, PTL

=============================================================================
