---------------------------- MODULE SnapshotSync ----------------------------
(***************************************************************************)
(* State sync over gRPC: an engine lists the snapshots of one application, *)
(* exports one through grpc.Client.ExportSnapshot and imports it into      *)
(* another application through grpc.Client.ImportSnapshot; both            *)
(* applications are example/dex.  A chunk passes                           *)
(*                                                                         *)
(*    exporter's handler -> export stream -> goroutine of the client ->    *)
(*    unbuffered channel -> engine -> import stream -> goroutine of the    *)
(*    handler -> unbuffered channel -> importer's ImportSnapshot           *)
(*                                                                         *)
(* Streams break, and an error of RecvMsg is handled like the end of the   *)
(* stream on both sides.  The engine is external: it relays chunks between *)
(* two nodes, where they may be lost, doubled or damaged, and it starts    *)
(* over unless the import is acknowledged.  The handler of a broken import *)
(* stream runs on beside the handler of the next attempt.                  *)
(*                                                                         *)
(* The JSON of the state at height h is a sequence of chunks of data h,    *)
(* damaged data is 0, and a hash stands for the sequence it is taken of.   *)
(* An export goroutine left behind by an earlier attempt stays blocked on  *)
(* a channel that nobody reads; it has no effect and is not kept.          *)
(***************************************************************************)
EXTENDS Naturals, Sequences, FiniteSets

CONSTANTS
    MaxHeight,      \* the exporter commits up to this height
    NChunks,        \* chunks of a snapshot
    Handlers,       \* handler goroutines for ImportSnapshot at the importer
    PeerFormats,    \* snapshotFormat of the builds the exporter may run
    snapshotFormat, \* snapshotFormat of the importer's build
    MaxFaults,      \* bound on broken streams and on chunks the relay spoils
    NoHandler       \* no handler serves the engine

ASSUME SyncAssumption ==
    /\ MaxHeight \in Nat \ {0}
    /\ NChunks \in Nat \ {0}
    /\ MaxFaults \in Nat
    /\ NoHandler \notin Handlers

VARIABLES
    expFormat, expHeight,   \* exporter: snapshotFormat, App.current
    impCurrent,             \* importer: App.current, as the snapshot of it
    ePc,                    \* engine: "list", "export", "open", "send", "wait", "done"
    desc,                   \* engine: the SnapshotDescriptor it works with
    src,                    \* chunks on the export stream
    held,                   \* chunk that the client's goroutine offers on ch, if any
    chClosed,               \* ch is closed
    taken,                  \* chunks taken from ch
    serving,                \* handler of the engine's import stream
    clean,                  \* no other handler ran when that stream was opened
    conn,                   \* per handler, its stream: "open", "half", "broken"
    sent,                   \* messages on that stream
    hPc,                    \* handler: "idle", "first", "collect"
    hDesc,                  \* descriptor it was sent
    offered,                \* chunk that its goroutine offers on chunks, if any
    chunksClosed,           \* chunks is closed
    received,               \* the chunks it collected: data by index
    verdict,                \* its ImportResult: "none", "ok", "reject", "retry", "err"
    faults

exporterVars == <<expFormat, expHeight>>
exportVars == <<src, held, chClosed, taken>>
engineVars == <<ePc, desc, serving, clean>>
streamVars == <<conn, sent>>
handlerVars == <<hPc, hDesc, offered, chunksClosed, received, verdict>>
vars == <<exporterVars, impCurrent, exportVars, engineVars, streamVars, handlerVars, faults>>

Indices == 0..NChunks - 1
Chunk == [index : Indices, data : 0..MaxHeight]

(* The serialised state at a height, also its hash and its chunks. *)
Snapshot(h) == [i \in Indices |-> h]
Genesis == Snapshot(0)

Descriptor(h, f) == [height |-> h, format |-> f, chunks |-> NChunks, hash |-> Snapshot(h)]
NoDescriptor == Descriptor(0, snapshotFormat)

ChunksOf(h) == [i \in 1..NChunks |-> [index |-> i - 1, data |-> h]]

SyncInit ==
    /\ expFormat \in PeerFormats
    /\ expHeight = 0
    /\ impCurrent = Genesis
    /\ ePc = "list" /\ desc = NoDescriptor
    /\ serving = NoHandler /\ clean = TRUE
    /\ src = <<>> /\ held = <<>> /\ chClosed = FALSE /\ taken = 0
    /\ conn = [h \in Handlers |-> "broken"]
    /\ sent = [h \in Handlers |-> <<>>]
    /\ hPc = [h \in Handlers |-> "idle"]
    /\ hDesc = [h \in Handlers |-> NoDescriptor]
    /\ offered = [h \in Handlers |-> <<>>]
    /\ chunksClosed = [h \in Handlers |-> FALSE]
    /\ received = [h \in Handlers |-> <<>>]
    /\ verdict = [h \in Handlers |-> "none"]
    /\ faults = 0

Fault == faults < MaxFaults /\ faults' = faults + 1

-----------------------------------------------------------------------------
(* The exporter. *)

(* Commit of a block at the exporter, whatever is being exported. *)
ExporterCommits ==
    /\ expHeight < MaxHeight
    /\ expHeight' = expHeight + 1
    /\ UNCHANGED <<expFormat, impCurrent, exportVars, engineVars, streamVars, handlerVars, faults>>

(* The current state is the only snapshot, and genesis is none. *)
AvailableSnapshots ==
    /\ ePc = "list"
    /\ expHeight > 0
    /\ desc' = Descriptor(expHeight, expFormat)
    /\ ePc' = "export"
    /\ UNCHANGED <<exporterVars, impCurrent, exportVars, serving, clean, streamVars, handlerVars, faults>>

(* A mutated form: the height asked for is not compared with the current one. *)
ExportAnyHeight ==
    /\ ePc = "export"
    /\ src' = ChunksOf(expHeight) /\ held' = <<>> /\ chClosed' = FALSE /\ taken' = 0
    /\ ePc' = "open"
    /\ UNCHANGED <<exporterVars, impCurrent, desc, serving, clean, streamVars, handlerVars, faults>>

(* The chunks are cut from a copy, taken while the exporter's lock is held.  *)
(* A refusal ends the stream with an error that only the client's goroutine  *)
(* sees: the caller gets a channel all the same.                             *)
ExportSnapshot ==
    /\ ePc = "export"
    /\ src' = IF desc.format = expFormat /\ desc.height = expHeight
               THEN ChunksOf(expHeight) ELSE <<>>
    /\ held' = <<>> /\ chClosed' = FALSE /\ taken' = 0
    /\ ePc' = "open"
    /\ UNCHANGED <<exporterVars, impCurrent, desc, serving, clean, streamVars, handlerVars, faults>>

(* The client's goroutine: RecvMsg, then wait for a reader of ch. *)
ExportRecv ==
    /\ ePc \in {"open", "send"} /\ src # <<>> /\ held = <<>>
    /\ held' = <<Head(src)>> /\ src' = Tail(src)
    /\ UNCHANGED <<exporterVars, impCurrent, chClosed, taken, engineVars, streamVars, handlerVars, faults>>

(* The end of the stream and an error both close ch. *)
ExportEnd ==
    /\ ePc \in {"open", "send"} /\ src = <<>> /\ held = <<>> /\ ~chClosed
    /\ chClosed' = TRUE
    /\ UNCHANGED <<exporterVars, impCurrent, src, held, taken, engineVars, streamVars, handlerVars, faults>>

(* The export stream breaks: what has not been received is lost. *)
ExportBreaks ==
    /\ Fault
    /\ ePc \in {"open", "send"} /\ src # <<>>
    /\ src' = <<>>
    /\ UNCHANGED <<exporterVars, impCurrent, held, chClosed, taken, engineVars, streamVars, handlerVars>>

-----------------------------------------------------------------------------
(* The client of the importer: ImportSnapshot. *)

(* A new stream, the descriptor first. *)
ImportOpen(h) ==
    /\ ePc = "open"
    /\ hPc[h] = "idle"
    /\ serving' = h
    /\ clean' = (\A k \in Handlers : hPc[k] = "idle")
    /\ conn' = [conn EXCEPT ![h] = "open"]
    /\ sent' = [sent EXCEPT ![h] = <<desc>>]
    /\ hPc' = [hPc EXCEPT ![h] = "first"]
    /\ offered' = [offered EXCEPT ![h] = <<>>]
    /\ verdict' = [verdict EXCEPT ![h] = "none"]
    /\ ePc' = "send"
    /\ UNCHANGED <<exporterVars, impCurrent, exportVars, desc, hDesc, chunksClosed, received, faults>>

(* The engine gives up this attempt, or is done with a verdict "ok". *)
Returns(r) ==
    /\ ePc' = IF r = "ok" THEN "done" ELSE "list"
    /\ serving' = NoHandler
    /\ UNCHANGED <<desc, clean>>

(* What becomes of a chunk between the two nodes. *)
Relayed(c) ==
    \/ sent' = [sent EXCEPT ![serving] = Append(@, c)] /\ UNCHANGED faults
    \/ /\ Fault
       /\ \/ UNCHANGED sent
          \/ sent' = [sent EXCEPT ![serving] = @ \o <<c, c>>]
          \/ sent' = [sent EXCEPT ![serving] = Append(@, [c EXCEPT !.data = 0])]

(* A chunk from ch to SendMsg, which fails on a broken stream; once the      *)
(* handler has returned it fails or goes nowhere.                            *)
ImportSend ==
    /\ ePc = "send" /\ held # <<>>
    /\ held' = <<>> /\ taken' = taken + 1
    /\ \/ /\ conn[serving] = "open" /\ verdict[serving] = "none"
          /\ Relayed(held[1])
          /\ UNCHANGED engineVars
       \/ /\ conn[serving] = "open" /\ verdict[serving] # "none"
          /\ UNCHANGED <<engineVars, sent, faults>>
       \/ /\ conn[serving] = "broken" \/ verdict[serving] # "none"
          /\ Returns("err")
          /\ UNCHANGED <<sent, faults>>
    /\ UNCHANGED <<exporterVars, impCurrent, src, chClosed, conn, handlerVars>>

(* A mutated form: the stream is not half-closed. *)
ImportNoCloseSend ==
    /\ ePc = "send" /\ chClosed
    /\ ePc' = "wait"
    /\ UNCHANGED <<exporterVars, impCurrent, exportVars, desc, serving, clean, streamVars, handlerVars, faults>>

(* ch is closed: CloseSend, then wait for the result. *)
ImportCloseSend ==
    /\ ePc = "send" /\ chClosed
    /\ ePc' = "wait"
    /\ conn' = [conn EXCEPT ![serving] = IF @ = "open" THEN "half" ELSE @]
    /\ UNCHANGED <<exporterVars, impCurrent, exportVars, desc, serving, clean, sent, handlerVars, faults>>

ImportReturns ==
    /\ ePc = "wait"
    /\ IF conn[serving] = "broken" THEN Returns("err")
       ELSE verdict[serving] # "none" /\ Returns(verdict[serving])
    /\ UNCHANGED <<exporterVars, impCurrent, exportVars, streamVars, handlerVars, faults>>

(* The import stream breaks: some suffix of what was sent is lost. *)
ImportBreaks ==
    /\ Fault
    /\ serving # NoHandler /\ conn[serving] # "broken"
    /\ conn' = [conn EXCEPT ![serving] = "broken"]
    /\ \E n \in 0..Len(sent[serving]) : sent' = [sent EXCEPT ![serving] = SubSeq(@, 1, n)]
    /\ UNCHANGED <<exporterVars, impCurrent, exportVars, engineVars, handlerVars>>

-----------------------------------------------------------------------------
(* The importer's handler. *)

Ended(h) == sent[h] = <<>> /\ conn[h] # "open"

(* The handler's locals go; its reading goroutine may keep a chunk. *)
HandlerReturns(h, v) ==
    /\ hPc' = [hPc EXCEPT ![h] = "idle"]
    /\ verdict' = [verdict EXCEPT ![h] = v]
    /\ hDesc' = [hDesc EXCEPT ![h] = NoDescriptor]
    /\ chunksClosed' = [chunksClosed EXCEPT ![h] = FALSE]
    /\ received' = [received EXCEPT ![h] = <<>>]

(* The first message; the application refuses a format it does not know. *)
HandlerFirst(h) ==
    /\ hPc[h] = "first"
    /\ \/ Ended(h) /\ HandlerReturns(h, "err") /\ UNCHANGED sent
       \/ /\ sent[h] # <<>>
          /\ sent' = [sent EXCEPT ![h] = Tail(@)]
          /\ \/ /\ Head(sent[h]).format # snapshotFormat
                /\ HandlerReturns(h, "reject")
             \/ /\ Head(sent[h]).format = snapshotFormat
                /\ hPc' = [hPc EXCEPT ![h] = "collect"]
                /\ hDesc' = [hDesc EXCEPT ![h] = Head(sent[h])]
                /\ UNCHANGED <<chunksClosed, received, verdict>>
    /\ UNCHANGED <<exporterVars, impCurrent, exportVars, engineVars, conn, offered, faults>>

(* The reading goroutine: RecvMsg, then wait for a reader of chunks; it goes *)
(* on after an early verdict and then offers its chunk for ever.             *)
HandlerRecv(h) ==
    /\ hPc[h] = "collect" \/ verdict[h] = "reject"
    /\ sent[h] # <<>> /\ offered[h] = <<>>
    /\ offered' = [offered EXCEPT ![h] = <<Head(sent[h])>>]
    /\ sent' = [sent EXCEPT ![h] = Tail(@)]
    /\ UNCHANGED <<exporterVars, impCurrent, exportVars, engineVars, conn, hPc, hDesc, chunksClosed, received, verdict, faults>>

(* The end of the stream and an error both close chunks. *)
HandlerEnd(h) ==
    /\ hPc[h] = "collect" /\ Ended(h) /\ offered[h] = <<>> /\ ~chunksClosed[h]
    /\ chunksClosed' = [chunksClosed EXCEPT ![h] = TRUE]
    /\ UNCHANGED <<exporterVars, impCurrent, exportVars, engineVars, streamVars, hPc, hDesc, offered, received, verdict, faults>>

(* received[chunk.Index] = chunk.Data *)
Collect(h) ==
    /\ hPc[h] = "collect" /\ offered[h] # <<>>
    /\ LET c == offered[h][1] IN
        received' = [received EXCEPT ![h] =
            [i \in DOMAIN @ \cup {c.index} |-> IF i = c.index THEN c.data ELSE @[i]]]
    /\ offered' = [offered EXCEPT ![h] = <<>>]
    /\ UNCHANGED <<exporterVars, impCurrent, exportVars, engineVars, streamVars, hPc, hDesc, chunksClosed, verdict, faults>>

(* A mutated form: the count is checked, the hash is not. *)
ImportUnverified(d, got) ==
    IF Cardinality(DOMAIN got) # d.chunks THEN "retry" ELSE "ok"

(* A mutated form: the chunks that came are compared, missing ones are not missed. *)
ImportAcceptsPrefix(d, got) ==
    IF \A i \in DOMAIN got : got[i] = d.hash[i] THEN "ok" ELSE "reject"

(* A mutated form: the count is off by one. *)
ImportMiscounts(d, got) ==
    IF Cardinality(DOMAIN got) # d.chunks + 1 THEN "retry"
    ELSE IF got # d.hash THEN "reject" ELSE "ok"

(* Count first, hash second; JSON with the right hash can be read. *)
ImportVerdict(d, got) ==
    IF Cardinality(DOMAIN got) # d.chunks THEN "retry"
    ELSE IF got # d.hash THEN "reject" ELSE "ok"

(* All chunks are in: verify, install, answer. *)
ImportSnapshot(h) ==
    /\ hPc[h] = "collect" /\ chunksClosed[h]
    /\ LET v == ImportVerdict(hDesc[h], received[h]) IN
        /\ HandlerReturns(h, v)
        /\ impCurrent' = IF v = "ok" THEN received[h] ELSE impCurrent
    /\ UNCHANGED <<exporterVars, exportVars, engineVars, streamVars, offered, faults>>

-----------------------------------------------------------------------------

EngineStep ==
    \/ AvailableSnapshots \/ ExportSnapshot
    \/ \E h \in Handlers : ImportOpen(h)
    \/ ImportSend \/ ImportCloseSend \/ ImportReturns

HandlerStep(h) ==
    HandlerFirst(h) \/ HandlerRecv(h) \/ HandlerEnd(h) \/ Collect(h) \/ ImportSnapshot(h)

SyncNext ==
    \/ ExporterCommits
    \/ EngineStep
    \/ ExportRecv \/ ExportEnd \/ ExportBreaks \/ ImportBreaks
    \/ \E h \in Handlers : HandlerStep(h)

SyncSpec == SyncInit /\ [][SyncNext]_vars

(* Goroutines run, and what is on a stream that does not break arrives. *)
SyncFairSpec ==
    /\ SyncSpec
    /\ WF_vars(EngineStep)
    /\ WF_vars(ExportRecv \/ ExportEnd)
    /\ \A h \in Handlers : WF_vars(HandlerStep(h))

-----------------------------------------------------------------------------
(* Properties. *)

SyncTypeOK ==
    /\ expFormat \in PeerFormats
    /\ expHeight \in 0..MaxHeight
    /\ impCurrent \in [Indices -> 0..MaxHeight]
    /\ ePc \in {"list", "export", "open", "send", "wait", "done"}
    /\ desc \in {Descriptor(h, f) : h \in 0..MaxHeight, f \in PeerFormats \cup {snapshotFormat}}
    /\ src \in Seq(Chunk) /\ Len(src) <= NChunks
    /\ held \in Seq(Chunk) /\ Len(held) <= 1
    /\ chClosed \in BOOLEAN /\ clean \in BOOLEAN
    /\ taken \in 0..NChunks
    /\ serving \in Handlers \cup {NoHandler}
    /\ conn \in [Handlers -> {"open", "half", "broken"}]
    /\ hPc \in [Handlers -> {"idle", "first", "collect"}]
    /\ \A h \in Handlers : Len(offered[h]) <= 1 /\ DOMAIN received[h] \subseteq Indices
    /\ chunksClosed \in [Handlers -> BOOLEAN]
    /\ verdict \in [Handlers -> {"none", "ok", "reject", "retry", "err"}]
    /\ faults \in 0..MaxFaults

(* Whatever stream breaks, whatever the relay loses, doubles or damages, and *)
(* however many handlers of given up attempts run on: the importer's state   *)
(* is its own or one that the exporter committed, whole (dex ImportSnapshot). *)
InstalledIsCommitted ==
    \E h \in 0..expHeight : impCurrent = Snapshot(h)

(* An import that the client reports as ok is in force, with the state of    *)
(* the descriptor that the engine chose, provided no handler of an earlier   *)
(* attempt was still at work (client.go and server.go, ImportSnapshot).      *)
AckedIsInstalled ==
    ePc = "done" /\ clean => impCurrent = desc.hash

(* The export stream hands over the state of the descriptor in order and     *)
(* from the first chunk, though the exporter commits blocks meanwhile.       *)
ExportInOrder ==
    ePc = "send" /\ held # <<>> => held[1] = [index |-> taken, data |-> desc.height]

(* Once faults and commits cease, the engine gets a snapshot installed if    *)
(* the two builds share a format: no goroutine of the pipeline waits for     *)
(* another for ever.                                                         *)
SyncCompletes ==
    expHeight > 0 /\ expFormat = snapshotFormat ~> ePc = "done"

(* With no common format too, every attempt ends in a verdict or an error:   *)
(* the early verdict leaves nobody but a reading goroutine behind.           *)
AttemptEnds == ePc = "open" ~> ePc \in {"list", "done"}

=============================================================================
