# TLA+ models of the libbeat publisher queues and string helpers

This directory holds TLA+ models of parts of this repository (`src/`) and
the TLC configurations that check them. Each module models one component.
Each `.cfg` asks TLC one question about that component. `PROJECT.json`
records the components, the runs, the mutants that show each property can
fail, the source lines every definition translates (`map`), the findings,
and the hazards.

## 1. The system and its parts

The code in `src/` is a slice of libbeat (spec.md §2):

| Part | Source | State and operations |
|---|---|---|
| memqueue producers | `publisher/queue/memqueue/internal_api.go` 24-231 | Each producer handle has `producedCount`, `openState.events` (set to nil on failure), and a `done` channel. The operations are `Publish`, `TryPublish` and `Close`. They communicate with the broker through the buffered `pushChan`, each request's own `resp` channel, and the queue's `closingChan`. |
| memqueue broker | not in `src/`; spec §4.1 | Ring of `Events` entries with read (`consumed`) and `acked` cursors. It answers get requests, holding one under a flush timer. On each batch `Done` it advances `acked` over the done prefix and calls each ack producer's callback once with the delta. Close and shutdown also live here. |
| queuetest harness | `publisher/queue/diskqueue/queue.go` 296-602 (package `queuetest`) | `makeProducer` publishes `maxEvents` events and waits for their ACKs. Each `multiConsumer` worker loops over `Get`, counting and `Done` until `Get` fails. `runTestCases` closes the queue at the end. |
| diskqueue startup / close | `queue.go` 107-257 | `NewQueue` does five things: (1) loads `state.dat`; (2) scans the segments; (3) picks `nextSegmentID`; (4) moves the segments older than the position to the acked list and advances the position to the first segment; (5) starts reading at the position's byte offset. `Close` closes `dq.close`. |
| diskqueue loops | not in `src/`; spec §4.2 | Writer (segment roll-over), reader, core (ACK position written to `state.dat` best-effort), deleter. |
| sys strings | `sys/strings.go` 27-70 | `BinaryToString`, `RemoveWindowsLineEndings` and `UTF16BytesToString`: pure functions. |
| wineventlog | `sys/strings.go` 71-655 | Wrappers of Windows event-log API calls. The interesting parts are `offset`/`readString` (pointer arithmetic in unsigned words), the enumeration loops that grow their buffer and retry, and the handles the wrappers create, which the caller must `Close`. |
| pipeline loading | `publisher/pipeline/module.go` 33-163 | `Load`/`LoadWithSettings` build the output group with `loadOutput`, then the pipeline. `loadOutput` reuses (after `Clear`) or creates the `output` registries under the Metrics and Telemetry monitoring registries, which outlive the call. |
| other | `cmd/instance`, processor configs, `ecs`, dashboards importer, actions, lifecycle noop, `stress_pipeline` | Configuration and I/O plumbing with no concurrent or persisted state. |

How the parts interact:
- Producers reach the broker only through channels.
- Output workers (in the harness, `multiConsumer`) reach it through `Get` and `batch.Done`.
- The ACK callback runs on the broker.
- A producer learns an event's fate only from the result of the call and from the ACK counts (spec §7).
- The disk queue keeps its durable state in segment files and `state.dat`, which survive a crash.

## 2. Modules

### `MemQueue.tla`: producers, broker, output workers

- **Variables.**
  - Producer side, per producer `p`:
    - `pc[p]`: where the call is. `"send"` is the outer select; `"resp"` is the inner select.
    - `mode[p]`: publish or try.
    - `req[p]`: the `pushRequest`, with its `producer`, `producerID`, and its resp channel named by (owner, call).
    - `producedCount`, `eventsNil` (`st.events = nil`), `doneClosed` (`close(st.done)`).
    - `resp[p]`: the resp channel's content.
  - Broker side:
    - `pushChan`, the ring (`entries`, `consumed`, `acked`), the done-but-unacked ids, `pendingGet` (flush timer).
    - `closing` and `done`, `lastACK`, and `ackCount` (the sum of callback counts).
  - Consumer side: `cpc`, `want`, `batch`, and `ackChan`, which carries the Done messages.
- **Actions.** Every case of the two selects of `openState.publish` / `tryPublish` is an action: `SendRequest`, `CancelledBeforeSend`, `ClosingBeforeSend`, `DropEvent` (`default`), `ReceiveResp`, `ClosingAfterSend`.
  - Go's select chooses at random among ready cases. The model expresses this with actions whose guards overlap.
  - `Return` is the tail of `ackProducer.Publish`: `producedCount++` only on success.
  - Broker actions follow spec §4.1. Consumer actions follow the worker loop at `queue.go` 576-590.
- **Fairness.** Weak fairness on each running goroutine: a producer inside a call, the broker loop, and each worker. Every worker runs the same loop, so the liveness run uses one worker. Starting a call, closing a producer and closing the queue are the caller's choice and are not fair. `OutputDownSpec` drops the workers' fairness: an output can be down for ever, and the queue must not rely on it.

### `DiskQueue.tla`: the disk queue across crashes

- **Files:** `disk` (segment id → its events, one frame per event) and `stateFile` (segmentID, frameIndex).
- **Memory:** `nextID`, the writing segment, the reading list, `readOffset` (`nextReadPosition`), the in-flight frames, and `pos`.
- **`Start` is `NewQueue`**, line by line: `LoadOutcomes` (the position in `state.dat`, or, when reading it fails, a logged warning and the zero position, i.e. the oldest segment), `NextSegmentID`, `AckedAtStart`, `StartPosition`, and a read offset equal to the position's frame index.
- **`Crash`** is `Close` plus process exit, or a kill at any step. Only the files survive.
- **The loops** `Write`, `Read`, `FinishSegment`, `Ack` and `Delete` follow spec §4.2.
  - `Ack` writes `state.dat` best-effort: it is a disjunct that may leave the file unchanged.
  - A frame stands for its bytes. The `byteIndex` reset at `queue.go` 142-150 therefore only moves from the header to frame 0, and is not visible.
- **History variables** record events acknowledged (in any run, in this run, and with the ack persisted), and whether some start fell back because `state.dat` could not be read (`fellBack`).

### `SysStrings.tla`: pure algorithms

- **Operators.**
  - `BinaryToString` uses `shiftR`/`&` from `Bitwise`, the same as `v>>4`, `v&0x0f`.
  - `RemoveWindowsLineEndings` is a one-pass `strings.Replace` followed by `TrimRight`.
  - `Offset` and `ReadString` use pointers of `PtrWidth` bits, so subtraction wraps modulo `2^PtrWidth`.
- **Input.** The single variable `case` is chosen in `Init` from every input within the bounds, and never changes.
- **Properties.** Each one compares the operator with a reference definition:
  - for `BinaryToString`, the base-16 value of the hex text;
  - for `RemoveWindowsLineEndings`, the input with every CR that precedes an LF deleted, less a run of trailing LFs (built from positions, not by a scan);
  - for `offset`, "the pointer lies in `buffer[0:len]`".

### `QueueTest.tla`: the queuetest harness against the memory queue

- **Composition.** `QueueTest` EXTENDS `MemQueue` and adds the harness's `events` WaitGroup (`eventsWG`). A waitACK producer's `ackWG` is `MaxCalls - ackCount[p]`, because its ACK callback calls `Done` once per acknowledged event.
- **Actions.**
  - `PublishNext` is one turn of `makeProducer`'s publish loop.
  - `CountBatch` is a worker's `events.Done` per event followed by `batch.Done`.
  - `CloseQueue` is `wg.Wait()` followed by the deferred `queue.Close()`.
  - The remaining actions are `MemQueue`'s own.
- **Fairness.** Weak fairness on every goroutine the test starts, the test goroutine included.

### `WinEvtBuffers.tla`: retry with a bigger buffer (Windows event log)

- **The oracle.** The Windows API answers each call nondeterministically within its documented behaviour:
  - success, when the buffer holds what is needed;
  - otherwise `ERROR_INSUFFICIENT_BUFFER` with the size needed, or success with the result truncated to the buffer (the code's comments describe this for `EvtFormatMessage` and `EvtRender`);
  - any other error, at any call.
  Names and messages are abstracted to their lengths, NUL included.
- **Actions.**
  - `ChannelsStep` is one `EvtNextChannelPath` call of `Channels`: doubling, or taking `used` when that is larger.
  - `PublishersStep` is one call of `Publishers`: the buffer becomes `bufferUsed`, and the names are sorted at the end.
  - `ProviderName`, `FormatFirst`/`FormatSecond`, `StartXml` and `XmlFirst`/`XmlSecond` are `RenderEvent` in order: `evtRenderProviderName`, the two calls of `FormatEventString`, and on its error the fallback `renderXML`.
  - Units are modelled as the code converts them. `EvtFormatMessage` counts WCHARs: the first call is told `len(renderBuf)/2` (line 483), a fitting result is `renderBuf[:used*2]` bytes (493), and the pool buffer is reserved for `used*2` bytes (501). `EvtRender` counts bytes. `callBuf` records, for the last call, the size it was told and the units its buffer really holds.
  - A successful second call hands over `bb.Bytes()`, the whole reserved buffer, whatever the second `bufferUsed` is.
  - The render caller starts at one of `EntryPoints`: `RenderEvent`; `Message`, which is `ProviderName` followed by `MessageString` (the publisher handle, then `getMessageStringFromHandle`, not in this repository, which returns the message or an error); or `RenderEventXML`/`RenderBookmarkXML`, which begin at `StartXml` (they differ only in the render flag).
- **Event log handles.** The wrappers that create handles are a fourth caller, beside the other three. Its state is `osHandles` (handles open in the OS), `held` (handles the caller got back and has not closed) and `hLast` (the result of the last call).
  - One action per wrapper: `EvtOpenLog`, `EvtQuery`, `Subscribe`, `CreateBookmarkFromText` (from a record id or from XML), `CreateRenderContext`, `OpenPublisherMetadata`. Each converts its strings and makes one creating call, so each returns either an error and no handle, or one handle.
  - `CreateBookmarkFromEvent` makes two calls; when the second fails, the bookmark the first created is neither returned nor closed.
  - `EventHandles` errors without a call when `maxHandles < 1`. Otherwise it returns the `numRead` handles `_EvtNext` read, or none on an error.
  - `Close` releases a handle the caller holds.
  - These calls are the caller's choice, so they get no fairness.
- **Fairness.** `RenderEvent` runs to completion. For the enumeration loops, weak fairness is only on the steps that do not fail: an API that fails for ever ends the loop with an error anyway.

### `QueueSpec.tla`: what the memory queue promises, and the refinement

- **The abstract queue** (spec §4.1, §8) has:
  - a `log` of accepted items;
  - a FIFO `delivered` cursor, and an `ackd` cursor that never passes it;
  - a capacity bound;
  - per ack producer, the total its callback was told, which is exactly its items in the acknowledged prefix;
  - `closed`, after which nothing is accepted, and `down`, which comes only after everything was acknowledged.
- **Fairness.** Weak fairness on `Deliver` and `Acknowledge`: outputs keep consuming.
- **Atomic steps.** The broker inserts an entry and answers a held get in one step, and does the same on `Close`. `Accept` and `Close` may therefore also deliver.
- **The refinement.** `MemQueue` defines `QS == INSTANCE QueueSpec WITH ...`:
  - the ring `entries` is the log;
  - `consumed` and `acked` are the two cursors;
  - `ackCount` of the ack producers is the notification;
  - `closing` and `done` are `closed` and `down`.
  The property `ImplementsQueueSpec == QS!QSpec` is checked in the `memqueue_liveness` run, liveness included.

### `PipelineLoad.tla`: loading the pipeline, again and again

- **State.** The state that outlives one `Load` is the `output` child registry of the Metrics and Telemetry monitoring registries. Each is modelled as a map from variable name to value. Whether a registry publishes expvar, in which case its `Clear` fails, is fixed at `Init`.
- **One action.** `Load` is one step: the code is sequential on the caller's goroutine. Its inputs, chosen per call, are:
  - which monitors are given;
  - makeOutput's answer: an output, an error, or a nil factory;
  - whether `pipeline.New` fails.
  The step follows every early return of `loadOutput` and `LoadWithSettings`.
- **Assumed library semantics.** The monitoring library is not in this repository. The model assumes: registering an existing name panics; `Clear` empties a registry; `Clear` fails for an expvar registry.

## 3. Runs

| Run | cfg | Bounds | Shows |
|---|---|---|---|
| memqueue_safety | `MCMemQueue.cfg` | 2 producers (1 with ACK), 2 workers (symmetric), ring of 2, pushChan 1, 2 calls each, batch sizes {1,2}, flush timer on | `CursorOrder`, `AckAccounting`, `NoDuplicateDelivery` and `ProducerIDsInOrder` (each ACK producer's entries carry ids 1, 2, 3, ... in ring order, and its counter is at most one behind an accepted push) hold under every interleaving. |
| memqueue_liveness | `MCMemQueueLive.cfg` | 2 producers (1 with ACK), 1 worker, ring of 1, pushChan 1, 2 calls each, batch sizes {1,2}, flush timer on | Every call returns, including a `Publish` that waits for a full ring and a call made after `events` was set to nil. `MemQueue` refines `QueueSpec` (safety and liveness, the capacity bound reached). |
| memqueue_ack_race | `MCMemQueueAckRace.cfg` | ring of 2, 1 call | **Violation.** A call returns failure, yet its event is acked: the callback total exceeds the successful calls (spec §8). |
| memqueue_cancel | `MCMemQueueCancel.cfg` | ring of 1, outputs down | **Violation.** `Close` does not unblock a `Publish` whose request is already in `pushChan` (spec §5). |
| diskqueue_restart | `MCDiskQueue.cfg` | 5 events, 2 frames per segment, 4 starts, `state.dat` readable or not at each start | Two properties hold. First, no persisted ack is redelivered unless some start could not read `state.dat`: a run after such a fallback may replay, because the positions persisted then lie behind. Second, each run delivers events in order. |
| diskqueue_loss | `MCDiskQueueLoss.cfg` | 3 events, 1 frame per segment, 3 starts | **Violation.** An unacknowledged event is deleted unread after a restart that finds no segment. |
| queuetest_terminates | `MCQueueTest.cfg` | 2 producers (1 waiting for ACKs), 2 workers, 3 calls each, ring of 2, batches of 1, 6 events expected | No WaitGroup goes negative, and every test case ends with the queue closed. |
| pipeline_reload | `MCPipelineLoad.cfg` | 4 Loads, 2 output names, every combination of monitors, failures and expvar registries | No Load registers a monitoring variable twice, whatever the earlier Loads left behind. |
| winevt_buffers | `MCWinEvtBuffers.cfg` | names of lengths 5, 1, 12, 2 with initial buffers of 2; renderBuf of 1, 4, 5 or 8 bytes; messages of 1-3 WCHARs; XML of 2, 5 or 9 bytes; up to 2 handles open, `EventHandles` asked for up to 2 | Each enumeration grows its buffer at most once per name and ends. No render call is told of more room than its buffer has. `RenderEvent`, `RenderEventXML` and `RenderBookmarkXML` hand the decoder the whole rendering, in bytes, whatever the handle wrappers do meanwhile. |
| winevt_handle_leak | `MCWinEvtBuffersLeak.cfg` | as `winevt_empty_buffer` | **Violation.** `CreateBookmarkFromEvent` leaves open a bookmark handle the caller never gets. |
| winevt_empty_buffer | `MCWinEvtBuffersPanic.cfg` | renderBuf of 0 or 4 bytes | **Violation.** `RenderEvent` and `Message` panic on an empty `renderBuf`. |
| strings_algorithms | `MCSysStrings.cfg` | bytes from {0,9,10,15,16,127,171,255} up to length 2; CR/LF/text strings up to length 5; 4-bit pointers, buffers up to 3 | The three operators agree with their references on all 1,109 inputs. |

Why these bounds are enough:
- **Ring of 2 with two producers.** It makes the ring fill, the flush timer fire (a get for 2 with 1 entry), and two batches complete out of order (two workers).
- **Ring of 1 in the liveness run.** The ring is full after one insert, so a second call waits on the output. Two calls per producer let a call follow one that failed and set `events` to nil. With two workers the run was still growing after seven minutes.
- **Three or four starts.** The disk-queue bug needs three starts: write and ack; delete everything; write again. The restart run uses four, so that a fallback start can be followed by runs that persist positions and restart again.
- **Two handles.** Two handles let a leaked handle sit beside a held one that the caller closes, and let `EventHandles` return more than one handle.
- **Buffer sizes in `WinEvtBuffers`.** The names 5 and 12 are each more than twice the buffer they meet (2, then 5), so `Channels` takes its `used > newLen` branch twice; 1 and 2 then fit. The render buffers give a nil WCHAR buffer (1 byte), and results that fit, do not fit, and need the pool buffer.
- **`CHECK_DEADLOCK FALSE` everywhere.** The models bound calls, events and starts, so every behaviour ends in a final state. The string run has no steps at all.

## 4. Findings

1. **Publish can report failure for an event that is later acked.** Site: `internal_api.go` 189-195. The inner select can take `queueClosing` after the broker has answered. The producer's ACK callback then counts more events than `Publish` reported as published.
2. **Producer `Close` does not cancel a `Publish` already past the send.** Site: `internal_api.go` 184-195. With the ring full and the outputs down, the call stays blocked until the queue itself closes.
3. **The disk queue loses events after a restart with no segment files.** Site: `queue.go` 169-174 and 223.
   - Cause: `nextSegmentID` restarts at 0, but the persisted position (segment n, frame k) and its byte offset are kept.
   - Effect on the new segment 0: it is read from offset k, so its first k events are skipped and deleted.
   - Effect on `state.dat`: the position written afterwards moves backwards.
   - On a later restart, every new segment below n counts as already acked.
   - The spec promises at-least-once delivery; the run `diskqueue_loss` shows the loss. It also says segment ids are never reused, which the same restart breaks: the first new segment is id 0 again (visible in the trace).
   - The spec also says the position never decreases; the same restart breaks that too. A run of its own once showed it, with four starts. It has been folded into this finding, because it has the same cause.
4. **`CreateBookmarkFromEvent` leaks a handle** (`strings.go` 375-384).
   - When `_EvtUpdateBookmark` fails, it returns `(0, err)` without closing the bookmark `_EvtCreateBookmark` just created.
   - The caller only got 0, so it cannot close that handle.
   - Every other wrapper that creates a handle either returns it or creates none.
   - Run `winevt_handle_leak` finds this in two steps.
5. **`RenderEvent` and `Message` panic on an empty `renderBuf`** (`strings.go` 610). `evtRenderProviderName` takes `&renderBuf[0]`. `FormatEventString` documents that the buffer may be "not provided", and both it and `renderXML` handle an empty buffer, but that handling is never reached.

## 5. Not modelled, and the plan

Defects seen while reading the code are left to unit tests and have no run. A one-line test reaches each of them, with no interleaving or state history, so a model checker adds nothing:
- `RemoveWindowsLineEndings` (`strings.go` 44) makes one `strings.Replace` pass, as `LineEndingsNormalised` states. So `"\r\r\n"` becomes `"\r\n"`, and a CRLF is left, although the function's comment says CRLF is replaced with LF.
- docker `Config.Validate` (`api/server_windows_test.go` 124-125) panics on an empty prefix. For a trailing dot, it cuts two bytes, so the character before the dot is removed too.
- `makeTestQueue` (`pipeline/pipeline_test.go` 184-230) deadlocks itself. Its `close` holds `mux` while calling each producer's `Close`, whose `cancel` locks `mux` again. Its producers' `cancel` never releases the inner `blockingProducer`, so a `Publish` blocked there never returns. No test in the file calls `makeTestQueue`.
- `TestPipelineAcceptsAnyNumberOfClients` closes `clients[:n]`, which is every client, then closes `clients[nn:]` a second time. That is harmless only if `Client.Close` is idempotent; the client is not in this repository.

Not modelled:
- Byte sizes: `MaxBufferSize` blocking in the disk queue and the memqueue byte limits.
- Frame encoding and checksums.
- The Windows wrappers with no state of their own: `EvtSeek`, `IsAvailable`, and the provider-name render context of `init`. A failed `init` only makes `evtRenderProviderName` fail, an outcome `ProviderName` already has.
- The provider's `messageFiles.Handles[0]` (`strings.go` 306, 335) panics if a provider reports no error and no handle. `pubHandleProvider` is not in this repository, and the code's comment says the API always gives one handle.
- A message that grows between the two `EvtFormatMessage` calls of `FormatEventString` (`strings.go` 504). The second call's `bufferUsed` is not checked, so a truncated success would be written. The Windows documentation gives no way for one event handle's message to change between calls, so the model keeps it fixed.
- The pipeline controller and output worker group of spec §4.3-4.4: not in this repository.

- Which pipeline the output registries should describe after a failed reload: that depends on callers outside this repository.

Nothing more is planned. Byte sizes stay out of the models. The code that enforces them is the memqueue broker's byte limit, the disk queue's `MaxBufferSize`, and the frame encoding. None of it is in this repository, so a model would have to invent the sizes rather than translate them. The `frameIndex == 0` reset of `byteIndex` (`queue.go` 142-150) changes nothing in a model that counts frames. It matters only for a `state.dat` written by an older version. The spec (§9) records that case as an intended one-time replay.
