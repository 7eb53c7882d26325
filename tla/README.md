# Verification of ffrwd/moq

TLA+ models, TLC runs and TLAPS proofs of the media-over-QUIC package in this
repository: a publisher node that writes a query's streams to a relay
broadcast, and a subscriber node that reads one back. Everything here is
translated from the Rust sources; `PROJECT.json` maps each definition to the
lines it stands for.

## The system

| part | source | state | operations |
|---|---|---|---|
| reorder hold of a track | `core/src/order.rs`, `Queue` | held groups, cursor, join, hole, fetch, counters | `frame`, `end`, `push`, `refused`, `restart`, `take` |
| reading of a track | `subscribe/src/module.rs`, `core/src/subscribe.rs` | subscription, group being read, retries, fetch tasks, the pull | `read_groups`, `fetch_group`, `take_in`, `hold`, `release`, `over` |
| subscriber session | `subscribe/src/module.rs` | broadcast, driver, all tracks, `lost`, `finished` | `open_broadcast`, `reconnect`, `resume` |
| pacing of a published track | `core/src/delivery.rs`, `Pacer` | queue of cut groups, open group, group in flight | `open`, `write`, `close`, `release`, `watch` |
| publisher session | `publish/src/module.rs` | renditions, session, redial, catalog timing | `drive`, `mend`, `redial`, `catch_up`, `flush`, `publish_catalog` |
| group discipline, picture gate | `core/src/group.rs`, `Groups`, `Join` | frames since the cut; started | `cut` decisions, `admit`, `playable` |
| catalog, rows, names | `core/src/catalog.rs` | none (pure) | parse, write, `rows`, `track_names_for_rows` |
| legacy container | `core/src/legacy.rs` | last pts | `Order::dts` |
| messages, relay URL, DNS, DoH, WASI | `core/src/{message,relay,dns,doh,wasi}.rs` | next to none | conversions and I/O |
| vendored QUIC, harness, live tests | `vendor/`, `harness/`, `tests/` | - | not part of the program |

How they meet. The publisher's `drive` cuts packets into groups and gives them
to one `Pacer` per track, which puts them on a `moq-net` track. The relay
forwards groups in whatever order it likes and may drop one or refuse to serve
it. On the reading side one task per track (`read_groups`) turns the
subscription into *words* (a frame, a group's end, restarted, finished, lost)
on one channel; a task per fetch (`fetch_group`) answers on the same channel;
the host's pull (`take_in`) drains the channel into the tracks' holds and
releases from the holds what is next in sequence. Tasks and pull share one
thread and run only while the host is in a call.

What is hard: groups arrive out of order, twice, late or never; a subscription
breaks in mid-group and is taken up again at the live edge; a fetch's answer
comes after the hole it was for has closed; a whole session is replaced while
words of the old one are in the channel; the budget has to hold in the middle
of a burst; and the run must end, with nothing held back.

What makes each part correct:

* hold: packets leave in decode order, each once; every group and hole is
  counted; holes do not stand for good; the byte count is exact;
* track: groups go out whole unless given up on or cut; the budget is held to;
  a finished track drains;
* picture gate: what reaches the pad begins at a sync sample, nothing else of a group is
  absorbed, and a picture that has to start again does;
* pacer: groups reach the wire in order, once each and whole; a group that goes
  out ahead of its time is counted, and none waits for good;
* publisher session: no session is in without the catalog once media is cut;
  messages are on the socket before the media of their call; a call that no
  other follows soon holds nothing back; a run's last call gets every tail out;
  no call waits for good;
* subscriber session: a run says that it is over only when every track was read
  to its end; the tracks of a session begin together; a hole that waits for a
  fetch has one; a run whose publisher has finished ends, by a relay that answers;
* catalog: what was published reads back as the relation it came from, and no
  two tracks leave on one port.

## The modules

**`HoldQueue`** is `order::Queue`. One variable per field, with three groups
of them named (`joining`, `hole`, `vars`). `arrive` is the disjunction of the
five ways through it: `ArriveLetGo` (the rest of a group let go),
`ArriveRepeated` (a second copy of a whole one), `ArriveMore` (more of one being
read, or a second copy passed over), `ArriveLate`, `ArriveNew`. The callers
`ReadFrame`, `End` and `Push` are actions; so are `Refused` and `Restart`.
`take` is the disjunction `Take(last)` of its exits: `TakeLiveJoin`,
`TakeLiveEnd`, `TakeBacklogJoin`, `TakeAtCursor`, `TakeEmpty`, `TakeWaits`,
`TakeStepsOver`; each of those that gives something out goes through `HandOn`,
which is the common tail of the function. An exit that changes nothing
(`Unjoined`) is a stuttering step. `Tick` ages the two instants the code
compares with a wait.

The module is open: any operation at any moment, in any order, with any of a
small set of frames. The one thing asked of the caller is that each `ask` is
answered once (`asks`), as `fetch_group` does.

**`Track`** extends it with the surroundings: a publisher and a relay
(`Publish`, and the freedom of `ReceiveGroup` and `Answer`; external), the reading task
(`ReceiveGroup`, `SubscriptionFrame`, `SubscriptionEnd`, `Finish`, `Break`,
`Resubscribe`), a new session (`Resume`), fetches (`Answer`), and the pull
(`StartRelease`, `Release`, `ReleaseEnds`), whose place in `take_in` is the
variable `pull`: it *files* what the channel brings, is in the middle of a
*burst*, releases with *more* to come or for the *last* time, *waits* at the
channel, or has said that the run is *over*. A task's step and the filing of its
word are one step: the channel is first in, first out, and nothing else reads
it. Histories (`out`, `lost`, `cut`) are read by properties alone.

**`Picture`** puts behind that hold what a frame of a video track passes last: the gate
(`Join` of `group.rs`: `started`, `Admits`, `Playable`), the decode times of a legacy track
(`Order` of `legacy.rs`: `last_pts`, `Rises`), and the reset of both when the track is taken
up again (`TakeUpGate`). `Show` is what becomes of the frames a `Release` hands on;
`TakenUp` is the filing of the word of a restart, by a reader that subscribed again or by
`resume`. A refused sample ends the run (`refused`). `Picture` adds nothing to when a step of
`Track` may come and takes nothing from it, as long as no sample is refused. The histories `absorbed` and
`mark` are read by properties alone.

**`FrameOrder`** is what the reader of a track is promised, in twenty lines:
frames leave group after group in ascending order, each group from its first
frame, each frame once. `Track` implements it under `Order == INSTANCE
FrameOrder WITH Group <- Sequence, Longest <- MaxFrames`, with `out` as itself.

**`Pacer`** is `delivery::Pacer`, the way of one published track onto the wire.
`queue`, `open` and `last` are its fields (`open` is whether the newest group of
`wire` is still written; the group itself is the last one of `wire`), `group_open` is the
field of `Rendition` that keeps its caller honest, and `use` is what `in_use` finds
the serving sessions doing with the newest group on the wire. `Open`, `Write`,
`Close`, `Release` and `Watch` are the operations; the loop of `release` is
`LetOut`, which finds in one go how many groups leave: once the first has gone,
the one behind it follows a group that nobody has taken and that was
finished this instant, so only the lack of a subscriber or `QUEUE_MAX` lets it
go too. `Serve` (external) is the sessions' freedom: to take the group, deliver
it, keep it for ever, or abort it once finished; `Tick` is the clock. The module
is open like `HoldQueue`: `Rendition::publish_frame` closes, opens and writes in
one call, here any of these may come at any moment. The histories `written` and
`early` are read by properties alone.

**`Pace`** and **`Paced`** are that pacer as its user sees it: one record (how
many groups were cut, how many of them are out, whether the newest is open, and
what the one in flight lets the next one do) with an operation for each of the
code's. `Pace` has the operations, for the publisher's session to put one in each
of its tracks; `Paced` makes them a specification, and `Pacer` implements it
(`ImplementsPaced`), under the mapping `AsPaced`.

**`PubSession`** is `Session` and `Rendition`, with `Groups` of `group.rs`, over
a pacer of `Pace` per track. The code has no thread of its own: what it
awaits runs only while the host is blocked in a call. So the model is one call,
with a program counter `at`; the serving sessions (`Take`, `Deliver`), the readers
(`Ask`), the relay (`Drop`), the redial (`Redial`) and the deadline of the hold
(`Deadline`) take their steps only where the code awaits, and time alone (`Pass`)
passes between two calls too. `Call` to `Return` follow `drive` statement by
statement; each of its awaits is a phase of its own, and the shared ones, a yield,
the turns of `flush` and of `empty_queues`, come back to the place in `then`.
Some of it a reader would not expect, and is as in the code:

* a turn before the first packet returns without an await and before `mend`
  (888-891), so a host that only turns never notices a lost session;
* the wait for a first reader runs with whatever session there is: a redial can come in
  during it and be installed by the next call's `mend` only;
* the last call never mends, and a redial that has come in by then is dropped
  with the run (1128);
* frames put into a group that is still open are not flushed for themselves.

**`CatalogNames`** has the names and rows as functions: `track_names_for_rows` on
the publisher's side, `parse` and `rows` on the reader's, `ports` and `relation`
of its node. A name is a sequence of parts, so that a suffix can be told from a name
that contains it. The catalog lists each section alphabetically; here it is every order.
What is sorted or filtered in the code is said by rank and by set, which is what the
proof of `RowsReadBack` can open.

**`Reader`** is the node of the subscriber: `shape` (a probe: dial, announcement,
catalog), `init` (the run's session, all tracks registered and then awaited) and
`process` (a pull), with `reconnect` and `resume`. `Track` has one track in full;
`Reader` has several, and keeps of the hold of each only how much is held, in
stretches with no hole between them, and what has become of the hole before them.
Tasks, session and publisher take their steps where the code awaits. The relay's answer to the
subscriptions of a session (`Subscribed`) is external: the code waits for it with no timeout.
`spent` is the end of `reconnect_s`, looked at only after something has failed, as
in the code; with `Window` false a lost session fails the run.

**`HoldQueueMC`, `TrackMC`, `PictureMC`, `PacerMC`, `PubSessionMC`, `ReaderMC`** are the instances for TLC. The
`View` of `TrackMC` and `PictureMC` leaves the counters out: they are written and never read, but for a bound that these
instances do not reach.

**`HoldQueueProofs`, `HoldQueueHoles`, `TrackProofs`, `TrackWhole`, `PictureProofs`, `PacerProofs`,
`PubSessionProofs`, `ReaderProofs`** hold the theorems.

### Abstractions

A frame weighs 1 and, in `Track`, is its index in its group, so that a repeat
is told from a new frame. A group is decodable or not by `Keyed`. An instant is
an age, cut at the wait it is compared with. Report rows, the call-time
statistics and the maxima are left out, and packets are
abstracted to whether a release made any (`produced`), which is what the pull
looks at: a decodable group's first frame makes packets, any other may or may
not (an empty fragment, a picture absorbed after a restart). In `Picture` a frame is one
sample, a sync sample just if it opens a group in `Keyed`, with a pts above all before it.

In `PubSession` a packet is its place in its stream and whether it is a key frame,
and a report is whether the call has a row. The muxer (a library) holds one sample
until the next gives its duration. How much time has passed between two places is a choice
wherever the code looks at the clock: whether the catalog is due, whether the media has
been quiet. The redial's doubling waits, and those of the reader, are left out within
their windows.

## The runs

| run | bounds | shows |
|---|---|---|
| `hold_order` | 5 groups of one frame, 4 arrivals in all, any calls | `Accounting`, `HoleAccounting`, `AskIsForTheHole`, `JoinIsLowest`, `NoSilentSkip` |
| `hold_frames` | 3 groups of up to 2 frames, 4 counted arrivals, fair | `TypeOK`, `BytesExact`, `AheadOfCursor`, `PassingIsSettled`, `HolesSettle`, `BacklogJoins` |
| `track_order` | `Picture`: 3 groups of up to 2 frames, one retry, one lost session | `DecodeOrder` (refinement of `FrameOrder`), `WholeUnlessCut`, `BudgetHeld`; `BeginsAtSync`, `AbsorbsNoGroup`, `JoinNeedsNoGate`, `NeverRefused` |
| `pacer` | 5 groups of up to one frame, a queue of 2, waits of 1, 2 and 3 ticks, any calls, fair | `InOrder`, `OneIsOpen`, `EarlyIsCounted`, `AllLeave`, `ImplementsPaced` (refinement of `Paced`) |
| `pub_session` | picture with messages, 2 packets in all, and sound, 6; 2 of a pad in a call; a queue of 1, 1 turn each; fair | `TypeOK`, `TailIsOut`, `CatalogFirst`, `QuietHoldsNothing`, `Discipline`, `CallsReturn`, `GroupsLeave`, `Mended` |
| `reader` | 2 tracks, 2 faults, 1 stretch held, 1 retry, 2 dials and 2 tries; broadcasts of up to 3 pads on 2 rows, legacy feeds of 4 names; fair | `TypeOK`, `EndsComplete`, `JoinTogether`, `AskAnswered`, `RowsReadBack`, `PortsDistinct`, `RunEnds` |
| `track_live` | `Picture`: 3 groups of one frame, one retry, fair | `Drains`, `PictureReturns` |
| `track_restart`, `track_over`, `track_budget`, `track_ends` | 3 to 5 groups | four of the disagreements below |
| `pub_flush` | one track of sound | the fifth, `Flushed` |

Invariants that are proved for every value of the constants and are simple enough need no
run beside the proof: `QueueBounded`, `WireGrows`, `Announced` and `FlushedIfReported`.

Why the bounds are enough to be of interest. Five groups allow two separate
holes with a group between them and one above, which is what the hole
bookkeeping can confuse. Four counted arrivals allow every group but one, or
copies of one: a second copy, a late group after a hole was given up on, and a
repeat after a fetch. Two frames a group are needed for a copy to be part way
through when the track is taken up again. The budget of 3 frames is reached
with groups to spare, and `RowCap` of 1 makes the cap on fetched groups bite.
Of the three groups of `Picture` only the second has a sync sample, so that a join and a
restart meet a gate that is closed from below and from above; a budget of 2 is met by one
group of two frames, so that it is met by groups that do not open the gate; and two frames a group let a restart come in the middle of one.
For the pacer, five groups put two on the wire ahead of a queue that is full and one
over, which is the only way to `QUEUE_MAX`; the three waits keep the order that
`SPACING`, `TAKE_MAX` and `DELIVER_MAX` have in the code; a group with a frame and one without
are told apart, so groups that change places are seen.
For the publisher, two packets make a second group of the picture, or a message and a
picture in a call, which is what their order needs; six of sound make three groups, so one in
flight, a queue of one that is full and a group over (`Excess`), and a tail that is still queued at
the end. The last call draws on the same packets, and may have none of its own. For the reader, two tracks are one more than
what can be lost, and two faults a lost track on a session that replaced another; a
stretch of two tracks' holds is enough, since a hold knows only of its first hole.
The broadcasts are every combination of up to three pads on two rows, with names that
collide once a character is replaced.
Every action and every disjunct of the next-state relations fires in some
passing run.

Bounds, by name: `MaxSequence`, `MaxFrames`, `MaxReceived` (guard `Room`),
`Retries` (the code's own `TRACK_RETRIES`, smaller), `MaxSessions`,
`MaxGroups` and `MaxFrames` of the pacer, `MaxBatch` and `MaxPackets` of the
publisher (its `Most`, `FlushTurns`, `CatchUpTurns` and `AudioTicks` are the code's
constants, smaller), `MaxTracks`, `MaxHeld` and `MaxFaults` of the reader (its
`ProbeDials`, `CatalogTries` and `TrackRetries` are the code's, smaller). Deadlock is not checked:
a hold nobody calls, a track that is over and a bound that is reached all stop.

### Fairness

`FairSpec` (hold): the pull takes from every hold on every turn and its ticks
keep coming (`WF` of `Take(FALSE)`), time passes (`WF` of `Tick`), and a fetch
is answered, a timeout counting as a refusal (`WF` of `Refused`).
`TrackFair`: the pull is weakly fair, since it wakes at each tick;
the reading task, the answers and the clock are strongly fair, because each
is disabled again and again while the pull releases, and the executor runs every
ready task whenever the pull waits. Nothing is asked of the publisher, of the
relay's handing groups over, or of a stream's breaking: with a relay that hands
nothing over, `Drains` still holds, because `ended` lets the task finish. What is asked of the
relay is that it hands the end on and answers a resubscription, for which the code has no
timeout (1615): a reader that waits there for good is not among what `Drains` and `PictureReturns` say.
`PictureFair` is that fairness for `Picture`, whose steps are the same.
`FairSpec` (pacer): the queue is looked at again and again (`drive` releases
every rendition on every turn) and time passes. A look with nobody subscribed empties
the queue, so weak fairness of the looks with a subscriber asks for no more than
looks of either kind. The sessions are under no obligation.
`FairSpec` (publisher): the executor runs the call (`WF` of `Code`), the hold's
deadline passes, and the host makes its turns, which the rate clock of the module's
shape has it do (`WF` of `Turn`). A redial is driven only while some call awaits, so
that it comes in or spends its window is strongly fair; so is that a group in flight
passes its cap, for each track. Neither readers, nor relay, nor serving sessions
owe anything.
`FairSpec` (reader): the node's code and the host's calls go on (`WF`); the clock
of the window, the tasks that have something to do, and the fetches, whose timeout is an
answer, run where the code awaits (`SF`). Nothing is asked of relay or publisher. `RunEnds`
starts from a publisher that has finished, the relay's faults are bounded, and it names
what it takes of the relay besides: under `RelayAnswers` a subscription is not left
unanswered for good, nor a track's end kept back. Without that the run may hang (below).

### Disagreements found

* `track_restart`: `restarted` makes the *next* hole one "nothing will fill",
  wherever it is; a hole at or above the live edge the new subscription began
  at is given up on while its group is on the way.
* `track_over`: a refusal for a hole that has been filled clears the fetch of the hole
  that stands open now, so `over` turns true with an answer outstanding. It takes a
  late refusal: a host that stays away past both waits, as the timers of the fetch tasks run only
  inside its calls.
* `track_ends`: `take_in` asks `over()` before the release and again after it. The
  release can itself give up the hole a fetch is out for; if what it hands on
  makes no packet, the second answer ends the run with groups still held
  behind the next hole.
* `track_budget`: a live join with nothing to start at returns from `take` before
  the budget is looked at; `hold_mib` does not bound it. Nor does it once the reader has
  joined, for as long as the group at the cursor is being read: what was held above that
  group is looked at only at the next hole.
* `pub_flush`: a call's writes are given their turns on the socket if it has
  report rows; with the default rows a finished group of media has none, and the call
  returns with it unsent. `FlushedIfReported` is what does hold.

Smaller ones with no run of their own: a word the pull *waited* for is filed without a look
at the budget. `BudgetHeld` states exactly what is kept: of a backlog, under the budget
whenever the pull waits and over it by that one word at most; of a live join, under it
once joined, but for the group being read. A
group is asked for twice after a stale refusal. `Rendition::restart` closes the gate of a picture when
it is told of the restart (281), with groups of the old subscription still held: one of them that
opens at a sync sample opens the gate again ahead of the gap, and the first group behind
the gap then goes out whatever it opens with. `README.md` 667 says that a video track waits for a
sync sample "since the frames it would have referred back to went with that hole". It takes a publisher
whose groups do not all open at a key frame, which the comment at 1087 counts on.
`BeginsAtSync` is what does hold: of all that goes out after the restart, the first. `ports` says that its names are
unique (1230), and numbers a name that is taken by its place without looking again: with tracks
"a.b", "a.b-2", "a_b" two of them share one. `PortsDistinct` leaves names with that
character aside. `parse` says that a broadcast reads back as the relation it was published
from (`catalog.rs` 363): a row that has picture and sound and no name comes back as
two, and a name that equals a fallback collides with it; `RowsReadBack` holds under
`Named`, which states the conditions. A relay that stays connected and leaves a subscription unanswered
hangs a reconnect, or the start, for good: the answers are awaited with no timeout (958-961, 1369-1371, and 1615
for a track alone), and the window is looked at only after something has failed (889), where
the comment at 860 says that everything that fails before then is tried again "until the window is
spent", and `README.md` 655 gives a new session "as long as `reconnect_s` allows". `RunEnds` is therefore
stated under `RelayAnswers`. The comment on the
parameter (`publish/src/module.rs` 127) calls its default a tenth of a second, and
`AUDIO_GROUP_MS` is 200.

## The proofs

Those about `HoldQueue` are for every value of the constants that satisfies
`HoldAssumption`: any number of groups, any frames, any waits and budget.

`HoldInv == TypeOK /\ AheadOfCursor /\ JoinIsLowest` is inductive, and the three
need each other: that a second copy's count keeps to its type and below
`have` is needed to type the frames left after passing over; that a join hands on
the lowest group is what puts every other held group above the new cursor; and
the lowest *decodable* group is a member of the hold only because `join_ready`
was noted on every arrival. The proof has a lemma per way of arriving and
reduces the five exits of `take` that hand on to one fact, `HandsOn`: the group
is held, what is skipped lies below it, nothing else does. Three theorems fall
out: `TypeCorrect`, `NeverBehindCursor`, `JoinsAtTheLowest`.

`HoleInv == HoldInv /\ HoleAccounting /\ AskIsForTheHole` is inductive on top of it.
Arrivals touch a hole only by clearing the fetch for the group that came; a take
opens a hole, waits on it, or ends it, and then `NoHole` resets all that was
kept of it. Hence `HolesAreCounted` and `AsksForTheHole`.
`SkipsAreCounted` proves the action property `NoSilentSkip` from `HoldInv`;
`LetsGoOfTheSettled` proves `PassingIsSettled` (frames are only let go of a group
that is passed or whole); `GroupsAreAccountedFor` proves `Accounting`, by counting
the domain of the hold before and after each step.

`HoldQueueHoles` also proves `BytesExact` (`BytesAreCounted`), and from it that the
subtractions from the weight, a `u64` in the code, stay above zero
(`BytesNeverBelowZero`). `TypeOK` says of `pending_bytes` only that it is an
integer. A weight is the number of frames, each by its group and its place, so
that those of two sets of groups that share none add up (`WeighBoth`); each step
then changes one group (`WeighApart`) or takes a set of them away.

`TrackProofs` proves that `Track` implements `FrameOrder` (`TrackKeepsDecodeOrder`), for
every value of the constants that satisfies `HoldAssumption` and `TrackAssumption`. The
order of the groups is the cursor's; the order of the frames is the reader's count
against the hold's, and the two must agree through every break. So the invariant says
that the frames of a held group follow on those that went out (`HeldInOrder`); that the
subscription has read as much of its group as the hold takes it to have, from the first
frame again after a break (`ReadsOn`), and has filed what it read (`ReadIsFiled`), which
rules out that the middle of a group is filed as a new one; that what went out last is
of a group the cursor passed or is at (`OutIsBehind`); and that a group some of whose
frames went out was the last to go out (`SentIsOut`). It takes `HoldInv` and
`PassingIsSettled` over from the hold. `Fits` is what an arrival must be for the hold to
keep them, and every task's word is one that fits; `GoesOn` then puts the next frame
handed on right behind the last.

`TrackWhole` is about where groups end, under the same assumptions. `TrackInv` says nothing of that,
and `WholeUnlessCut` is far from inductive: that a group passed by the cursor went out
whole rests on the hold having known where it ended. `WholeInv` adds `HeldFits`
(a held group is no more than was published of it, and one taken for whole is all of it and is
closed, so that it cannot grow any more: this has to survive a second copy part way through and
a fetch that answers beside the subscription), `SentWentOut` (the frames of a
held group that are not held any more are out), `ReadFits`, `BrokenIsCut` (a group that may come
again, or that no task reads on, is one a stream broke in: the only one `take` ends
early) and `LastIsFinished` (the last release, which takes groups as they stand, is of a track whose
reader got to the end of each). Out of it come `PassedGroupsAreWhole` and `WholeGroupsAreWhole`.

`BudgetInv` is for `BudgetHeld` (`BudgetIsHeldTo`). The hold is looked at only between two words, so the
argument is about what a group that is being read keeps from being looked at: the groups above it,
which are not let go while it is read, were under the budget when it began
(`RoomToBegin`) and stay so (`OpenIsUnder`), since a subscription reads one group after the
other; `Near` keeps a fetch's answer from bringing more. It needs `BytesExact`, by which
what is compared is what is held. `BudgetHeld` once claimed for a live join what
is true of a backlog; the proof stopped at the group being read, and TLC found the
counterexample on an instance with five groups of one frame. What it says now is also checked on that one.

`PictureProofs` first proves that a picture's steps are its track's (`PictureIsOfATrack`), so that
everything above holds behind the gate. `GateInv` then relates the gate to the frames that went
out since the track was taken up: it is open just if a sync sample is among them that was not
absorbed, and else all were (`StartedAtSync`); the last pts is of a frame that went out, and what goes out
rises (`OutRises`), which `TrackInv` gives. Hence `PicturesBeginAtSync`, `GroupsAreNotAbsorbed`
and `SamplesAreNotRefused`. `LiveJoinsNeedNoGate` is a fact about hold and gate together, and `JoinInv`
takes `WholeInv` along: what the hold notes of a group says whether it opens the gate
(`SaysIfKeyed`, for which it must not hold less of a group than it has noted), a live join goes by
that note, and the last release is the one way around it.

`PacerProofs` is about `Pacer`, for any limits, any number of groups and of frames
that satisfy `PacerAssumption`. The invariant is `TypeOK`, `InOrder`, `OneIsOpen`,
`QueueBounded` and `EarlyIsCounted` with one conjunct more, `HeldWasTaken`: a group
that a look saw held has been taken. Without it `settled` could take a group no session
has for one delivered, and the next would go early and uncounted. `Split` says that a
look only moves the boundary between wire and queue, so that `wire \o queue` is the
same before and after; `AllClosed` says that finishing the newest group leaves
every group finished; `Counted` is the arithmetic of `unpaced`. `Open` and `Release`
then go through one lemma, `LookKeeps`. `PacerWireGrows` proves the action property
from the invariant.

The second half of the module proves that `Pacer` implements `Paced`, for the same constants. The
invariant gains two conjuncts about the group in flight: it was finished no longer
ago than the longest wait (time stops there), and there is none while the newest group is
written on the wire. `FlightVerdict` is the heart of it: a flight
holds the next group back just if the verdict of `in_use` and the ages says so. What is
left is that a look of `Pacer` lets out as many groups as `Leaving` says, and one
step lemma per action.

`PubSessionProofs` is for any streams, packets and turns that satisfy
`PubSessionAssumption`. What holds where a call returns was made so by awaits on the
way there, so the invariant follows the call: `Routes` says where an await may go
on, `MessagesFirst` that nothing of a message is unsent from the flush to the gate, and that
the call knows of it before (`messages`),
`RowIsAhead` that what is unsent has a row and the flush still to come, `StaysEmpty` that
a queue once emptied stays so through the last flush, whose looks let
groups go and bring none (`ReleaseType`), and `Seen` carries the catalog from the hold to the
choice of a reader. `ReadyIsMedia` is there for the types: a fragment is only ever waiting
while its pad is at hand. Out of it come `PubTypes`, `PubCatalogFirst`,
`PubQuietHoldsNothing`, `PubAnnounced` and `PubFlushedIfReported`.

`PubPacketsInOrder`, `PubDiscipline` and `PubTailIsOut` follow the packets of each track. They are numbered from 1, and
`Flowing` says that the groups, the fragment handed back by the muxer, the sample the
muxer holds and what the call has yet to take are those numbers in that order, and make up all that was offered.
`AllInOrder` has that with the rules of the groups and with as many groups as were cut; `Taken` says
where a call can still have something to take; `TailsFirst` that the muxers are empty and
the groups shut before the last flush, that nothing is held back after it, and that only then a track is
told. `PubPacketsInOrder` says that of all that was offered none is twice, left out or out of its
place, wherever in the call it is. `PubDiscipline` is about where the groups of a track begin and
says nothing of order. That the groups' packets, put behind each other, are the numbers from 1 is a
statement about the library's recursive `FlattenSeq`. It is shown by giving the function that satisfies its
equation, and by the least group for which it would not hold (below).

`ReaderProofs` is for any number of tracks, faults and retries. `EndsComplete` is not
inductive: the code reads whether a run is over off a count of the readers that are done,
so `Counted` says that it counts them, from the first subscription of a run or of a
session on, and that a lost track raises the flag that asks for another session;
`TasksOfSession` that a session given up leaves no task behind; `Registered` what the
subscriptions made so far began at, for `JoinTogether`; `NothingAsked` that no hole
waits before the first pull, for `AskAnswered`, which a reconnect keeps since it
takes up every hole again. It assumes of the broadcasts (`CatalogAssumption`) that a catalog
lists finitely many renditions and that a name has parts, which every document does.

`ReaderPortsDistinct` is about `Ports`, a fold of the library, for any number of tracks with any names: `PortsExist`
gives the function the fold's equation defines, track by track, and `PortsAre` what it gives for
the first k of them, each its name or its name and number, all different. Its hypothesis
`Decimals`, that the decimals of two numbers differ, is there because the library leaves open what `ToString`
gives; TLC's own, with which the run checks the same property, satisfies it.

`ReaderRowsReadBack` is for a relation of any number of pads, rows and names that `Named` lets by,
under `Decimals` again and `PublishedAssumption`: that a broadcast of this package lists its
pads under the names it gave them. Only the broadcasts with pads are meant by that, a foreign feed has none.
The argument goes the way of the data. Two names are apart (`NamesApart`): a fallback
begins with the word of its kind, which no given name does; two fallbacks of a kind differ by
height or by place (`NthIs`: the unnamed pads are counted apart, `FallbacksApart`); and of two pads
with one given name, picture and sound of a row, the sound's alone ends in `.audio`. So a sound
is named after a picture just if they were handed in on one row (`PairIs`). Reading, whatever order each
section is listed in, is a permutation with the pictures first (`PublishedIs`). Its fold is brought
down to single renditions (`RowsStepwise`) and has the invariant `RowsAre`: the media are on rows from
0 on with none left out, which is why the count of rows in use is a free one, and two of them share a row
only as a picture and the sound named after it. That names are apart
is what the induction needs: of two pictures with a name, a sound could join but one.
`RowsAsHanded`, `RowNamed` and `RelationHas` then give the three parts of the property, and `FeedOnOneRow`
the one about a foreign feed.

On induction. The library's induction theorems take an operator and cannot be used
here. What can is that a non-empty set of numbers has a least one (`LeastNumber`, from
`WFMin` and `NatLessThanWellFounded`, which are about sets): the set of the
numbers for which a statement fails has no least member, so it is empty. A function
defined by recursion takes one thing more, that some function satisfies the defining
equation, which is found by the same means.

Only model-checked: the nine liveness properties (`HolesSettle`, `BacklogJoins`, `AllLeave`, `CallsReturn`,
`GroupsLeave`, `Mended`, `Drains`, `PictureReturns`, `RunEnds`), since fairness and `ENABLED` are
outside the prover. Every other property a passing run checks is a theorem.
The five runs that expect a violation state what does not hold.

## What is left

Several tracks with holds in full on one pull: `Reader` and `Track` each have a half of it.

## Not modelled, and why

Hazards without a property, and why, are listed with their lines in
`PROJECT.json`: most are an error that ends the run, or a report row.

Bytes: the catalog's JSON, fragmented MP4, the legacy container, DNS messages
and relay URLs are parsing and formatting. QUIC, WebTransport and `moq-net` are
libraries; what the code relies on of them is modelled where it is used. The
WASI bindings are I/O. The harness, the live tests and the recipes are tools.

## Running

    tlc -workers 2 -config HoldQueueOrder.cfg HoldQueueMC.tla
    tlc -workers 2 -config Picture.cfg PictureMC.tla
    tlc -workers 2 -config Pacer.cfg PacerMC.tla
    tlc -workers 2 -config PubSession.cfg PubSessionMC.tla
    tlc -workers 2 -config Reader.cfg ReaderMC.tla
    tlapm HoldQueueProofs.tla
    tlapm HoldQueueHoles.tla
    tlapm TrackProofs.tla
    tlapm TrackWhole.tla
    tlapm PictureProofs.tla
    tlapm PacerProofs.tla
    tlapm PubSessionProofs.tla
    tlapm ReaderProofs.tla
