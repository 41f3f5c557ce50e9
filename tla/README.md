# BigPaw: a TLA+ model of the core

BigPaw is a serverless LAN messenger.  Every device runs the same Rust core
(`src/crates/bigpaw-core`): it discovers other devices, keeps a contact list,
opens mutually authenticated TLS connections for texts, group tables and files,
and stores what happened in SQLite.  A second crate (`bigpaw-ipmsg`) speaks the
old IPMsg protocol.  A Tauri shell (`src/src-tauri`) and a React UI (`src/ui`)
send commands to the core and show its events.

This directory models the parts of the program where several threads, devices or
restarts meet, checks them with TLC on small instances and proves the most
important properties with TLAPS for every value of the constants.

## The system

| Component | State | Operations | Talks to |
|---|---|---|---|
| Contact list (`roster.rs`) | fingerprint -> addresses, state | `apply`, `retain_peers`, `seed_offline` | owned by the roster thread |
| Roster thread (`core.rs:565-752`) | `last_seen`, scan clock | event loop, publication, expiry scan | one channel in, a watch channel to the UI, the peers table |
| Dial-backs (`core.rs:1594-1658`) | `in_flight`, one thread each | `spawn_probe` | the roster thread's channel |
| Settings (`settings.rs`, `core.rs:1218-1321`) | settings.json, published range | save, publish, notify | registry, transport, roster thread |
| Interface registry (`net_ifaces.rs`) | interface snapshot with a generation | refresh, `set_policy` | every sender and dialler |
| Network range (`net_scope.rs`) | intervals of addresses | parse, `allows`, `hosts_within` | every entry point |
| UDP announcements (`discovery/announce.rs`) | encoded announcement, window and rate limit of the send loop, multicast membership, reply limiter, history of addresses | `send_loop`, `recv_loop`, `poke`, `set_nick`, `set_group`, `shutdown` | roster thread's channel, interface registry |
| mDNS (`discovery/mdns.rs`) | names seen, disabled interfaces | browse, register, exclude | roster thread's channel |
| Connections (`transport/manager.rs`) | outbound cache, inbound sockets | dial, accept, `send_msg`, `enforce_scope` | other devices |
| File transfer (`transport/manager.rs`, `filexfer.rs`) | outgoing, pending offers, incoming, the part file | offer, answer, send, receive | other devices, pump |
| Groups (`groups.rs`, `core.rs:1026-1182, 1420-1592`) | member tables in memory and database | create, update, leave, text, merge | commands, pump, other devices |
| Pump (`core.rs:768-797`) | none | writes events to the database, handles group frames, forwards to the shell | storage, groups, shell |
| Storage (`storage.rs`) | peers, messages, transfers, groups | one statement each, under one lock; the time line in pages | everybody |
| IPMsg layer (`bigpaw-ipmsg`; `core.rs:800-1024, 1350-1400`) | nickname, targets, range, offered files, offers that wait for the user | `send_loop`, `recv_loop`, texts, file and folder requests, `shutdown` | roster thread's channel, pump |
| Shell (`src-tauri`) | unread set, active conversation, cached settings, tray icon | event forwarding, commands, window events | core, UI |

What is hard about it: the roster thread handles events under a network range
that another thread changes; dial-backs answer late; memory and database are
written one after the other by two threads; every fan-out has a thread and a connection of its own, so frames overtake each other; a file transfer spans two
control threads, a data connection, a user's click, a timeout and two databases,
and transfers of one name share a file on disk; announcements and IPMsg are single
datagrams that get lost, overtake each other and set off answers, while the range and
the name change and the process may end with threads at work; what the shell's event
thread decides is carried out by the main thread, which decides for itself in between.

What makes each part correct: the list is always in range and never differs from
what the UI shows, and whoever is gone is shown so in the end; a group table has
one writer, versions are unique, and everybody converges to the writer's table;
a file under its own name is the file that was offered, and every transfer ends
in the tables of both sides; nobody out of range is ever addressed, everybody in
range is, and every subscriber of the interface registry ends up with what the
newest snapshot asks for; announcements keep their distance, never answer each other
without end, and the last name gets everywhere; what an old IPMsg client was told or
has acknowledged is in the database in the end, and whoever left is no longer listed;
the tray shows what is unread, and paging loses and repeats no row.

## Modules

`Roster` - the contact list as pure operators: one operator per event
(`AfterSeen`, `AfterLost`, `AfterRegistered`, `AfterUnreachable`), the boolean
`apply` returns (`ApplyChanged`), eviction and warm-up.  Nickname, port and
workgroup ride along with the addresses and are left out.

`Presence` (extends `Roster`) - the roster thread and the actors around it:
`Announce`/`Goodbye` (discovery), `Recv` then one `Handle...` action (the thread
takes an event and reads the network range in one step and applies the event in
another), `PollTimeout` (200 ms without an event), then `ScanStale`, and `Tick` (expiry), `ProbeFinish`/`ProbeExit` (a dial-back
reports first and leaves `in_flight` afterwards), `SaveSettings`,
`PublishScope`, `NotifyScope` (the settings command) and `Restart`.  An address
is a model value, a network range a set of addresses.  Database writes may fail.  The
history `outlasted` keeps the peers that were timed out with a dial-back still under way.

`GroupLedger` - what `groups.rs` promises of a group: one writer, versions that
count up, everybody else holds nothing or a copy.

`Groups` - one group on all devices.  Command thread: `CreateGroup`,
`UpdateRead`/`UpdateWrite` (two critical sections, as in the code), `StoreTable`,
`FanOutTable`, `LeaveGroup`, `DeleteRow`, `NotifyCreator`, `SendText`.  Pump:
`IgnoreInfo`/`AdoptInfo`/`RemovedByInfo` (the outcomes of `apply_info`),
`HandleLeave`, `HandleText`, `PumpStore`.  Frames under way are a set, so they overtake
each other.  Two switches say what may happen: `Overlap` (command and pump of a device
interleave) and `Faults` (frames are lost, writes fail, devices restart).  Histories
note where the code breaks its own promise, so that the properties can name it and are
checked everywhere else: `forked` (the creator went on from a table that was not its
newest: an update wrote over a change made between its two critical sections, or a
restart loaded an old row), `unsaved` (devices whose row a write left behind the memory),
and `missed` (devices that did not get the newest table they were `owed`, or looked at it
after a newer one, which is what `seen` is for).

`FileTransfer` - transfers of one file name from one device to another.
Sender: `OfferFile`, `InsertRow`, `ReadAccept`/`ReadReject`/`GiveUp` (the reply
thread), `DialData`, `FinishSend`/`FailSend`.  Receiver:
`TakeOffer`, `Accept`/`Reject` and `RecordAnswer` (the two steps of
`respond_file`), `RefuseData`, `ResumePart`/`CreatePart`/`FailResume` (the
opening of the part file), `ReceiveBlock`, `Deliver`/`FailRename`/`FailChecksum`
/`FailReceive`.  Pumps and restarts of both sides.  A file is a sequence of
blocks; the checksum is the sequence itself.  A file on disk is told apart from
its name, because a thread keeps writing to the file it opened after another
thread renamed it.  A connection may also fall silent (`LoseData`): the receiver's
`read_exact` has no time-out and waits for ever.  The sender's row may be inserted after
the outcome came; `sMissed` and `rMissed` keep the transfers whose outcome met no row or a
failing write (`BadWrites` says whose writes may fail).  Switches: `Overlap` (two accepted
transfers at once), `LateAnswers` (the 120 s pass before an answer), `Breaks`, `Restarts`.  `MCFileThird` starts with a
transfer behind it that was rejected or broke off; three transfers from the
beginning reach those states, two cannot: only then can a part file become shorter
than the offset a later transfer was accepted with (`FailResume`).

`Connections` - message connections between devices.  Sending threads:
`CheckCached` (`conn_is_dead`), then `WriteCached` or `MissCached` (the cache lock held
throughout), `DialAllowed`/`DialDenied` (the range is read once), `Connect`, `Handshake`,
`WriteFresh`, `InsertCache` (the lock again), and their failures.  A sender knows that the
other end closed only once its FIN or reset has arrived (`Arrive`, into `news`); what it
writes before that succeeds and is lost, and the history `looked` tells which of these
it could not have known about.  Accept loop: `Admit`/`Refuse` (the range) and
`Register` (`inbound_socks`), one connection at a time.  Readers: `Greet` (the first
frame), `Read`, `ReadEnd`.  The settings command: `Publish`, then `CutOutbound` and `CutInbound`
(`enforce_scope`).  `Restart` closes every socket of a device.  `Close` is where
bytes may be lost: an end that closes with session tickets unread resets the
connection, which the code knows (`manager.rs:662-668`) and drains against on
one-shot connections, though not when a cached connection is replaced.  A device
has one address, so a range is a set of devices.  File connections are in
`FileTransfer`, dial-backs in `Presence`; here they would only be more entries of
`registry`.  The `since` history notes under which range a connection was
checked and under which it came into its table.  A machine that vanishes without a FIN is
not modelled: what is written to it before TCP gives up is lost without a trace.

`NetScope` - the interval algorithms of `net_scope.rs`: parsing by what it
yields, `Merge`, `ContainingRange`, `Subtract`, `CollectHosts` and the questions
built on them (`Allows`, `CoversSubnet`, `HostsWithin`, `HostsOutside`).  An
address is a number of `Bits` bits, an entry a closed interval.

`SendPlans` (extends `NetScope`) - what the device sends to, given interfaces and
range: one representative per subnet, broadcast, unicast or silence, addresses
on no local subnet, the targets of IPMsg and the interfaces hidden from mDNS.  The
broadcast address is the last one of the subnet; the code takes the one the system
reports if there is one, and that they agree is an assumption.

`NetPolicy` (extends `SendPlans`) - the registry and its two writers.  The
settings command: `SetPolicy` (one critical section, publication included),
`SettingsBcast`, `SettingsRead` (asks the registry again), `SettingsSubmit`.  The
roster thread: `Refresh` (the same critical section), `RosterBcast`,
`RosterRead`, `RosterSubmit`.  `OsChange` is the system.  `ApplyIfNewer` compares
generations, `SetDisabled` does not.  Entries compare as intervals, so a CIDR
entry rewritten as the same interval is no change here; in the code it
publishes a snapshot that asks for the same.

`Announce` - the announcements of several devices.  Time is a step of the send
loop (`SLEEP_STEP`); `Tick` moves it on once every loop has done what the step asked
of it and every datagram has arrived or was lost.  Send loop: `NoticeSend`,
`NoticeHold`, `SendPending` (`sleep_and_watch_ifaces`: a new snapshot, sent at once or
held back), `Edge` (`resync_and_maybe_send` at the end of a window), `LoopStops`.
Receive loop: `Answer`, `Hear`, `Ignore`.  `Poke` is the history thread, `Remember`
a dial-back that succeeded, `Publish` the registry, `SetNick`, `SetGroup`, `Stop`,
`Off`, `Start` the core.  `Lose` and failing joins are the faults.  Of a datagram its
sender, its way, the name it carries and how many answers led to it are kept.  Who
receives a batch is `Batch`, the plans of `SendPlans` in sets of addresses.

`Ipmsg` - one device among peers of the old protocol (`Plain`) and BigPaw peers that
speak it too (`Kin`).  Service: `SendEntry`, `RecvEntry`/`RecvAnswer`/`RecvExit`/
`RecvText`/`RecvOffer`, `Filtered`, `LoopEnds`.  Core: `StoreText`/`StoreTransfer` (the
pump), `Expire`/`Evict` (what the roster thread does with these peers), the commands
`SetNick`, `SetRange`, `Send` then `Finish` (the packet leaves first, the row or the
registration follows), `Accept`/`Reject` then `RespondFinish`, `DownloadEnds`,
`DownloadPanics`.  The end:
`Goodbye` or `NoGoodbye` (a download holds the service), `Exit`, `Start`.  Peers:
`PeerStarts`, `PeerEnds` with or without goodbye, `PeerSends`, `PeerAnswers`,
`PeerHears`; `Lose`.  A write to the database may be refused, which the code only logs
(`Refused`); `missed` keeps what it was for, and `void` the files whose row nobody will
end: the answer failed, the process ended, or the download panicked.  Abstractions: the
channel between service and core and the thread
that forwards it are part of the receiving step, since only that thread reads it and it
writes to the channels in order; `pending_acks` is written and never read, so it and the
receipts we get have no state; what a BigPaw peer hears by this way it drops; a
datagram to a machine that is not there vanishes; every packet a user or a peer causes
has a number of its own, although the code starts again from one in each process.
Serving an offered file only reads the table of registered files and is left out.

`DirStream` - a folder as the stream of entries IPMsg sends: `Receiver` is
`receive_dir_stream` with its stack, `Described` says what the stream means.  `Enders` are
the ways out of the loop: a header that makes no sense ends it in good order, one that
cannot be read, or an error of the file system, is an `Err`, a file that stops short
stays cut on the disk, and a header-size beyond the memory panics.  Pure; no two entries
have one name.

`Shell` - the reminders.  The event thread (`Arrive`, `Copy`, `Look`, `Mark`, `Show`)
copies the settings, asks the main thread for the focus, decides under the lock and asks
the main thread to change the icon.  The main thread: `SetActive`, `ClearUnread`,
`OpenSettings`, `SetSettings`/`SetMuted` with `Reload` and `Unmark`, `SaveFails`, `ApplyTray`, the window
(`Gain`, `Leave`, `Focused`).  Commands without `async` run on the main thread, one
after the other, as do the focus question and `set_icon`; `main.pc = "idle"` in `Look`
and `Show` is that.  `recent` is the throttle of notifications.  Two histories mark what
the code leaves open: `crossed`, when the main thread decided while the event thread held
an older outcome, and `stale`, the conversations marked by a reading outdated by then, or muted
again by the settings page: it reads all settings when it opens and sends all of them back
(`loaded`), so a conversation unmuted in between is muted by it.

`History` - the time line.  `Page` (`history`), `Around` (`history_around`), `Summary`
(`conversation_summaries`), and as their reader `LoadOlder` (`get_history` with
`store.ts`), which `ReadBack` repeats, as a user does who scrolls up, while rows are still
being stored: `Stored` gives the rows each page finds.  Pure.

`MC...` modules give values to constants; `MCIpmsg` and `MCShell` also join a pure module
to a state machine, whose properties are evaluated at initial states.  Definitions marked
`(mutation)` are wrong variants of an action; no specification uses them.

## Runs

| Run | Shows | Bounds |
|---|---|---|
| `presence_threads` | type invariant, `ScopeRespected`, `WatchInSync`, `OnlineIsTimed`, `DeadGoesOffline`, `OutOfScopeIsEvicted` | one native peer, two addresses, two disjoint ranges, discovery sends while nothing is queued, one queued scope change, a timeout of one tick, dial-backs of any length |
| `groups_any` | type invariant, `HoldersAreMembers`, `VersionDeterminesTable`, `RowMatchesMemory`, and that `Groups` implements `GroupLedger` until a fork, with every switch on | two devices, three versions, a command starts while no frame is under way |
| `groups_calm` | `HeardTogether`, `ToldConverge` | three devices, three versions, frames in any order, no overlap, no faults |
| `groups_reorder` | `Converged` fails when two fan-outs overtake each other | three devices |
| `file_whole` | `WholeUnderName` | two versions of a file of two and one blocks, everything but overlap, failing writes for one of them |
| `file_live` | `OutcomeIsKept`, `SenderRowEnds`, `ReceivedRowEnds` | two transfers at once after a third that left its part file or nothing, late answers, broken and silent connections, failing writes for one of them, no restarts |
| `file_overlap` | `WholeUnderName` fails when two transfers of a name overlap | two versions |
| `conn_races` | type invariant, `StragglersOnly`, `Delivered`, `SendReturns` | two devices, two threads on one of them with a message each, three connections, one change of range per device, restarts |
| `net_threads` | `Stealth`, `Reach`, `BatchesAreRight` for what is sent; `BcastFollows`, `MdnsFollowsAlone` for who is told | eight addresses, four sets of interfaces, two unicasts per subnet; at the start every list of at most two entries, then five lists, four sets of exclusions, three publications |
| `announce_threads` | `Pace`, `NoReplyStorm`, `MembershipHeals`, `NameSpreads` | two devices on one subnet with a third address; one of them makes two changes (range, exclusion, name, group, shutdown); two faults; three snapshots, a first window of 3 steps and then 4, a rate limit of 3, answers every 4 |
| `ipmsg_peers` | type invariant, `Farewell`, `OfferIsHeld`, `PresenceFollows`, `AckedIsStored`, `DownloadsEnd`; `FoldersArrive` for every stream of at most five entries | one plain and one BigPaw peer, two ranges, a timeout of two intervals, three moves of users and peers, one process that ends, one lost datagram, one refused write |
| `shell_threads` | `TrayRight`, `QuietIsNotUnread`; `PagesComplete` for every way four rows may be stored | two conversations, three arrivals, four commands or window events; two times, pages of one and two rows, rows stored during two of the pages |

Why the bounds are enough.  Peers do not interact in the roster thread except
through the channel, and a queue of two lets an event of the old range stand
before a scope change, which is what `ScopeRespected` is about; one tick of
timeout separates fresh, expiring and expired.  In a group the creator, one
member that leaves and one that stays are the distinct roles, and three versions
give a table, its replacement and a table that overtakes both; with overlap and faults the
three roles exceed what TLC can enumerate, and two devices have all the races of command,
pump and row, which are between threads of one device.  Two blocks give
a part file that is empty, partial and complete; two versions of different
length let one be a prefix problem of the other.  Two threads and three
connections let both threads dial at once, one replace the other's connection,
and a third be dialled after a cached one died.  Two intervals on eight addresses
take every relative position (apart, adjacent, overlapping, nested, equal) to
each other and to subnets of one, two, four and eight addresses, and at most two
unicasts make the cut-off happen; three publications let each thread overtake
the other once.  Announcements are between two devices, since answers and the limiter
are kept per pair; two changes and two faults let a snapshot come too early for a batch
twice, and a name be overtaken by the old one; the windows are as short as the rate
limit allows, with which a held-back batch can miss a window.  Three moves of IPMsg let a
peer start, send an offer and the user answer it, or a peer start, our name change and the
peer end; one lost datagram is lost at any place, and what follows must mend it; five
entries make two directories with two returns and a file between or behind them.  Two
conversations tell "the last one read" from "one of several"; three arrivals and four
commands let the threads overtake each other and go on.  The proofs do not depend on
any of these bounds.

`CHECK_DEADLOCK FALSE` is set everywhere but for the contact list: versions, messages,
connections, snapshots, moves and arrivals are capped, and a system that has used them
up and carried everything out has nothing left to do.

## Fairness

`Presence!LiveSpec`: threads that can run do run and time passes (weak fairness
of `Recv`, `Handle`, `ScanStale`, `Tick`, the dial-backs and the settings command).
`ScanStale` can run only after `PollTimeout`, 200 ms without an event, and for that no
fairness is assumed: `DeadGoesOffline` has as its antecedent that polls keep timing out.
The code does not guarantee it.  The scan sits in
the branch taken after 200 ms without an event (`core.rs:700-748`), so a steady
flow of sightings keeps a dead peer online; the comment at `core.rs:575-578`
names the same starvation for the interface refresh and cures it there only.

`FileTransfer!LiveSpec`: every thread goes on, a receiving one while its connection
brings bytes or an error.  `LoseData` is not fair, and after it no step of the receiver is
possible or promised.  A write that nobody acknowledges fails in the end; a receiver
that acknowledges and never reads is left out.  Nobody has to offer, accept or
reject anything.

`Connections!LiveSpec`: sending threads, the accept loop, readers and the
settings command go on, and a FIN arrives.  Nobody has to send, change a range or restart.  The
accept loop is a thread of its own that never waits for a peer, so it gets to
every connection in the backlog.

`Announce!Live`: time passes, the loops take their steps, datagrams that are not lost are
received (weak fairness of `Runs` as a whole, which suffices because `Tick` waits for
all the others), and a device that is stopping finishes.  Losses and failing joins are
bounded, so "in the end" is after the last of them: an endless loss has no remedy in
the code either.

`Ipmsg!Live`: time passes, the loops, the pump and the eviction after a change of range
go on, a command that was begun ends, and datagrams are received or lost.  The expiry scan
has no fairness, for the same reason as above: `PresenceFollows` has `ScansRun` as its
antecedent.  Nor has a download: its time-out is one for each read, so a peer that sends a
little now and then keeps it for ever.  Nobody has to send, answer, start or stop.

## Proofs

`Presence_proofs`, `Groups_proofs`, `NetPolicy_proofs`, `FileTransfer_proofs`,
`Shell_proofs`, `Connections_proofs`, `Ipmsg_proofs` and `Announce_proofs` extend the
modules they are about.  Every theorem holds for all values of the constants that
satisfy the assumptions of its module.  One needs a switch off and says so in its ASSUME:
`FileIsWhole`, without overlapping transfers.  Each inductive invariant was model-checked
on the runs' instances before it was proved.

* `Presence`.  `WatchInSync` is inductive given typing: every action that
  changes the list publishes exactly when it changes.  `ScopeRespected` is not:
  a sighting filtered under an outdated range may still be in the hands of the
  thread.  The strengthening is `OutdatedIsFollowed`: whenever the thread holds an
  event taken under another range, a scope change is behind it in the queue or
  about to be sent.  `OnlineIsTimed` needs `LateIsKnown` (a listed peer with a verdict
  on its way has a last-seen time, or the scan timed it out in the meantime), and holds
  for dial-backs of any length, with the exception it names.
* `Groups`.  `HoldersAreMembers` needs that every copy of a table, in memory, in
  a row, in the hands of a command or the pump, and in a frame, was written by
  the creator and names its owner (`CopiesAreOwn`, `CommandsAreOwn`,
  `FramesAreWritten`).  `HeardTogether` follows from the same.  None of the theorems
  assumes anything about overlap, order or faults.  `VersionDeterminesTable` and
  the refinement of `GroupLedger` rest on `CreatorIsNewest`: until a fork the creator's
  memory has the highest version written, and a command about to write holds the next
  one.  `RowMatchesMemory` rests on `RowFollows`: where row and memory differ and the
  device is not in `unsaved`, a thread is yet to write what memory holds.
  `ToldConverge` rests on `FollowInv`, which says of every other device until a fork: what
  it is owed is the newest table that names it (`OwedIsNewest`); unless it is in `missed`,
  that is about to be sent to it, under way, or looked at (`Told`); and a device that has
  looked at it holds what it says, or its own departure is on the way to the creator
  (`Obeyed`).
  Without the exception (`Converged`) it fails, which is the run `groups_reorder`.
* `NetPolicy`.  In the theorems about the threads what a snapshot says plays no role:
  `Targets` and `Desired` stay unexpanded.
  `BcastFollows` rests on `BcastInv`: generations identify snapshots, and if the
  applied one is not the published one, a thread is about to hand that over.
  `MdnsFollowsAlone` rests on `MdnsInv`: while nothing excuses mDNS, at most one
  thread is about to tell it, and what it will tell is right.
  `Stealth`, `Reach` and `BatchesAreRight` are about what the snapshot says.  The
  registry only ever publishes finitely many interfaces and lists of entries
  (`RegistryInv`, with `OsAssumption` and `LinesAssumption` about what the system and the
  user can give), and for any such snapshot the plans are right (`StealthyFact`,
  `ReachingFact`, `BatchRightFact`).  That rests on what the interval arithmetic computes:
  sorting orders (`SortedFact`), merging covers the same addresses with intervals that
  neither overlap nor adjoin (`MergeFact`), the search finds the one an address is in
  (`ContainingFact`), so that `Allows` and `CoversSubnet` are what they mean in sets of
  addresses (`AllowsCorrect`, `CoversCorrect`; the latter needs that merged intervals do
  not adjoin), taking subnets out leaves the rest (`SubtractAllFact`), and the
  enumeration has every address of disjoint intervals once, up to the cut
  (`CollectFact`).  Each of these is an induction over the list that is folded.  tlapm
  cannot use the library's induction theorems; `UpTo` says the same of a set of numbers
  and follows from `WFMin`, and for each fold there is a lemma that gives its intermediate
  results (`MergeFold`, `TakeOutFold` and so on).  A netmask is contiguous and a width
  is any natural number; that powers of two divide each other is proved, not assumed
  (`PowerDivides`).
* `FileTransfer`.  `OutcomeIsKept` has two halves.  That a row which says done belongs
  to a renamed file holds under every setting of the switches and is inductive once the
  events under way are included (`DoneIsDelivered`).  That a renamed file is recorded as
  done, unless the table missed it in a failed write or a restart, rests on `Goes`: control and data connection
  are used in an order (`Order`), and as long as an accepted transfer goes well nothing
  in the tables, in the channel to the pump or in the hands of the command can end it in
  another way (`Clean`).  What is on the disk plays no role.
  `WholeUnderName` assumes `~Overlap` and nothing about breaks, restarts and late
  answers.  It rests on `WholeInv`: files have no holes (`DiskShape`), at most one accepted transfer
  is under way (`Alone`), a transfer is accepted once and creates its file after that
  (`OneAnswer`), and what the reading thread has hashed is what the part file holds
  (`HashIsPart`), so that a checksum that fits speaks for the file.  With overlap `Alone` fails and the
  theorem with it, which is the run `file_overlap`.
  The safe halves of `SenderRowEnds` and `ReceivedRowEnds` say that nobody forgets a
  transfer: `SenderRowsAreHeld` and `ReceiverRowsAreHeld`, but for the transfers whose
  outcome the table missed: it met no row, its write failed, or the process ended first,
  after which nothing reconciles the tables.  A reader whose connection fell silent still
  holds its transfer, which is why this is only half.  The latter rests on `Held`: an offer waits
  in the channel, in its row or for the command that answers it, so that it gets one answer.
* `Shell`.  `TrayRight` rests on `Coming`: what the icon will show once the outcomes
  still to be carried out are, the main thread's first.  `QuietIsNotUnread` rests on
  `QuietInv`: whoever is muted in the cache is not unread, but for the one about to be
  unmarked; and nobody looked at is unread, unless the event of the focus is still to
  come; all this but for `stale`.  The only assumption is that `None` is no conversation.
* `History`.  `PagesComplete` is proved by induction on the pages read back.  `Reading`
  says what holds after each: what has been read is in order and stored, of the rows that
  were there at first only some before the first row on the screen are missing, and while
  there may be more, every page has added a row.  So there is no more after `Enough` pages,
  one more than there are ids, and then nothing is missing.  One page (`PageFact`) leaves
  out only rows before it and is full then, which needs that the cursor is in the same
  total order as the rows (`EarlierFacts`); with a cursor of the time alone the proof
  fails there.  It assumes that ids and times are numbered in their order and that a page
  has room for a row.
* `Connections`.  `TypeOK` is inductive with the shapes of the threads (`Shape`), with
  `CachedIsOurs` (a cached connection was dialled by this device and is open here),
  `HeldIsOurs` (so is the one a sender holds, and nobody else has it) and
  `RegisteredAreRead` (the table holds just the connections that are read).  `StragglersOnly` rests on `ChecksInv`: a connection
  on its way into a table was in range when it was checked, so that it is in range or
  the range has changed since (`CheckedOut`, `CheckedIn`); and once `enforce_scope` has
  been through a table, what is out of range there came later (`LateInCache`,
  `LateInTable`).
  `SentIsAccountedFor` is the safe half of `Delivered`: a message reported as sent is
  under way, read, or went with a connection that was closed over it or, unheard of when
  the sender looked, before it, and never just gone.
* `Ipmsg`.  `TypeInv` says where a datagram can come from and go to (`NetOK`: from us to
  a plain peer that is there, or to us), which `TypeOK` needs for the peers' lists, and
  that there are no more names than changes (`NamesAreMoves`).  `OfferIsHeld` is one of
  `Promises` (below).  `Farewell` rests on `StrangersKnowNothing` (a peer that
  is not there knows nothing of us) and `LastWord` (to a peer we took leave of no greeting
  is under way, and either it knows nothing or the goodbye is under way).
  `FoldersArrive` is proved for streams of any length, by induction on the entries read.
  The invariant `Fed` ties the receiver to the stream: what it has created is what the
  stream describes so far, and while it is reading its stack stands for the directories
  that are open (`Frames`).  Above the root it has one frame for each, with its path, and
  of the directories opened within the one at depth l just as many are still open as
  there are frames above l, which is why the receiver returns just when the stream does.
  The safe halves of `AckedIsStored` and `DownloadsEnd` are part of `Promises`: a text with
  a receipt is stored, waits in the channel, or is one of `missed` (`AckedIsUnderWay`), and
  an active file is being fetched, or its outcome waits in the channel, or it is one of
  `void` or `missed` (`AcceptedIsInHand`).  The latter needs `OneOffer`: an offer is on its way, in the channel or
  in its row, and only one of them, or a late offer would hide an outcome from the command
  that stores the answer after it.
* `Announce`.  `NoReplyStorm` rests on `StormInv`: the sender of an answer is in its quiet
  period in the step in which the answer is under way, and for the answer to an answer
  both ends are; a step only ends when nothing is under way.  `Pace` rests on `InPace`:
  for each device how long ago the last batch was is tied to where its loop is in its
  window (`InWindow`), to a batch it is about to send (`OnItsWay`), or to the end of the
  window (`AtTheNextEdge`).  It needs that every window lies between the rate limit and
  the last window, which `TimeAssumption` states and the code has (2, 4, 8 and 25 s
  against 1 s, with assertions at `announce.rs:355-358`).
  The safe half of `MembershipHeals` needs no fairness and no bound on faults: no
  interface stays joined once the loop has seen it go, and none that is still there is
  left again (`MembershipMends`), so that a join that fails is only a delay.  That of
  `NameSpreads` is `NamesAreTheirs`: the encoded announcement is that of the settings, and
  nothing that is under way or was heard is ahead of them.

Only model-checked: everything under fairness, which is out of the prover's reach
(`PresenceFollows`, `Delivered`, `NameSpreads` and the others of the runs' temporal
properties, but for the refinement of `GroupLedger`).  For most of them a theorem states
what holds at every moment on the way: `OnlineIsTimed` for `DeadGoesOffline`,
`ScopeRespected` for `OutOfScopeIsEvicted`, `SentIsAccountedFor` for `Delivered`, and those
named above; for `PresenceFollows` and `SendReturns` there is none.
`WholeUnderName` is proved, and checked, only without overlapping transfers; the run that
expects a violation shows it failing with them, as `groups_reorder` does `Converged`.

## Where the code departs from what it says

Each of these has a run and an entry in PROJECT.json: a removed member joins again
on an older table; two transfers of one name publish a truncated file.

Met while modelling, visible in the models when the switches are set or the property
named is checked, but without a run of their own:

* `Presence`: a dial-back that outlasts PEER_TIMEOUT (`core.rs:1652`) brings a peer back
  that has expired; it has no last-seen time and no scan marks it offline again
  (`OnlineIsTimed` and `DeadGoesOffline` name it, as `outlasted`).
* `FileTransfer` with `LateAnswers`: an acceptance after the sender's 120 s timeout
  takes the offer, registers a transfer nobody starts and leaves the row active
  for ever (`ReceiverRowEnds` fails; `transport/manager.rs:953`).
* `FileTransfer`: a data connection that falls silent after FileStart leaves the
  receiver's thread in `read_exact` and the row active for ever: the time-out is lifted
  and there is no keepalive (`transport/manager.rs:267`; `ReceivedRowEnds` names it).
* `Connections`: a connection that was dialled or accepted under the old range comes
  into its table after `enforce_scope` went through it, and stays
  (`ScopeIsEnforced` fails; `transport/manager.rs:548`, `:741`, against
  README.md:35, 入站拒绝、出站不拨).  `StragglersOnly` says exactly which.
* `NetPolicy`: `sync_mdns_disabled` carries no generation; the roster thread's set,
  derived from an older snapshot, may overwrite the newer one
  (`core.rs:142-154`; the second way in which `MdnsFollows` fails).
* `NetPolicy`: a settings command that leaves the policy alone can be the first to see
  a new interface and publish it; it does not tell mDNS, and the roster thread finds
  nothing new any more (`core.rs:129`).  mDNS goes on announcing on an interface the
  range does not cover (`MdnsFollows` fails; `core.rs:125-130`).
* `Announce`: a snapshot noticed within a second of a batch is remembered in a local
  variable and forgotten if the window ends first; it goes out a window later, up to
  30 s, where `announce.rs:250-254` promises at most one (`PromptlyAnnounced` fails;
  `Pace` says when).
* `Announce`: a device whose interfaces are all excluded is said to be silent
  (`announce.rs:201-203, 405-410`), but a `poke` looks at the range only, and with a
  range the addresses on no local subnet are still sent to (`HiddenIsSilent` fails).
* `FileTransfer`: the sender's row is inserted after the thread
  that reports the outcome was started (`core.rs:887`); a quick rejection then
  updates nothing and the row stays active (`SenderRowEnds` names it, as `sMissed`).
* `Groups` with `Overlap`: a departure handled between the two locks of
  `update_group_members` (`core.rs:1063`) is lost and its version number used
  twice (`VersionDeterminesTable` names it, as `forked`).
* `Groups` with `Overlap`: `leave_group` and the pump write memory and row in
  different orders; the row can survive the departure and bring the group back
  at the next start (`RowMatchesMemory` names it, as `unsaved`).
* `filexfer.rs:127`: a part file with a wrong checksum stays and is resumed by
  every later transfer of the name; one as long as the file fails for ever.
* `Connections`: the message on a connection that another thread's replaces in
  the cache may be lost although it was reported as sent, and so is one written after the
  other end closed and before its FIN arrived, which `conn_is_dead` cannot see
  (`manager.rs:720`; `Delivered` names both).
* `Ipmsg`: accepting takes the offer out before the download begins.  If the peer is
  no longer listed the command fails and a second acceptance finds no offer, asks the
  native transport, which ignores it, and marks the row active for ever; so does an
  acceptance after a restart (`core.rs:912-926`; `void` in the model).
* `Ipmsg`: a text that was acknowledged is dropped if its insert fails, and the outcome of
  a transfer leaves its row as it was; either is only logged (`core.rs:1415`; `missed`).
  A stream of a folder with a header-size beyond the memory panics in its thread
  (`bigpaw-ipmsg/src/filexfer.rs:373`), which then reports nothing.
* `Ipmsg`: an offered file is registered after its packet was sent
  (`bigpaw-ipmsg/src/discovery.rs:710`): a peer that is quick is refused.  Registered
  files are never forgotten while the process runs.
* `Ipmsg`: `request_file` writes straight to the final name; a broken download leaves
  half a file there, over what may have been there before (`filexfer.rs` of
  `bigpaw-ipmsg`), unlike native transfers.
* `Ipmsg`: with a download under way `shutdown` finds the service shared and does
  nothing (`core.rs:1364`): no goodbye, the loops work on.  And an answer or entry sent
  after the goodbye, by a loop that has not seen the stop flag, lists us again
  (`Farewell` names who is spared).
* `Ipmsg`: a text sent again by its peer, because our receipt was lost, is stored
  again; a stream of a folder that ends between two entries, or with a header that makes
  no sense, is reported as done, and a file that was cut short stays there; a nickname with a colon shifts the fields of a packet,
  which is then dropped; `request_file` does not look at the network range.
* `Shell`: the event thread's outcome is carried out after a newer one of the main
  thread; the icon is then wrong until the unread set next becomes empty or ceases to be
  (`TrayRight` without `crossed`; `notify.rs:322`).  Settings and focus read before a
  change mark a conversation that is muted or open (`QuietIsNotUnread` without `stale`;
  `notify.rs:315`).  The settings page sends back the list of muted conversations it read
  when it opened, and so undoes what was muted or unmuted meanwhile.
* The badges of the list and the tray count apart: a message that arrives while
  `clearConversation` of `store.ts` waits is counted by one and not the other, against
  the comment at `src-tauri/src/lib.rs:351`.
* `storage.rs`: `history_around` orders the rows at and after the hit by time alone,
  so paging back from a window without an older row may show rows of that millisecond
  twice (`SearchRight` speaks of the rows before the hit).  `loadOlder` of `store.ts` does
  not keep a second call out while it waits for its page, and both put theirs in front
  (`ReadBack` reads one after the other).  The migration adds a column and raises `user_version` in two
  statements: a process that ends in between fails to open the database from then on.
* `settings.rs`: `save` empties the file before it writes; a save that fails half way is
  read as the defaults (`SaveFails`).
* `roster.rs:21-23` says that `Unreachable` is not overwritten by `Offline`;
  `Roster::apply` (`roster.rs:134-140`) does overwrite it.

## Not modelled

* TLS, certificates and byte layout (`identity.rs`, `transport/tls.rs`,
  `transport/proto.rs`, the packets of `bigpaw-ipmsg`): a connection's peer is taken as
  authenticated, a frame as a record.
* The mDNS daemon, a library: what is left of `discovery/mdns.rs` translates its events.
  Those are the sightings and goodbyes of `Presence`, the exclusions are in `NetPolicy`.
* In the registry, the affinity order of dials and the interface list of the settings
  page: they order and show, and decide nothing.
* In storage, text search, clearing and the migration, which runs before any thread.
* Settings without an effect on another part; log rotation; the updater and packaging.
* In the shell, painting the icon and wording the notification; the React UI, whose
  buttons are guards of the commands.  Progress events and texts of messages carry no
  state that a property depends on.

## Plan

The models of the threads, the transfers, the groups, the connections, the
announcements, the old protocol and the reminders are there, and every invariant of a
state machine is proved.  What is left, in order:

1. Proofs: what holds on the way to `PresenceFollows` and `SendReturns` (a thread that
   waits for a handshake has a connection whose other end is there or will be seen to be
   gone).
2. Models: the badges of the list against the tray; the rows of transfers that were
   active when a process ended; a peer that freezes with a connection open.
