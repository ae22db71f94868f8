# A verification project for the ARM9 energy-data concentrator

The program (`src/src`, `src/include`; C, GBK-encoded) runs on an ARM9 board. It
reads electricity, heat and water meters over RS485 and M-Bus, keeps the readings
in a sqlite database and reports them as XML documents over a GPRS module to a
server, whose commands it executes. It is a dozen POSIX threads that talk through
semaphores, global variables, byte queues, rings of XML files and database rows.

The project models the part in which those threads can get in each other's way:
the path of a document from the thread that wants it sent to the GPRS module, the
ring files, and the report/resume logic on top of it.

## 1. Inventory

| component | state | operations | talks to |
|---|---|---|---|
| **XML file rings** (`misc.c` XMLFileInit, `tasks_up.c`, `xml.c`) | `XML_FILE`: files, `writepos`, `readpos`, `sem_read`, `sem_write`; two instances | fill, commit, publish, wait, read, advance, release | receiver -> `XML_main_proc`; report builder -> sender |
| **Uplink** (`tasks_up.c`, `gprs_mana.c`, `xml.c`) | `Xml_Send_Sem`, `ReportUp_Sem`, `UpSend_Sem`, `GprsMana_Sem`, `gGPRS_XMLType`, `gUpCommMsg.GprsGvc`, `gGPRSBusy`, `gGprsRunSta.Ready` | request, build (`makexml`), send, link check | three requesters, builder, sender, manager |
| **Report delivery** (`CommandDeal.c` CommandDeal_main_proc, report_data, continuous_data) | `ReadTime_Queue_Table`, `gGPRS_Send_Succ_Flag/Sem`, `Xml_Continuous_Sem`, `g_uiDataDealStatus` | report, resume, store, delete | timer, uplink, server |
| **Server commands** (`xml.c` parserxml, `CommandDeal.c` CMD_ReviceXMLData) | configuration, answer globals, file-transfer flags | one case per command | uplink, report delivery, database |
| **GPRS link manager** (`gprs_mana.c`) | `gGprsRunSta` counters and watchdogs, `Sequence_XML_sem`, `Result_XML_sem` | module start, login, heartbeat, check, restart | uplink, AT channel |
| **AT command channel** (`gprs.c`) | `GprsXmzSem`, the AT device | matcher of answers, IPSEND, IPCLOSE, GETIPDATA | byte queues |
| **Byte queues** (`queue.c`, `commap.c`) | `DataQueue`, one semaphore per device | write, read, flush, wait for room | serial reader -> document reception, AT channel |
| **Document reception** (`commap.c` UpGetStart, UpGetEnd, `tasks_up.c` TaskUpRecGprs) | matcher position, `gGprsRec` | find head, find tail, hand over a file | byte queues, receive ring |
| **Metering cycle** (`Centre_Controller.c`) | `g_uiReadMeterStatus`, `gReadingDate`, the REPORT row | timer, RS485 pass, M-Bus pass | meter protocols, report delivery |
| **Meter protocols** (`Elect97.c`, `DELU_Heat_Meter.c`, `WaterMeter.c`) | static analyser state | request, byte-wise frame analysis, timeout | serial ports, database |
| **Conversions** (`publicfunc.c`) | none | BCD, hex, calendar | everybody |
| database, serial ports, test programs, vendored headers | | | not modelled, see section 7 |

### What is hard, and what makes each part correct

* **Rings.** The writer creates the file at `writepos` *before* it waits for a free
  file (`tasks_up.c:241` and `252`). Correct: it never truncates a file that waits
  or is being read; nothing is lost, repeated, reordered; the reader sees one
  document from its first packet to its last.
* **Uplink.** What is to be sent is a global; the turn is taken by one thread and
  given back by another; a wake-up does not say what it is for; wake-ups are
  discarded while the module is not ready; a flag is cleared after the post that
  lets the other side set it again. Correct: one turn, the document built is the one
  asked for, wake-ups match work, the sender and the manager never wait for
  something nobody will do, the turn comes back.
* **Report delivery.** Success is inferred from a semaphore that other documents
  post too, from an acknowledgement without a name and from a flag two threads
  write. Correct: a reading taken on is not forgotten, a row is deleted only when
  *its* readings were acknowledged, the thread always gets ready for the next round,
  and it never keeps the turn or gives it back twice.
* **Server commands.** Answer payloads are globals filled before the turn is taken; the
  marks of received packets outlive their transfer; answers do not say what they
  answer. Correct: the file that is executed is the file that was sent, and after a
  transfer reports are sent again.
* **Link manager, AT channel.** Start-up and sender may use the AT device together;
  semaphores are re-initialised that nobody waits on; counters decide on restarts, and
  three threads feed or reset them. Correct: the serial line has one user, "connected"
  means that the server has agreed, a healthy link is not restarted, a dead one is.
* **Byte queues, reception.** Announcements are made once and may be flushed; posts
  are counted by answer and waits by byte; matchers restart at index 1; bytes are
  left over after a timeout. Correct: a document arrives byte for byte, the reader
  never sleeps on bytes, nobody listens in vain.
* **Metering cycle.** One status word handed around three threads; a timer that does
  not ask whether the round is over.

`PROJECT.json` lists these hazards line by line with the properties that watch them,
or with the reason why none does.

## 2. Plan

In the order in which they were written:

1. `DocFifo` (abstract) and `XmlFileRing`, which implements it, with proofs.
2. `DocumentService` (abstract, on `DocFifo`) and `Uplink`, which extends
   `XmlFileRing` and implements both the ring and the service, with proofs.
3. `ReportDelivery`, which is composed with `DocumentService` in place of `Uplink`,
   with a proof.
4. `MeterCycle`, the round before the report, with proofs.
5. `ByteFifo` (abstract), `DataQueue`, which implements it, and `DocumentReception`,
   which extends `DataQueue`: the way in, from the module's answers to a file; with
   proofs.
6. `GprsLink`: the manager's start, login and supervision, the serial line and its
   three users, the counters that decide on a restart; with proofs.
7. `FileTransfer`: how the server sends a file over all this; with proofs.

Left, should the project go on: the server's real-time reading of a meter beside
`MeterCycle`'s passes (the bus semaphores), REPORT told from REPLY between
`MeterCycle` and `ReportDelivery`, and the frame analysers of the meter protocols as
functions.

## 3. Modules

| module | models | code |
|---|---|---|
| `DocFifo` | what a ring promises: bounded FIFO of whole documents, looked at, then removed | abstract |
| `XmlFileRing` | both `XML_FILE` rings: one action per statement that another thread can see | `misc.c` 229-262, `tasks_up.c`, `xml.c` 862-916 |
| `XmlFileRingProofs` | section 5 | |
| `DocumentService` | what the uplink promises: take the turn, ask, post or withdraw; the document asked for is built; documents leave in order | abstract |
| `Uplink` | `ReportUp_main_proc`, `GPRS_Upsend_main_proc`, `GPRS_Mana_main_proc` and the three requesters (`pc`) | `tasks_up.c` 45-273, `gprs_mana.c` 156-431, `CommandDeal.c` 408-427, 842-913, `xml.c` 438-860 |
| `UplinkProofs` | section 5 | |
| `ReportDelivery` | timer's two steps, `report_data`, `continuous_data`, the sender's notification, the server's acknowledgement, link and reboot | `CommandDeal.c` 795-1048, `Centre_Controller.c` 421-509, `tasks_up.c` 95-157 |
| `ReportDeliveryProofs` | section 5 | |
| `MeterCycle` | the timer, the RS485 and the M-Bus pass, QUERY and login, the loop of `CommandDeal_main_proc`; both status words | `Centre_Controller.c` 128-170, 218-357, 421-504, `CommandDeal.c` 391-397, 795-825, `gprs_mana.c` 330-336 |
| `MeterCycleProofs` | section 5 | |
| `ByteFifo` | what a byte queue promises: bounded FIFO of bytes, flushed at will | abstract |
| `DataQueue` | `queue.c`: memory, two pointers, a count | `queue.c` 58-245, 487-500 |
| `DocumentReception` | `Fun_GprsIpd_xmz` byte by byte, `UpRecQueueWrite`, `UpGetStart`, `UpGetEnd`, `OSSemPend`, `TaskUpRecGprs` | `gprs_mana.c` 37-98, `gprs.c` 310-360, 642-731, `commap.c` 47-166, `misc.c` 98-121, `tasks_up.c` 170-223 |
| `GprsLink` | `GPRS_Mana_main_proc`, `ConnectConfirm`, `GPRS_Upsend_main_proc` and `Fun_GprsIpd_xmz` as users of the line | `gprs_mana.c` 37-98, 156-224, 290-431, `gprs.c` 516-549, 659-850, 909-946, 1114-1358, `tasks_up.c` 57-154, `CommandDeal.c` 333-359 |
| `DataQueueProofs`, `ReceptionProofs`, `GprsLinkProofs` | section 5 | |
| `FileTransfer` | `FILE_TRANS`, `PACK_LOST`, `TRANS_REQ`, `CMD_TransFile`, the two answers `makexml` builds; the server and the network as external | `CommandDeal.c` 27-33, 258-324, 446-555, 739-772, `xml.c` 675-693, 836-851 |
| `FileTransferProofs` | section 5 | |
| `MC...` | constants for TLC | |

Variables have the names of the C globals. The program counters stand for positions:
`Uplink` has `pc` (requesters), `rpc` (builder), `spc` (sender) and `mpc` (manager);
`XmlFileRing` has `writer` and `reader`; `ReportDelivery` has `pc` (`r...` inside
`report_data`, `c...` inside `continuous_data`), `spc` (sender) and `opc` (the other
requester); `MeterCycle` has `timer`, `com485`, `mbus`, `setter` (the three threads that
set a bit) and `deal`. A semaphore is a natural number; `sem_wait` is a guard and a decrement,
`sem_post` an increment, each a step of its own where another thread could see the
difference. Statements only the own thread can see are joined with the next one.

How they are composed: `Uplink` EXTENDS `XmlFileRing` - the builder's and the sender's
steps on the ring *are* the ring's actions, joined with their own move, so that
`UplinkUsesRing == RingSpec` says that the uplink uses the ring as the ring's own
specification assumes. `Uplink` then implements `DocumentService` under the mapping
`Turn`, `AskedFor`, `OnTheWay`, `loaded` (the document joins the channel when it is
written, before the slot is owned, hence a capacity of `XML_BUF_FILE_NUM` and not one
less). `ReportDelivery` EXTENDS `DocumentService`: what it shows of the deal thread
holds for every uplink that implements the service.

`MeterCycle` is the part before `ReportDelivery`: what it calls `reported` is what
`ReportDelivery`'s `NoReadingLost` starts from. Its `ReportData` and `DealResume` are
`report_data` and `continuous_data` in one step each. An update of
`g_uiDataDealStatus` is a load (`LoadStatus`, `DealLoad`) and a store (`SetBit`,
`DealClear`, ...), as the compiler makes it of `|=` and `&=` on a volatile word; the
register (`loaded`) is emptied after the store because nobody reads it again. Two
ghosts name what the properties are conditional on: `raced` (a store has hit another
thread's update) and `untimely` (a round began before the last one was over and
reported, or the buses were read before the timer had written its two rows, which
takes it no 12 s). Both stay set. A meter is `polled` when it has been asked, and
an answer is stored under the date of that moment; a meter that does not answer has no
reading in any round. `gReadingDate` is one value, not a text being written: a
reader in the middle of the timer's `strcat` exists in untimely rounds only.

What `ReportDelivery` leaves out of that: wake-ups dropped while `Ready` is FALSE
(they only delay documents until the ring is full, see `Uplink`), and the readings
themselves. `g_uiDataDealStatus` and `Xml_Deal_Sem` are a wake-up that may come at any
time: with racing updates of that word, which `MeterCycle` shows, nothing narrower
would be safe to assume.
`CMD_CreateMeterData` always returns 0, so the early returns behind it are never taken;
a failing select acts like an empty one (`ReportNoRow`). REPLY is REPORT: the
sender tests for both alike.

`DocumentReception` EXTENDS `DataQueue`: every byte the receiver writes and the
matchers read *is* an operation of the queue, so that `QueueIsFifo` is shown of the
queue alone and of the queue in its place. `rx` is where `Fun_GprsIpd_xmz` is, `task`
whether `TaskUpRecGprs` looks for a head, a tail, or hands the file on (one step; it is
`Commit` and `PostRead` of the ring). `Text` is `strlen`: a byte 0 in the buffer ends
what `fwrite` is given. `len` has no initial value in the code and any value of
`Garbage` here; a failed read leaves it, and what the buffer held, as they were. The
ghost `spoiled` says that bytes of the server were lost or others put in.

`GprsLink` looks at the same threads as users of one serial line: `mana`, `snd` and
`rcv` are the places of the manager, the sender and the receiver. `docs` are the files
ready to be sent, `inbox` what the module holds, one entry per answer. A use of the line
is its begin (`sem_wait(&GprsXmzSem)`) and its end with an outcome; the retries inside
`GprsIPSEND_xmz` and `CMD_AT_RP` belong to the outcome. `SEQUEUE_XML` and `RESULT_XML`
are the elements of `QueueSems` that `OSSemPend` waits on. The semaphores
`ConnectConfirm` initialises again are the originals these were copied from
(`commap.c:41-42`): nobody waits on them, and they have no variable.

`FileTransfer` has `cmd` for the place of the command thread and `rpc` for that of the
builder. A mark in `gPacketReceiveFlag` carries the number of the transfer that made
it, a ghost in place of `0xaa`, and is `Spoilt` once a packet that was marked has come
again and could not be written whole; `file` says of every packet in `transfile` whose it is
and whether its bytes are right. The server is the one the handlers are written for:
start, packets, question, the missing ones again, end; what is not answered is repeated.

## 4. Runs

| run | shows | bounds |
|---|---|---|
| `xml_ring` | the ring as `DocFifo`; slots conserved; the writer off unread files; the file stable under the reader; every placed file is read | 4 files, 2 documents: positions wrap, all three usable files fill, the writer waits in front of the reader |
| `uplink` | turn, wake-ups, link check, halting, both refinements, and that the turn comes back | 3 files, so that two documents wait and `writepos` wraps; types merged where nothing depends on them |
| `delivery` | turn and resume loop in a hostile environment | 2 rounds, 1 report, 2 packets, 1 other document, 1 late acknowledgement, 1 loss of the link, 1 reboot |
| `delivery_calm` | nothing lost, nothing deleted unacknowledged, the thread comes back | 2 rounds, 3 reports (so that two rows and a repeated row occur), 2 documents in the uplink |
| `delivery_failing` | violation: a failed report is not kept | as above, a packet may fail |
| `delivery_late` | violation: a late acknowledgement deletes another row | as above, timeouts at any time |
| `cycle` | no request slept on; reports of whole rounds; rounds reported | 2 rounds, so that one overruns the other; 1 query or login beside the M-Bus thread and the deal thread; 1 and 2 meters |
| `cycle_race` | violation: a round that is not reported | 1 round, 1 request |
| `reception` | the byte queue as `ByteFifo`, the matchers, the wake-ups, the announcements; documents whole, in order, all of them | 2 documents of 6 and 5 bytes, the first with a `<` in its body; answers of 5 bytes, more than 4 start the reading mode; pieces of 6; a queue of 8, which does not hold both; a buffer of 5; 1 failed read, vain listening or timeout |
| `link` | who uses the line; what a login is; what counts against the link; a dead link is started anew | 2 login attempts, all cycles 1, 1 file, 1 answer in the module, 1 answer left over, 1 fault |
| `link_dead` | violation: a link that stays dead | the same |
| `transfer` | the file executed is whole; reports are sent again | 2 transfers of 2 or 3 packets, a list that ends after 2 entries (so that a 3-packet file needs a second list), 3 documents on the way, 1 fault |

`CHECK_DEADLOCK FALSE` stands in the configurations of `Uplink`, `MeterCycle`,
`DocumentReception`, `GprsLink` and `FileTransfer`. The reception stops when all documents
of the bound have been received, the transfers when all have been made or the process
has ended; the link when `GprsXmzSem` is lost (`Halted`). A
metering cycle stops when the last round and request of the bound are worked off, or
for good when a bus thread could not open its device and returned. The uplink
really can stop for good once restarts of the module have taken the wake-up of every
file (`XML_BUF_FILE_NUM - 1` of them, 14 in the program). `HaltedOnlyByDrops` says
that this is the only way; `TurnComesBack` is stated up to it.

**Bounds.** `MaxRounds` and `MaxRequests` are in the guards of `MeterCycle`.
`MaxTime`, `MaxReports`, `MaxOthers`, `MaxPackets`, `MaxAcks`, `MaxDowns` and
`MaxReboots` are in the guards of `ReportDelivery`; `Uplink` and `XmlFileRing` have
no bounds besides the size of the ring, their state is finite. A packet count of 1
already has the races about `gGPRS_XMLType`; the second adds left-over posts.
`MaxTroubles`, `MaxFaults`, `MaxFiles`, `MaxInbox`, `MaxPosts`, `MaxNet` and
`MaxTransfers` are in the guards of the three later modules. Counters that the code only
compares with a limit stop at it (`Saturated`). One fault is enough for what the link's
properties are about: each exception named in `Halted` and `DeadLinkRestarted` needs one.
In `GprsLink` one file keeps wake-ups and files together; what more files add, wake-ups
for another document than the one that gets sent, is the matter of `Uplink`. All
safety properties of the passing runs are proved for every value of the constants (those of
`delivery_calm` and the second half of `DocumentsIntact` under the assumptions section 5
names); their bounds matter for liveness only. The inductive invariant of `FileTransfer` was also checked with one transfer and
four faults, two transfers and three faults with files of 1 and 2 packets, and three
transfers and two faults, which is too long for a run kept with the project.

**The calm environment.** `Calm` stands for what the program relies on and does not
enforce: a metering round, a query or a change of the link finds the uplink at rest,
and the 60 s of a wait are over only when nothing is on its way any more. The
uninitialised `ts.tv_nsec` in both waits (`CommandDeal.c:916-917` and `1010-1011`)
breaks even that: without `Calm` a timeout may come at any moment. The two
violation runs drop one assumption each.

**Assumption on time in `Uplink`.** `AskCheck` has the guard `spc # "checked"`: after
a link check the sender has one assignment left (`GprsGvc = FALSE`,
`tasks_up.c:88`) while the manager sleeps for 10 s and sends a heartbeat before it
asks again. Without it a check could be cleared away and the manager would wait for
ever; the guard names the assumption.

**Fairness.** A thread that is not blocked goes on: POSIX threads of equal priority
on a preemptive kernel, so every thread's steps are weakly fair. No fairness is
assumed for what need not happen: a request, a round, a query, the link coming up, a
restart. The sender's transmission ends because `GprsIPSEND` waits with timeouts
only; that is the fairness of `SendPacket` while the file has not been read, and of
`SenderNext`. `sem_timedwait` makes the waits of the deal thread fair. Semaphores need
not be: no liveness property depends on which waiter gets the turn. In `MeterCycle` the
timer's handler, once begun, ends; no round, query or login has to come.
In `DocumentReception` the network brings what was sent (`Module`) and both threads run;
reads need not fail and announcements need not be missed. In `GprsLink` the three threads
run; an exchange ends, well or not, because every wait in it has a timeout, and how it ends is
not fair: nothing makes exchanges succeed. `SF(SenderTakesLine)` holds because the receiver sleeps for
an eighth of a second between two uses of the line (`gprs_mana.c:59` and `82`), `SF(Manager)`
because a requester that waits for the turn or a file is not passed over for ever. In
`FileTransfer` the program's threads run, the turn is handed on (`SF(TakeTurn)`), the
manager logs in again, and the server sends and repeats; nothing makes it begin, and it may
give up.

## 5. Proofs

All are for every value of the constants (ring size at least 2, any types,
documents and bounds); none assumes anything but the named `ASSUME`s of the modules,
except the two delivery theorems and `DocumentsAreIntact` below, which state what they need.

* **Ring** (`XmlFileRingProofs`). The inductive invariant `RingInv` is the types with
  `SlotsConserved`: the semaphores count the distance of the two positions. From
  `Unread <= XML_BUF_FILE_NUM - 1` follows `RingWriterOffUnread`, and with it that
  `WriteFile` does not touch the reader's slot (`RingReadIsStable`). The refinement
  `RingImplementsFifo` maps the slots between the positions to a sequence: `Commit`
  appends, `AdvanceRead` removes the head, everything else stutters. The slot
  arithmetic modulo the ring size is in `FollowingIs` and the lemmas before it.
* **Uplink** (`UplinkProofs`). `UplinkInv` is `RingInv` with `TurnConserved`,
  `WakeupsBalanced`, `CheckHandshake` and `BuiltAsAsked`, and two conjuncts that no run
  checks for their own sake: `Places`, which ties the threads' places to those of the
  ring, and `AskedIsNext`, which says that the globals still hold what was asked for
  while the turn is not back. Each of the properties alone is not inductive: the
  balance needs to know that a file is counted from `Commit` to `AdvanceRead`, and
  `BuiltAsAsked` needs that nobody else holds the turn. `SenderNotStranded`,
  `HaltedOnlyByDrops` and the type invariant follow from it. `UplinkRefinesRing`
  carries the ring's theorems over.
* **Service** (`UplinkProofs`). `UplinkImplementsService`: every step of the
  uplink is a step of `DocumentService` or a stutter. The delicate one is `MakeXml`,
  which is `Build` although the slot is not owned yet: the sequence `OnTheWay` is the
  ring's plus the file written ahead.
* **Delivery** (`ReportDeliveryProofs`). `DeliveryTurnHasHolder` and `DeliveryTypeCorrect`:
  `TurnHasHolder` with the range of `turn`, and the types, are inductive for calm and hostile
  environments alike. `DeliveryDeletesAcked` assumes `Calm`, which run `delivery_late` shows it
  needs; packets may fail and the program may reboot. Its invariant `CalmInv` follows a document
  from the moment it is asked for: what is in the uplink is what was asked for last
  (`AskedInv`), an acknowledgement on its way is for a document delivered (`AckInv`),
  the success flag seen by `continuous_data` is its own (`FlagInv`), and the sender is at rest
  while `report_data` has nothing on the way (`QuietInv`). `DeliveryLosesNothing` assumes
  `~MayFail` and no reboot as well: run `delivery_failing` shows the first, and a
  reading not yet in the database does not survive the second. `KeptInv` is
  `NoReadingLost` with the places where `report_data` alone knows the reading, and with what
  the flag it finds at its timeout says about the document.

* **Metering cycle** (`MeterCycleProofs`). `CycleWakeupForBits` holds of all interleavings,
  lost updates included: `WakeInv` says that a bit set behind the place where the deal
  thread looks for it, in the word or in the register it is about to store, has its
  post. `CycleReportedComplete` needs `RoundInv`, where the round is and which meters have
  been asked, and `DueInv`: while a report is due the round stands still, and the bit is
  never left over when the next date is set. `ReportedComplete` alone says nothing
  of the round in progress. Both rest on `TypeInv`, the types with `Begun` and `MbusSets`.

* **Byte queue** (`DataQueueProofs`). The invariant is the types with `PointersAgree`: the
  count is the distance of the pointers. Then the place written to is the one behind the
  youngest byte, and `QueueImplementsFifo` maps the bytes between the pointers to a sequence.
* **Reception** (`ReceptionProofs`). `ReceptionQueueIsFifo` carries that over: every step of
  the reception is a step of the queue or leaves it alone. `ReaderIsWoken` is inductive
  with the types alone. `AnnouncementsSuffice` needs `AnnouncedInv`: wherever the receiver
  is about to listen (also while it still works on an empty answer) and has read without
  error, bytes in the module have their announcement. That is why flushing is
  harmless: it happens only where the next thing is a read. `MatchersMissNothing` is for
  all texts whose first byte does not occur in them again (`TextsAreBytes`; both of
  the code's do). Its invariant `MatchInv` says that all but the first of the bytes counted
  as found are the last ones seen, and that no longer such match exists; this is what
  makes going on with index 1 right, and what a pattern like `aab` would break.
  `DocumentsInOrder` and `DocumentsAreIntact` follow every byte from the server to the file.
  `IntactInv` says that the text sent can be cut into the documents (`Cut`) and that there is a
  place in it before which all has been read: what is behind is in the queue, in `gRecBuf`, with
  the module or on the wire, in this order and nowhere twice (`Flow`). The place is
  in a certain document, before the end of its head, between its head and its end, or at its
  end, according to `task` (`Where`), and the file and `gGprsRec` hold what lies between its
  beginning and the place (`Gathered`). Each matcher step needs both halves of `MatchInv`: a
  match that is not the head or the tail of the document would contradict `BodiesArePlain`, a
  missed one `~Occurs`. `strlen` gives what was put in because no byte of a document is 0 and
  the last byte of `gGprsRec` always is; that is why `j` wraps one before `RecSize`.
  Without a timeout the files handed on are the documents, in order and byte for byte
  (`DocumentsInOrder`, no assumption). After a timeout the next head is looked for in the midst of
  the abandoned document. Then `DocumentsAreIntact` assumes `HeadsArePlain`: a
  document has `?xml version` at its beginning only, as every XML document does. The assumption
  is needed: TLC finds, for a body that contains a head, a timeout before it after which
  a file begins that is no document. The run's bodies meet it (`MCHeadsArePlain`), and TLC checked
  `IntactInv` on the instance of `reception`, also with two troubles and with a queue of
  20, before it was proved.
* **Link** (`GprsLinkProofs`). `LinkInv` is the types with six parts: the check is asked for
  once and answered once (`CheckInv`), wake-ups do not outnumber documents (`WakeInv`), the line is
  free, used by one or lost (`LineInv`), a start of the module overlaps at most the use
  the sender was at when `Ready` became FALSE (`IntrusionInv`), every result on its way
  comes from an accepted login (`LoginInv`), and without a fault the counters count
  empty packets only (`HealthInv`). None is inductive alone: `LoginInv` needs the
  module's loss of its memory at a start, `HealthInv` that a use which failed without a
  fault was the intruding one. `LinkInv` was checked by TLC on the instance of `link` first.
* **File transfer** (`FileTransferProofs`). `TransferInv` rests on the order of the way to the
  program: every document has a rank (its transfer, then start, packets and questions, end),
  ranks never decrease along the way, and what the program has taken is behind (`Past`)
  for good (`OrderInv`). `FileInv`: a mark of a transfer tells what the file holds until the
  next one begins. `ListInv`: an empty list means that every packet is marked. `AskInv`
  carries that over the turn, the builder and the answer to the server: an empty answer
  still in force implies that all packets are marked, and an answer that is not empty, that
  the total is the right one. Hence an end is only sent, for the first time or again, when
  all packets are marked or the file is gone (`EndInv`), and `WholeInv`, the property from
  the first step of the end on. From the moment the server has taken an answer
  to another transfer (`misled`) only the first three are claimed.

Only model-checked: `EveryFileRead`, `TurnComesBack`, `DealComesBack`,
`RoundReportedUnlessRaced`, `EveryDocumentHanded`, `DeadLinkRestarted`, `ReportsResume`
(liveness under fairness is out of the prover's reach).

## 6. Findings

1. A report whose packet failed counts as delivered and is not kept
   (`CommandDeal.c:918-925` against the comment at 928). Run `delivery_failing`.
2. A late acknowledgement deletes a row that was not acknowledged
   (`CommandDeal.c:1012-1032` against the comment at 1024). Run `delivery_late`.
3. A lost update of `g_uiDataDealStatus` takes a round's report with it
   (`Centre_Controller.c:289` against the comment at 288). Run `cycle_race`.

4. A receiver in the reading mode keeps the supervision of a dead link quiet
   (`gprs_mana.c:83` and `345-347` against the comment at 310-311). It feeds the dog with
   every read that fails; `len` keeps its last value, so that the mode is never left; the
   one check that is made sets `gGPRSBusy`, which only the heartbeat clears, and the
   heartbeat waits for the dog. The next restart comes only if three documents fail to
   be sent. Run `link_dead`.

The exceptions that properties of the later modules name are behaviours of the code too;
no text in the repository promises otherwise, so they are not findings:

* `Halted` (`GprsLink`): a garbled length over `MAX_REC_MC52i_BYTENUM` returns with
  `GprsXmzSem` taken (`gprs.c:713-715`).
* `LoginConfirmed`: a result left in `RESULT_XML` from an attempt that had timed out
  confirms the next login (`gprs_mana.c:182-187` empties other semaphores).
* `AtUseDisciplined`: one use of the line by the sender may overlap the start of the module.
* `AppliedWhole` (`FileTransfer`): marks left by an abandoned transfer
  (`CommandDeal.c:446`, `760`) let packets be skipped, and a packet that comes again and cannot
  be written keeps its mark (`CommandDeal.c:495-505`; both `carried`); a question asked before
  any packet of the transfer has come is answered for the total of the last one
  (`gPack_total # ending.total`); the second of two ends finds no file; a `Trans_ack`
  or a list that answers a transfer given up is taken for this one's (`misled`).
* `ReportsResume`: a server that gives up leaves `Connect` FALSE until the next login
  (`phase = "gone"`); a repeated end of an address file ends the process
  (`CommandDeal.c:275`); two questions that overlap give an empty list with a number
  that is not 0 (`ListTorn`: the server is told that packets are missing, but not which); the
  total of an earlier, longer transfer keeps packets on the list that do not exist.

Seen on the way and not run: the comment at `CommandDeal.c:937` asks to look whether
the time is already queued, the insert that follows does not (the calm run contains
such repeated rows, its properties hold with them); the resume's delete names only the
time, so the REPORT row of that time goes too (modelled in `ContDelete`).

## 7. Not modelled

* **Vendored headers and libraries** (`src/include/openssl`, `sqlite3`, libxml2): about 62 000 of
  the 74 000 lines that count as implementation are declarations of other projects;
  no model of this program maps to them, which is why the share of mapped lines is
  small whatever is modelled of the program itself.
* **Card reader and serial test** (`socket.c`, `comtest.c`): programs of their own, for
  other hardware.
* **Database schema and configuration**: table creation, loading, saving and removal of
  old rows; SQL without concurrency of its own, except `ReadTime_Queue_Table`
  (`ReportDelivery`). The configuration commands of the server copy fields and save them; as
  users of the turn they are requesters of `Uplink`.
* **Text of documents**: `parserxml` and `makexml` as conversions; a document is its type
  and its payload. Widths of the answer's fields (`pack_lost_index[50]`) and of
  `gPacketReceiveFlag[250]` are not modelled either, no more than totals the arrays do not hold.
* **Meter protocols**: the exchange with one meter is a step of `MeterCycle`. The real-time
  reading for the server and the bus semaphores are left out with them.
* **Dialogue with the GPRS module**: an AT exchange is its outcome; the byte-wise matching
  of answers (`GprsGetHead`, `GprsGetViaTail`) and the commands of `GprsInit_xmz` are not modelled.
* **Conversions and calendar** (`publicfunc.c`), serial port set-up, logging.
