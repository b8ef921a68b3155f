# Verification of NetworkLaboratory

TLA+ models of the programs in this repository, their TLC runs, and proofs of
the main results with TLAPS. The code is course work of two assignments: `TF`,
a program that answers DHCP on the local network and records the URLs it sees,
and `T1`, an ARP tool. `TF` is the larger one; everything below is about it
unless it says otherwise.

## 1. The system

`TF/Application.c` starts three threads in one process:

| thread | code | what it does |
|---|---|---|
| DHCP | `init_DHCP_server`, `dhcp.c`, `ippool.c` | waits for a datagram on port 67, reads its options, offers or acknowledges an address |
| main | `init_sniffer`, `ethernet.c`, `http.c` | reads frames from the packet filter, finds a URL or a DNS name in them, hands it to the url thread |
| url | `init_url_thread` | waits for a URL and appends a line to `urls.htm` |

`main` opens the capture device, starts the DHCP thread, locks the mutex, starts
the url thread and then sniffs; it goes on whatever of that fails. The DHCP
thread shares nothing with the other two, except that its failing
socket calls `exit` the whole process. The main and url threads share
`url_to_file`, `lst_ip`, the static buffer of `inet_ntoa` and `url_file_mutex`.

### Components, their state and what makes them correct

**DHCP server thread.** State: `cur_ip`, the table, the socket (opened, bound
and closed for *every* datagram), the datagram in hand. Operations: one case
per message type; DISCOVER offers the next address and stores it under the
transaction, REQUEST acknowledges the stored address (or the next one), then
stores the *next* one and increments `cur_ip`; all others print. Hard:
overlapping, repeated, lost and out-of-order handshakes; slots shared by
transactions; conversions in place; addition in network order. Correct when
addresses come from the counter, numbers are used once, offers are honoured,
replies carry the client's id.

**Address table** (`ippool.c`). A static array, cleared on first use, indexed
by the byte sum of the transaction id in a `uint8_t`; entries keep no id. Two
ids with the same sum share an entry.

**Options codec** (`dhcp.c`). Writes a struct as a list of (code, length,
value), reads such a list back into a struct. Hard: where options begin is only
known by walking over them with a `uint8_t` length, there is no bound but the
end code, and options without a case are stepped over one byte at a time.
Correct when reader and sender agree on boundaries and values and the reader
ends.

**Frame capture and sniffer** (`ethernet.c`, `http.c`, `init_sniffer`). State:
the device, one frame buffer reused for every frame, the source address of the
last IP frame. Hard: the buffer keeps what earlier frames left; one read may
return several packets; a failed read is the largest `size_t`; the scans have
no bound; the result of `eth_init` is ignored. Correct when what is announced
for a frame depends on that frame only.

**URL hand-over** (`append_url_to_file`, `init_url_thread`). The mutex is a
binary semaphore: `main` locks it once, the url thread locks it before each
line and never unlocks, the sniffer unlocks it after each URL. Hard: the copy
races with the reader; unlocks are absorbed; a wake-up must not be lost.

**ARP tool** (`T1/Old`). Main asks for two hardware addresses on a raw socket
and then sends two packages in turn forever; a thread with a raw socket of its
own is to print the ARP packages. Hard: every package is converted in place
around every send; answers have to be picked out of all traffic, without a
timeout; the thread can end while main goes on. Correct when what is on the
wire is in network order in every round, and the two answers are two replies.

**Text programs** (`TF/UDP`, and `sender.c`, `receptor.c` of
`T1/Specification&InitialSource`). Two pairs of a sender of one text and a
receiver that prints texts from one buffer for ever. Hard: the buffer is never
cleared, the UDP client sends no NUL, and the raw receiver's buffer also takes
every other frame of the link. Correct when what is printed is what the latest
texts left, and for the raw pair exactly the text sent.

**Not modelled.** Argument parsing and printing (`util.c`). The `T1`
application: it captures frames with a copy of `TF/ethernet.c`, which
`FrameSniffer` models, and does nothing with them; the target address it would
attack is never set, because its option string has no `-a`. `raw_eth_recv.c`:
it prints a header of each ARP frame and keeps nothing between two frames.
`urls.htm`, PDFs and binaries.

## 2. Modules

| module | models | state and actions |
|---|---|---|
| `Words` | 32-bit words as four bytes in memory order, `htonl`, addition with carries, masks, the slot of an id | operators |
| `IpPool` | `ippool.c` | `ippool`, `is_valid`; get and set, both with `lazy_init` |
| `DhcpServer` | the DHCP thread | `Listen` (socket, bind), `Receive` (recvfrom, conversion, close), `ReadOptions`, `Discover`, `Request`, `Ignore`, `Exit`; the environment sends `Arrive` |
| `LeaseBook` | abstract: what the DHCP thread promises | `Offer`, `Grant` |
| `NetworkLab` | the whole program: `main` and its three threads, composed of `FrameSniffer` (extended), `UrlHandoff` and `DhcpServer` (instances) | one action per call of `main`, the threads' steps, `Exit` of all |
| `DhcpOptions` | the options codec | one action per turn of the reading loop; the writer is an operator applied in `Init` |
| `FrameSniffer` | capture and parsing | `eth_init`, four outcomes of `wait_eth_frame`, one action per branch of the dispatch |
| `UrlHandoff` | main and url thread at the granularity of lock, unlock and each access to shared memory | eleven actions and `Exit` |
| `UrlMailbox` | abstract: a conflating mailbox | `See`, `Post`, `Take`, `Record` |
| `ArpTool` | `T1/Old`: both threads and their sockets | one action per call of `main` that sends or receives, `Fail`; the thread's `OpenRaw`, `ArpSnifferLoop`, `ReceiveFails` |
| `TextReceiver` | the UDP and the raw pair of text programs | `Send`, `SendOther`, `Lose`, one turn of the receiver's loop, `ReceiveFails` |
| `MC...` | values of the constants for TLC | |
| `Lemmas` | facts about words and addresses, natural numbers and joined sequences that several proofs cite | no state |
| `DhcpServer_proofs`, `DhcpOptions_proofs`, `UrlHandoff_proofs`, `FrameSniffer_proofs`, `NetworkLab_proofs`, `ArpTool_proofs`, `TextReceiver_proofs` | theorems and proofs of the module they are named after | |

`DhcpServer` extends `IpPool`, which extends `Words`. What `DhcpOptions` does
byte by byte, `DhcpServer` takes as an input: a datagram's options give
`i_opt.dhcp_msg`, or they have no end for the reader (`Endless`).

`NetworkLab` joins the rest. A frame that `FrameSniffer` inspects moves the
program counter of `UrlHandoff`'s main thread into `append_url_to_file` when the
parser found a URL, and no frame is read until that returns; `lst_ip` is one
variable of both; an `Exit` of the DHCP thread is an `Exit` of the hand-over.
On its own, `UrlHandoff` lets the main thread capture any later frame, with a URL or
without. That this is what the sniffer does is `ImplementsHandoff`.

### Correspondence and abstractions

* **The DHCP handler is two actions**, reading the options and the switch on the
  type. No other thread touches its state and its socket is closed while it
  runs. A datagram whose options have no end for the reader (a length of 254
  wraps to 0 in its `uint8_t`, `dhcp.c:201`, or there is no end code) never
  comes to the switch: the thread stays where it is for ever, or the reader runs
  out of its memory and the process ends (`Exit`). The order inside matters and
  is kept: the reply goes out before the table is written, and `cur_ip` moves
  last. A send that fails is `Exit`, before anything is remembered.
* **Addresses are bytes.** `get_cur_ip` adds `htonl(cur_ip)` to the network part
  on a little-endian host, so a carry runs from the first octet to the last.
  `AddWords` and `htonl` model that exactly. Header fields that are copied and
  never looked at are left out.
* **The mutex** is unlocked by a thread that does not own it. For the default
  mutex this is undefined by POSIX; on the platforms of the code it leaves the
  mutex free, held or not. `Unlock` models that.
* **URLs are frame numbers**, copied and read in two halves so that a race can
  tear them; `fprintf` reads the URL twice and then the address. `inet_ntoa`'s
  buffer is shared by both threads, as in the BSD C library the packet filter
  code requires.
* **The frame buffer** is a row of cells: a piece of text and the frame it came
  from. The copy is as long as the read but starts after the packet header, so
  it takes zeros, or the header and text of the next packet, along. Such a
  header holds a time, addresses and lengths: bytes of any value (`Headers`), a
  `/`, a space or an end of line among them, but at least one zero, because the
  microseconds of a time leave the last of their four bytes unused. Up to its
  first zero it continues the text of the frame in front of it for `strstr` and
  the scans, and can complete a request that the frame does not hold (`after`).
  Cells of no frame, zeros and headers, have `of = 0`. A parser that leaves the
  buffer, and a reader that leaves the options field, are in a final state of
  their own (`astray`, `lost`): what they would find there is not modelled.
* **ARP frames are numbers**: a frame's number is the sender's address in it. Of
  a package only the byte order of its fields is kept, because it is state that
  lives from one send to the next.
* **Exit.** `exit()` is one step. The other threads may run on until the process
  is gone; what they do until then comes before that step. What the url thread
  had formatted of a line by then is written (`rest`).
* **Texts** are lengths: each cell of a receiver's buffer holds a character or a
  NUL and the number of the reception that wrote it.
* `replies`, `last`, `lines[i].woken`, `posted`, `announced`, `woken`,
  `options`, `written`, `sent` (of the sniffer), `frame.after`, `log`, `wire`,
  `taken`, `covers`, `printed` are history variables: no guard reads them, with
  one exception, `sent`, from which the text of a waiting packet is taken
  (`frame.after` is only copied to `log`).

## 3. Runs

Every `cfg` says `CHECK_DEADLOCK FALSE`: datagrams and frames are bounded, the
reader ends, and the processes can exit, so each system really stops.

| run | what it shows | bounds |
|---|---|---|
| `dhcp_safety` | type; every address given was the next one for its slot (`AddressProvenance`); every number used by exactly one ACK (`OneAckPerNumber`); an offer never names an acknowledged address (`OfferNeverTaken`); different slots share an address only by overlap (`SharedAddressMeansOverlap`); the ACK honours the offer (`AckHonoursOffer`); ids survive the conversions (`ReplyNamesItsRequest`); refinement of `LeaseBook`; a REQUEST at the head of the buffer gets an ACK of its own, unless its options have no end or the process exits (`RequestIsAcknowledged`) | 5 datagrams of two types the thread answers, one it does not, or with endless options, 3 transactions of which 2 share a slot, socket buffer of 2: enough for two interleaved handshakes and a retransmission |
| `url_safety` | type; lines are never older than their wake-up (`LinesFresh`); one line per wake-up (`OneLinePerWake`); the last URL is saved whole (`LastUrlSaved`); refinement of `UrlMailbox`; every announcement is followed by a line at least as new (`UrlReachesFile`) | 3 IP frames, any of which the sniffer may skip: one conflated with the next, one torn, one without a URL |
| `options_safety` | type; boundaries (`Aligned`), values (`AgreesWithSender`, which leaves out the client id, and the router once a renewal time has been read: section 4), the round trip (`ReadsBack`), the end (`Terminates`) | all lists of up to 3 of 16 options, whose values contain option codes and one of which is cut short; 1,152 structs and one whose host name is too long |
| `sniffer_safety` | type; a request gives its own URL (`RequestGivesItsUrl`), other frames none, unless the header right behind completes one (`NothingGivesNoUrl`), a URL has no piece of another frame (`UrlIsOfItsFrame`), no frame twice (`FramesInOrder`), when the parser leaves its buffer (`StraysOnlyWhenCut`), the first frame that waits is inspected (`FirstIsInspected`) | 3 frames of 13 kinds, any of 3 headers between two packets (a character, a path, or an end of line, then a NUL and more), 2 waiting packets, 1 failed read: a request can be followed by two frames that reuse its buffer |
| `arp_safety` | type, the thread is in its loop exactly while the loop's socket is open, and a socket left open is behind a thread that ended before its loop (`raw = "leaked"`, a failed initialisation); network order on the wire in every round (`WireInNetworkOrder`); one reply does not answer both questions (`AnswersDiffer`); in every round the two packages go to the senders of two ARP replies, in order (`LoopSendsToAnswers`); a waiting reply ends the wait (`AnswerEndsWait`) | 3 frames of 4 kinds, queues of 2, failures anywhere; the rounds of the endless loop are not bounded |
| `lab_safety` | only what the parser announced, of frames that hold a request (with the header behind them), gets to the file, and addresses are those of IP frames (`OnlyRequestsInFile`); the latest request announced is never the one that is lost (`LatestRequestSaved`); the main thread implements the one of `UrlHandoff` (`ImplementsHandoff`); a request that waits in the kernel is followed by a line at least as new (`RequestReachesFile`) | 2 frames of 6 kinds, 2 headers, 1 DHCP datagram (a REQUEST or endless options), 1 failed read, either thread not created: a request and the frame that overwrites its buffer or its URL, with an exit at any point. What needs three frames in a row is left to the component runs and to the proofs |
| `text_safety` | type; what is printed is cell by cell what the latest text that reached so far left, and the text just received comes first and whole (`LineIsLatestTexts`); the raw receiver prints exactly the texts it was sent (`RawPrintsTheText`) | 3 texts or frames of up to 4 cells, a buffer of 3: longer, as long, and shorter than the buffer and than each other |
| `dhcp_unknown`, `dhcp_bound`, `url_saved`, `sniffer_captured`, `arp_printed` | violations: section 4 | the smallest instance that shows each |

Bounds are `CONSTANT`s: `MaxDatagrams`, `InboxCap`, `MaxFrames`, `MaxOptions`,
`StoreCap`, `TextCap`, `MaxFailures`; `Headers` and `Traffic` are small sets of the
bytes and frames that the parser tells apart. Symmetry is not used: transaction ids are
words whose bytes matter.

**Fairness.** The DHCP thread, the url thread and the main thread are blocked
only in `recvfrom`, `pthread_mutex_lock` and `read` (each once `main` has
created it), so weak fairness of each thread's steps is what the scheduler
gives. The ARP tool's main thread waits only in `recv`. A thread in the endless
loop of the options reader runs, but no action stands for its steps, which
change nothing that is modelled. No datagram or frame has to arrive, no call has
to fail and no process has to exit. The options reader waits for nothing.

## 4. Where the code and its comments differ

Checked by a violation run each:

* `UnknownHasNoAddress`: `ippool.h` says a lookup returns 0 if no address was
  found; a transaction with the same byte sum finds another's.
* `AckIsBound`: after a REQUEST the table holds the next address, not the one
  acknowledged. Two REQUESTs of one transaction, with no OFFER, show it: the first is
  acknowledged the next address, which the table then holds; the second is
  acknowledged that one again, and the table is overwritten with the address
  that is next by then. A third would be acknowledged another address.
* `AllUrlsSaved`: the mutex is to protect a file "that contains all urls"; a URL
  can be overwritten before it is written.
* `AllFramesCaptured`: only the first packet of a read is looked at, although
  the loop is there "so that all ethernet frmaes are captured".
* `ArpIsPrinted`: the ARP thread is to print "all fields of incoming ARP
  Messages"; it compares the Ethernet type without `ntohs` and prints none.

Noted while modelling, without a run: two handshakes that overlap are given one
address (`Application.c:182`: a DISCOVER does not use its number up;
`SharedAddressMeansOverlap` says that nothing else leads to it); a parameter
request list is read as options of its own and leads the reader out of the field
(`dhcp.c:167`; `Aligned` says for which lists it stays inside); replies go to
the server's port (`dhcp.c:88`); `cur_ip` may pass the host part of the network
or reach `my_ip` (`Application.c:64`); the flag of the requested address is
never set (`dhcp.c:377`); a renewal time is stored in `rtr_id` (`dhcp.c:212`);
`clt_id` is read from its hardware type on (`dhcp.c:204`), so the field of
`dhcp.h:65` has the type and five bytes of the address; times are written in
host order (`dhcp.c:341`); a host name of 254 bytes makes an option's length
wrap to 0 (`dhcp.c:201`), and the DHCP thread then hangs in the reader, as it
does for the other options whose length it takes from the datagram; the bytes of
the next packet's header can complete a request, so that a frame without a `/`
can be announced with a path made of them (`ethernet.c:95`); lines of `urls.htm`
can mix two URLs (`Application.c:252`); `set_addr_from_get_buf` returns 0, not
-1, on error (`http.c:30`); `eth_init` does not notice that binding failed
(`ethernet.c:71`); a DNS query for the root writes before an array
(`Application.c:311`); the results of `pthread_create` are only printed
(`Application.c:356`); the UDP "echo" server never echoes, and prints what
longer texts left behind a shorter one (`udp_server.c:64`). The models do what
the code does in each case. No property takes such a result for the expected
one: `AgreesWithSender` says nothing of `clt_id`, and of `rtr_id` only as long
as no renewal time was read; `ReadsBack` leaves names of 254 bytes or more out.

## 5. What is proved

All theorems hold for every value of the constants that satisfies the named
assumptions; TLC evaluates the assumptions in every run of the component.

`Lemmas`: `htonl` is its own inverse and keeps the slot; an address
determines its number (`AddressInjective`) as long as numbers fit in 24 bits,
whatever octets the network part has; an address is never zero. Its second half
is about joined sequences. The field of options and the packets of one read are
`FlattenSeq` of any number of pieces, a recursive function, so what is said of
it needs induction. The library's induction theorems take a predicate as a
parameter, which the provers cannot instantiate; `Induction` states the same for
a *set* of numbers and follows from the least element that the well-founded `<`
gives (`LeastOf`). With it, `FlattenJoins` shows that the recursive definition
has the solution one expects, and `FlattenAppend`, `FlattenPrefix` and
`FlattenFirst` give the three facts that the modules use.

`DhcpServer_proofs`, from `XidsAssumption` and `DhcpAssumption` (the netmask's
octets are masks, the network part does not begin with 0, numbers fit in 24
bits): type correctness, `AddressProvenance`, `OneAckPerNumber`,
`SharedAddressMeansOverlap`, `OfferNeverTaken`, `AckHonoursOffer`,
`ReplyNamesItsRequest` and `ImplementsLeaseBook`. The invariant `IInv` adds to
the properties: only a bound socket buffers, and enough numbers are left for
the datagrams on their way (`FlowInv`); a slot is empty or holds an address that
was the next one when its slot was answered (`SlotInv`); the same of replies
(`RepliesInv`); a pending offer whose slot is its own is in the table and not
zero (`OfferInv`). Without `SlotInv` the provenance of an ACK taken from the
table is lost, and without `OfferInv` an ACK could fall back to the counter.

`UrlHandoff_proofs`, from `MaxFramesAssumption`: type correctness, `LinesFresh`,
`OneLinePerWake`, `LastUrlSaved` and `ImplementsMailbox`, for any number of
frames. The argument is an order of numbers: `woken <= posted <= tail <= head <=
lst_ip` (`CopyInv`), and the mutex is free exactly while an announcement has not
been taken (`MutexInv`). From these the line being read (`LineInv`) and the file
(`FileInv`) are never older than their wake-up, and at rest the last line is the
last URL. The one delicate step is a line that was woken for the last URL: no
copy can have started since, so all its parts are that URL. `RestInv` carries
freshness over to a line that an exit cuts off.

`FrameSniffer_proofs`, from `SnifferAssumption` (frames have a kind and a text
that fits the buffer, the kernel stores at least one packet): `FramesInOrder`,
`TypeOK`, `RequestGivesItsUrl`, `NothingGivesNoUrl`, `UrlIsOfItsFrame` and
`StraysOnlyWhenCut`, for any traffic, any headers that hold a NUL, any number of
frames and any sizes. The first part of the invariant puts the log, the buffer
and the kernel's packets in one increasing order (`KernelInv`, `BufferInv`,
`LogInv`) and says that `lst_ip` is the number of an IP frame taken
(`SourceInv`). The second, `TextInv`, is about what is in the buffer: it starts
with the latest frame, cell by cell, goes on with the start of the header that
was read behind it (`frame.after`, empty for a packet read alone), and wherever
the buffer has room a NUL follows (`BufferHolds`). This is what ends the
parser's searches before anything older, and any URL before a cell of another
frame. The third, `FoundInv`, follows from `TextInv` alone, branch by branch of
the dispatch: where the searches for `/` and `Host:` stop in the buffer is where
these are in the frame and the header behind it, or nowhere, so what is logged
is right. `TextInv` rests on the order: what a cell should hold is looked up in
`sent`, so the frame in the buffer must be one that was delivered.

`DhcpOptions_proofs`, from `OptionsAssumption`: `TypeOK`, `Aligned`,
`AgreesWithSender` and `ReadsBack`, for option lists of any number of options
and values of any bytes. The assumption has the structs as the code declares
them (a client id of six bytes, addresses and times of four, a host name without
a NUL) and, as the one restriction, lists that fit the 312 bytes of the field.
Neither the program nor the model checks that; it is what the declaration of the
header promises, and without it the list would not be in the field at all. The
invariant `OptionsInv` keeps what was sent (`ListInv`, `WriteInv`), the sizes of
the struct's fields (`OptInv`) and, for a list that is readable, *how many
options have been read* (`WalkInv`): the reader is at the end of the `i`-th
option, or inside the next one, which then is one it has no case for, and in
both cases the struct holds what the first `i` make of it (`Holds`, in
`IsAfter`; it has all the fields, also the ones of which `AgreesWithSender`
claims nothing). `Aligned` alone is not inductive, because inside an option
without a case the reader's next step depends on where it entered it, and
`AgreesWithSender` says nothing of the places between two boundaries. `Layout`
says where the bytes of the `i`-th option lie in the field and `LastAppended`
what one more option does to the last value of a code; `Turn` then shows that
one turn of the loop reads one option more or moves one byte on in an option
without a case. That the lists which the program writes are readable, unless the
host name is too long, is `WrittenOptions`, from which `ReadsBack` follows at
the list's end.

`NetworkLab_proofs`, from the assumptions of all three: every behaviour of the
program is one of `DhcpServer` (`LabImplementsDhcp`), of `FrameSniffer`
(`LabImplementsSniffer`) and of `UrlHandoff` (`LabImplementsHandoff`), step by
step with stuttering, so the theorems about the parts hold of the whole.
The third needs the sniffer's invariant: a frame that is inspected is newer than
every frame before it. `LabLatestRequestSaved` then combines `LastUrlSaved` of
the hand-over with the fact that the last announcement it took is the last entry
of the sniffer's log that was saved. `LabFileHoldsRequests` is
`OnlyRequestsInFile`, without a condition, since the sniffer's
`NothingGivesNoUrl` is proved and carries over: what the
url thread reads, has read, has written or left cut off is a URL announced or the
address of an IP frame (`FileInv` of that module), because the order of the hand-over
keeps it from reading the zeros its buffers start with (`HandoffFacts`), and an
inspection only moves `lst_ip` to an IP frame (`SourceInv`).

`TextReceiver_proofs`, from `ReceiverAssumption`: type correctness, `LineIsLatestTexts` and
`RawPrintsTheText`. The invariant says of every cell of the buffer that the
reception it is dated with was the last one long enough to reach it
(`BufferInv`), and of every text on its way that its sender took it (`NetInv`);
a line printed stays right because the history of receptions only grows
(`LineStaysRight`).

`ArpTool_proofs`, from `ArpAssumption`: type correctness, `WireInNetworkOrder`,
`AnswersDiffer`, `LoopSendsToAnswers`, for any traffic, number of frames and
rounds of the loop. The invariant adds that packages are in host order between
sends (`OrderInv`), that waiting frames are in order of arrival and behind
every answer taken (`QueueInv`), what main knows at each place (`KnownInv`),
that it learns from replies, that what the loop has sent went to the two addresses it
still keeps (`LoopInv`),
and that no thread runs before main creates it (`ThreadInv`). Without
`QueueInv` one reply could be taken twice.

Proof steps follow the actions; stuttering is a lemma of its own.

## 6. Only model-checked

Liveness (`RequestIsAcknowledged`, `UrlReachesFile`, `Terminates`, `FirstIsInspected`,
`AnswerEndsWait`, `RequestReachesFile`), which is beyond the prover. Every
invariant and every other property of the passing runs is proved.

## 7. Limits

The models say nothing of what undefined behaviour outside the objects they have
leads to (a root DNS query writes before an array; scans that leave a buffer: the
parser is `astray`), of a line longer than the raw sender's own buffer, of IP header
options and fragments, of the contents of fields that are only copied, and of
more than one process on the host.

## 8. Plan

1. Done: `DhcpServer`, `IpPool`, `Words` with `LeaseBook`; `UrlHandoff` with
   `UrlMailbox`; `FrameSniffer`; their composition `NetworkLab`; `ArpTool`;
   `TextReceiver`; the proofs of each; `DhcpOptions`.
2. Done: the text in the sniffer's buffer and with it what the parser finds;
   `OnlyRequestsInFile` without a condition; the options codec, both directions.
3. Proofs: the decrease that liveness rests on, as far as it is a safety
   property: every turn of the options reader moves it on unless a length
   wraps; each step of the sniffer shortens what waits.
