-------------------------------- MODULE Edma --------------------------------
(***************************************************************************)
(* The DMA controller (cm2350/peripherals/edma.py): hardware and software  *)
(* requests, arbitration, iterations, links, errors, cancellation, halt.   *)
(*                                                                         *)
(* A TCD is what the properties tell apart of it: its iteration count, its *)
(* link, its interrupt and request bits, the check of verifyChannelConfig  *)
(* it fails, and the bus error its addresses meet.  Addresses and data are *)
(* left out, and so are MAJOR.E_LINK and E_SG: with either of them set the *)
(* end of a transfer uses a name that is not defined there and the         *)
(* emulator ends.  ACTIVE is never set between two steps, and nothing that *)
(* is modelled depends on DONE.                                            *)
(***************************************************************************)
EXTENDS Naturals, FiniteSets, Sequences

CONSTANTS
  NumChannels,   \* channels are 0 .. NumChannels - 1
  GroupSize,     \* channels of a group: 16 in the code
  HwChannels,    \* the channels a peripheral is connected to
  SwChannels,    \* the channels the firmware starts itself
  FlagChannels,  \* the channels whose flags it clears
  Tcds,          \* Tcds[c]: the TCDs the firmware writes for channel c
  McrSet,        \* the values of MCR's fields it writes
  ChpriSet       \* the channel priorities it writes to CPR

Channels == 0 .. NumChannels - 1
Groups == 0 .. (NumChannels - 1) \div GroupSize
Members(g) == {c \in Channels : c \div GroupSize = g}
NoLink == NumChannels
Idle == 0      \* the count of a channel that is not in _pending
None == NumChannels

Tcd == [biter : Nat \ {0}, linkch : Channels \union {NoLink}, int_half : BOOLEAN,
        int_maj : BOOLEAN, d_req : BOOLEAN, invalid : BOOLEAN, bus_error : BOOLEAN]
Mcr == [halt : BOOLEAN, hoe : BOOLEAN, clm : BOOLEAN, erga : BOOLEAN, erca : BOOLEAN,
        grppri : [Groups -> Nat]]

ASSUME EdmaAssumption ==
  /\ NumChannels \in Nat \ {0} /\ GroupSize \in Nat \ {0}
  /\ HwChannels \subseteq Channels /\ SwChannels \subseteq Channels
  /\ FlagChannels \subseteq Channels
  /\ \A c \in Channels : Tcds[c] \subseteq Tcd
  /\ McrSet \subseteq Mcr /\ ChpriSet \subseteq [Channels -> Nat]

VARIABLES
  mcr,       \* MCR
  chpri,     \* CPRn[CHPRI]
  fixed,     \* _fixed_group_pri and _fixed_channel_pri
  rr,        \* _rr_group_pri and _rr_channel_pri
  tcd,       \* per channel: the TCD, its START bit and CITER
  erq,       \* ERQR: hardware requests enabled
  hrs,       \* HRS: hardware requests
  er,        \* ER: error flags
  irq,       \* IRQR: transfer flags
  pending,   \* _pending: per channel the iterations its configuration has left
  link,      \* _pending: the link it has had since the channel was started
  active,    \* _active: the channel that goes on without arbitration
  stale,     \* _active is the configuration of a transfer that is complete
  queued,    \* processActiveTransfers is in the core's extra processing
  failed,    \* history: channels whose last transfer failed or was cancelled,
             \* or whose TCD was written since
  passed     \* history: iterations of others since the channel was last served
             \* or MCR written, with round-robin arbitration

control == <<mcr, chpri, fixed, rr>>
flags == <<erq, hrs, er, irq>>
vars == <<control, tcd, flags, pending, link, active, stale, queued, failed, passed>>

Waiting == {c \in Channels : pending[c] # Idle}

-----------------------------------------------------------------------------
(* Priorities.                                                             *)

\* sorted(..., reverse=True): the highest priority first, then the highest number;
\* each element stands behind those that precede it
Precedes(a, b, pri) == pri[a] > pri[b] \/ (pri[a] = pri[b] /\ a > b)
Rank(a, S, pri) == Cardinality({b \in S : Precedes(b, a, pri)}) + 1
Sorted(S, pri) == [i \in 1 .. Cardinality(S) |-> CHOOSE a \in S : Rank(a, S, pri) = i]

\* _update_chan_priorities
Priorities(m, cp) ==
  [grp |-> Sorted(Groups, m.grppri), ch |-> [g \in Groups |-> Sorted(Members(g), cp)]]

Position(s, x) == CHOOSE k \in 1 .. Len(s) : s[k] = x
MoveToEnd(s, x) ==
  [i \in 1 .. Len(s) |->
     IF i < Position(s, x) THEN s[i] ELSE IF i < Len(s) THEN s[i + 1] ELSE x]
FirstIn(s, S) == s[CHOOSE i \in 1 .. Len(s) : s[i] \in S /\ \A j \in 1 .. i - 1 : s[j] \notin S]

\* getPending
NextGroup ==
  FirstIn(IF mcr.erga THEN rr.grp ELSE fixed.grp,
          {g \in Groups : Members(g) \intersect Waiting # {}})
NextChannel ==
  FirstIn(IF mcr.erca THEN rr.ch[NextGroup] ELSE fixed.ch[NextGroup], Waiting)

\* mutant: the channel keeps its place
RotatedGroupOnly ==
  [rr EXCEPT !.grp = IF mcr.erga THEN MoveToEnd(@, NextGroup) ELSE @]

Rotated ==
  [grp |-> IF mcr.erga THEN MoveToEnd(rr.grp, NextGroup) ELSE rr.grp,
   ch |-> IF mcr.erca THEN [rr.ch EXCEPT ![NextGroup] = MoveToEnd(@, NextChannel)] ELSE rr.ch]

-----------------------------------------------------------------------------
(* Starting transfers: operators on the part of the state they change, for *)
(* handlers that start several channels one after the other.               *)

Now == [tcd |-> tcd, pending |-> pending, link |-> link, halt |-> mcr.halt, er |-> er, irq |-> irq,
        queued |-> queued, failed |-> failed]

\* setError, for each channel of S
SetError(d, S, hoe) ==
  [d EXCEPT !.er = @ \union S, !.halt = @ \/ (hoe /\ S # {}), !.failed = @ \union S]

\* verifyChannelConfig: one of the checks of the TCD fails, or CITER is not BITER
Rejected(t) == t.conf.invalid \/ t.citer # t.conf.biter

\* addPending, for each channel of S: TCDConfig takes count and link from the TCD
AddPending(d, S) ==
  [d EXCEPT !.pending = [c \in Channels |-> IF c \in S THEN d.tcd[c].citer ELSE @[c]],
            !.link = [c \in Channels |-> IF c \in S THEN d.tcd[c].conf.linkch ELSE @[c]],
            !.queued = @ \/ S # {}, !.failed = @ \ S]

\* startTransfer, for the channels of a register in ascending order: the first error
\* halts DMA if MCR says so, and the channels behind it are only marked
StartAll(d, S, hoe) ==
  LET new == {c \in S : d.pending[c] = Idle}
      bad == {c \in new : Rejected(d.tcd[c])}
      reached == {c \in new : ~d.halt /\ ~(hoe /\ \E b \in bad : b < c)}
      marked == [d EXCEPT !.tcd = [c \in Channels |->
                   IF c \in new THEN [@[c] EXCEPT !.start = TRUE] ELSE @[c]]]
  IN  AddPending(SetError(marked, reached \intersect bad, hoe), reached \ bad)

StartTransfer(d, c, hoe) == StartAll(d, {c}, hoe)

Become(d) ==
  /\ tcd' = d.tcd /\ pending' = d.pending /\ link' = d.link /\ er' = d.er /\ irq' = d.irq
  /\ queued' = d.queued /\ failed' = d.failed

BecomeAll(d) == Become(d) /\ mcr' = [mcr EXCEPT !.halt = d.halt]

\* for the handlers of requests, which leave MCR alone unless an error halts DMA
Handled(d) ==
  /\ BecomeAll(d)
  /\ UNCHANGED <<chpri, fixed, rr, active, stale, passed>>

-----------------------------------------------------------------------------
ResetMcr == [halt |-> FALSE, hoe |-> FALSE, clm |-> FALSE, erga |-> FALSE, erca |-> FALSE,
             grppri |-> [g \in Groups |-> g]]
ResetChpri == [c \in Channels |-> c]
ResetTcd(c) ==
  [conf |-> [biter |-> 1, linkch |-> NoLink, int_half |-> FALSE, int_maj |-> FALSE,
             d_req |-> FALSE, invalid |-> TRUE, bus_error |-> FALSE],
   start |-> FALSE, citer |-> 0]

Init ==
  /\ mcr = ResetMcr /\ chpri = ResetChpri
  /\ fixed = Priorities(ResetMcr, ResetChpri) /\ rr = fixed
  /\ tcd = [c \in Channels |-> ResetTcd(c)]
  /\ erq = {} /\ hrs = {} /\ er = {} /\ irq = {}
  /\ pending = [c \in Channels |-> Idle] /\ link = [c \in Channels |-> NoLink]
  /\ active = None /\ stale = FALSE /\ queued = FALSE
  /\ failed = {} /\ passed = [c \in Channels |-> 0]

\* The error flags are write-one-to-clear fields, so that assigning 0 to them
\* leaves them as they are.
Reset ==
  /\ mcr' = ResetMcr /\ chpri' = ResetChpri
  /\ fixed' = Priorities(ResetMcr, ResetChpri) /\ rr' = fixed'
  /\ tcd' = [c \in Channels |-> ResetTcd(c)]
  /\ erq' = {} /\ hrs' = {} /\ er' = er /\ irq' = {}
  /\ pending' = [c \in Channels |-> Idle] /\ link' = [c \in Channels |-> NoLink]
  /\ active' = None /\ stale' = FALSE /\ queued' = FALSE
  /\ failed' = {} /\ passed' = [c \in Channels |-> 0]

-----------------------------------------------------------------------------
(* Requests.                                                               *)

\* dmaRequest: a peripheral asks for a transfer
DmaRequest(c) ==
  /\ hrs' = hrs \union {c}
  /\ Handled(IF c \in erq THEN StartTransfer(Now, c, mcr.hoe) ELSE Now)
  /\ UNCHANGED erq

\* mutant: requests that came before they were enabled are not looked at
EnableOnly(S) ==
  /\ erq' = S
  /\ Handled(Now)
  /\ UNCHANGED hrs

\* handleWriteERQRL, handleWriteERQRH; clearERQR clears one channel or all of them
WriteErq(S) ==
  /\ erq' = S
  /\ Handled(StartAll(Now, (S \ erq) \intersect hrs, mcr.hoe))
  /\ UNCHANGED hrs

\* setERQR; all channels at once are modelled one after the other, as the code
\* starts them.  A request that was enabled before and has failed is tried again.
SetErq(c) ==
  /\ erq' = erq \union {c}
  /\ Handled(IF c \in hrs THEN StartTransfer(Now, c, mcr.hoe) ELSE Now)
  /\ UNCHANGED hrs

\* setStart, and tcdUpdate for a write that sets START
SetStart(c) ==
  /\ Handled(StartTransfer([Now EXCEPT !.tcd[c].start = TRUE], c, mcr.hoe))
  /\ UNCHANGED <<erq, hrs>>

\* a TCD is written, START clear; a configuration in _pending keeps its
\* count and link
WriteTcd(c, t) ==
  /\ Handled([Now EXCEPT
       !.tcd[c] = [conf |-> t, start |-> FALSE, citer |-> t.biter],
       !.failed = @ \union {c}])
  /\ UNCHANGED <<erq, hrs>>

\* clearER, clearIRQR, and writes to ER and IRQR
ClearFlags(c) ==
  /\ \/ er' = er \ {c} /\ UNCHANGED irq
     \/ irq' = irq \ {c} /\ UNCHANGED er
  /\ UNCHANGED <<control, tcd, erq, hrs, pending, link, active, stale, queued, failed, passed>>

\* cprUpdate: the order of the channels is that of the last write to MCR
WriteCpr(cp) ==
  /\ chpri' = cp
  /\ UNCHANGED <<mcr, fixed, rr, tcd, flags, pending, link, active, stale, queued, failed, passed>>

-----------------------------------------------------------------------------
(* MCR.                                                                    *)

\* CXFR and ECX drop every pending transfer, ECX with an error
Cancelled(d, error, hoe) ==
  LET S == {c \in Channels : d.pending[c] # Idle}
      drop == [d EXCEPT
        !.pending = [c \in Channels |-> Idle], !.failed = @ \union S,
        !.tcd = [c \in Channels |->
          IF c \in S THEN [@[c] EXCEPT !.start = FALSE] ELSE @[c]]]
  IN  IF error THEN SetError(drop, S, hoe) ELSE drop

Cancels == {"no", "cxfr", "ecx"}

\* mutant: transfers that were pending while DMA was halted are left alone
WriteMcrNoWake(m, cancel) ==
  LET d1 == [Now EXCEPT !.halt = m.halt]
      d2 == IF cancel = "no" THEN d1 ELSE Cancelled(d1, cancel = "ecx", m.hoe)
      d3 == IF d2.halt THEN d2
            ELSE StartAll(d2, {c \in Channels : d2.tcd[c].start}, m.hoe)
  IN  /\ mcr' = [m EXCEPT !.halt = d3.halt]
      /\ Become(d3)
      /\ fixed' = Priorities(m, chpri) /\ rr' = fixed'
      /\ active' = IF cancel = "no" THEN active ELSE None
      /\ stale' = (stale /\ cancel = "no")
      /\ passed' = [c \in Channels |-> 0]
      /\ UNCHANGED <<chpri, erq, hrs>>

\* mcrUpdate
WriteMcr(m, cancel) ==
  LET d1 == [Now EXCEPT !.halt = m.halt]
      d2 == IF cancel = "no" THEN d1 ELSE Cancelled(d1, cancel = "ecx", m.hoe)
      anyPending == \E c \in Channels : d2.pending[c] # Idle
      d3 == IF d2.halt THEN d2
            ELSE [StartAll(d2, {c \in Channels : d2.tcd[c].start}, m.hoe)
                    EXCEPT !.queued = @ \/ anyPending]
  IN  /\ mcr' = [m EXCEPT !.halt = d3.halt]
      /\ Become(d3)
      /\ fixed' = Priorities(m, chpri) /\ rr' = fixed'
      /\ active' = IF cancel = "no" THEN active ELSE None
      /\ stale' = (stale /\ cancel = "no")
      /\ passed' = [c \in Channels |-> 0]
      /\ UNCHANGED <<chpri, erq, hrs>>

-----------------------------------------------------------------------------
(* processActiveTransfers, once per instruction.                           *)

RoundRobin == mcr.erga /\ mcr.erca /\ active = None

Served(c) ==
  passed' = [x \in Channels |->
    IF x # c /\ x \in Waiting /\ pending'[x] # Idle /\ RoundRobin THEN passed[x] + 1 ELSE 0]

\* START is cleared when an iteration begins
Begun(c) == [Now EXCEPT !.tcd[c].start = FALSE]

\* _process_major_loop, where a read or a write fails
BusError(c) ==
  /\ tcd[c].conf.bus_error
  /\ BecomeAll(SetError([Begun(c) EXCEPT !.pending[c] = Idle], {c}, mcr.hoe))
  /\ stale' = (active = c)
  /\ UNCHANGED <<erq, hrs, active>>

Linked(d, c) == StartTransfer(d, c, mcr.hoe)

\* An iteration that is not the last.  The link is that of the configuration, the rest
\* that of the TCD: with link bits in CITER and BITER the half-way interrupt never comes.
Iterate(c) ==
  LET t == tcd[c].conf
      left == pending[c] - 1
      d1 == [Begun(c) EXCEPT !.pending[c] = left, !.tcd[c].citer = left]
      d2 == IF t.int_half /\ t.linkch = NoLink /\ left = t.biter \div 2 THEN [d1 EXCEPT !.irq = @ \union {c}] ELSE d1
      again == mcr.clm /\ link[c] = c
  IN  /\ ~t.bus_error /\ left # 0
      /\ BecomeAll(IF link[c] = NoLink \/ again THEN d2 ELSE Linked(d2, link[c]))
      /\ active' = IF again THEN c ELSE active
      /\ UNCHANGED <<erq, hrs, stale>>

\* the last iteration
Complete(c) ==
  LET t == tcd[c].conf
      d == [Begun(c) EXCEPT !.pending[c] = Idle, !.tcd[c].citer = t.biter]
  IN  /\ ~t.bus_error /\ pending[c] = 1
      /\ BecomeAll(IF t.int_maj THEN [d EXCEPT !.irq = @ \union {c}] ELSE d)
      /\ hrs' = hrs \ {c}
      /\ erq' = IF t.d_req THEN erq \ {c} ELSE erq
      /\ stale' = (active = c)
      /\ UNCHANGED active

\* _active, which is linked to itself, is not cleared when its transfer completes: the
\* configuration goes on with the whole of BITER as its count, link bits included.
\* (A count without them, of a TCD that lost its link, runs out; then, and after a bus
\* error, a channel is removed that is not there, which ends the emulator.  Left out.)
RunOn(c) ==
  LET t == tcd[c].conf
      d == [Begun(c) EXCEPT !.tcd[c].citer = IF @ = 0 THEN 0 ELSE @ - 1]
  IN  /\ ~t.bus_error
      /\ BecomeAll(IF mcr.clm THEN d ELSE Linked(d, c))
      /\ UNCHANGED <<erq, hrs, active, stale>>

Process ==
  /\ queued /\ ~mcr.halt
  /\ \/ active # None /\ stale /\ RunOn(active) /\ UNCHANGED <<rr, passed>>
     \/ /\ active # None /\ ~stale
        /\ BusError(active) \/ Iterate(active) \/ Complete(active)
        /\ Served(active) /\ UNCHANGED rr
     \/ /\ active = None /\ Waiting # {}
        /\ BusError(NextChannel) \/ Iterate(NextChannel) \/ Complete(NextChannel)
        /\ Served(NextChannel) /\ rr' = Rotated
  /\ UNCHANGED <<chpri, fixed>>

\* halted, or nothing to do: the function leaves the extra processing
ProcessNothing ==
  /\ queued
  /\ mcr.halt \/ (active = None /\ Waiting = {})
  /\ queued' = FALSE
  /\ UNCHANGED <<control, tcd, flags, pending, link, active, stale, failed, passed>>

-----------------------------------------------------------------------------
Next ==
  \/ Reset \/ Process \/ ProcessNothing
  \/ \E c \in HwChannels : DmaRequest(c) \/ SetErq(c)
  \/ \E S \in SUBSET HwChannels : WriteErq(S)
  \/ \E c \in SwChannels : SetStart(c)
  \/ \E c \in FlagChannels : ClearFlags(c)
  \/ \E c \in Channels : \E t \in Tcds[c] : WriteTcd(c, t)
  \/ \E cp \in ChpriSet : WriteCpr(cp)
  \/ \E m \in McrSet, cancel \in Cancels : WriteMcr(m, cancel)

Spec == Init /\ [][Next]_vars

-----------------------------------------------------------------------------
(* Properties.                                                             *)

\* s is an order of S: each element is in one place
IsOrder(s, S) ==
  /\ s \in [1 .. Cardinality(S) -> S]
  /\ \A x \in S : \E i \in DOMAIN s : s[i] = x
  /\ \A i, j \in DOMAIN s : s[i] = s[j] => i = j

TypeOK ==
  /\ mcr \in Mcr /\ chpri \in [Channels -> Nat]
  /\ \A p \in {fixed, rr} :
       /\ p \in [grp : Seq(Groups), ch : [Groups -> Seq(Channels)]]
       /\ IsOrder(p.grp, Groups) /\ \A g \in Groups : IsOrder(p.ch[g], Members(g))
  /\ tcd \in [Channels -> [conf : Tcd, start : BOOLEAN, citer : Nat]]
  /\ pending \in [Channels -> Nat] /\ passed \in [Channels -> Nat]
  /\ link \in [Channels -> Channels \union {NoLink}]
  /\ erq \subseteq HwChannels /\ hrs \subseteq HwChannels
  /\ er \subseteq Channels /\ irq \subseteq Channels
  /\ active \in Channels \union {None} /\ queued \in BOOLEAN
  /\ stale \in BOOLEAN /\ (stale => active # None)
  /\ failed \subseteq Channels

\* The state has its types, and DMA never goes to sleep with work to do: while it is
\* not halted, the function that processes pending transfers is scheduled, whatever
\* halts and starts it.
Scheduled == TypeOK /\ (Waiting # {} /\ ~mcr.halt => queued)

\* A request is not forgotten.  A channel whose START is set, or which has an
\* enabled hardware request, is pending, or waits for the end of the halt, or its
\* transfer failed, was cancelled or written over.
NoRequestForgotten ==
  \A c \in Channels :
    tcd[c].start \/ c \in hrs \intersect erq =>
      pending[c] # Idle \/ c \in failed \/ (mcr.halt /\ tcd[c].start)

\* Round-robin arbitration is fair: before a pending channel is served, each group
\* is served less often than the largest group has channels.
BoundedBypass ==
  \A c \in Channels : passed[c] < Cardinality(Groups) * GroupSize

=============================================================================
