-------------------------- MODULE MsdCommand_proof --------------------------
(* Commands, their data and their status: host and drive agree on where they are in a command, *)
(* for every set of commands, sizes and disturbances.                                          *)
EXTENDS MsdTransport_proof, FiniteSetTheorems

----------------------------------------------------------------------------
(* What an endpoint may look like, whichever of its entries the SIE is on.  *)

Idle(e) == e.next = e.active /\ \A i \in Entries : e.entry[i].own = "cpu"

OneArmed(e) ==
  /\ e.next = Other(e.active)
  /\ Active(e).own = "armed" /\ e.entry[Other(e.active)].own = "cpu"

TwoArmed(e) == e.next = e.active /\ \A i \in Entries : e.entry[i].own = "armed"

\* After SET_FEATURE(ENDPOINT_HALT).
Halted(e) ==
  /\ e.next = e.active
  /\ Active(e).own = "stall" /\ e.entry[Other(e.active)].own = "cpu"

\* IN has nothing, a packet of data, the CSW, or the last packet of data and the CSW after it.
InIdle(u) == Idle(u.in)
InData(u) == OneArmed(u.in) /\ u.inHandle = u.in.active /\ Active(u.in).data # CswBuffer
InCsw(u)  == OneArmed(u.in) /\ u.inHandle = u.in.active /\ Active(u.in).data = CswBuffer
InDataCsw(u) ==
  /\ TwoArmed(u.in) /\ u.inHandle = Other(u.in.active)
  /\ Active(u.in).data # CswBuffer /\ u.in.entry[Other(u.in.active)].data = CswBuffer
InStalled(u) == AllStalled(u.in)
InHalted(u)  == Halted(u.in)

\* OUT has taken a packet into the last entry, waits for one, or for two after a mass storage
\* reset that found it waiting.
OutIdle(u)    == Idle(u.out) /\ u.outHandle = Other(u.out.active)
OutArmed(u)   == OneArmed(u.out) /\ u.outHandle = u.out.active
OutAt(u, b)   == OutArmed(u) /\ Active(u.out).data = b
OutTwice(u)   == TwoArmed(u.out) /\ u.outHandle = Other(u.out.active)
OutStalled(u) == AllStalled(u.out)
OutHalted(u)  == Halted(u.out)

LEMMA EntriesLaw ==
  /\ 0 \in Entries /\ 1 \in Entries
  /\ \A i \in Entries : Other(i) \in Entries /\ Other(Other(i)) = i /\ Other(i) # i
  /\ \A i, j \in Entries : j = i \/ j = Other(i)
BY DEF Entries, Other

LEMMA TransferForm ==
  ASSUME NEW e \in Endpoint, NEW data \in Buffers, NEW len \in Int
  PROVE  \E r \in Entry :
           /\ r.own = "armed" /\ r.data = data /\ r.cnt = len
           /\ USBTransferOnePacket(e, data, len) =
                [entry |-> [e.entry EXCEPT ![e.next] = r], next |-> Other(e.next),
                 active |-> e.active]
<1> DEFINE r == [own |-> "armed", toggle |-> e.entry[e.next].toggle, data |-> data, cnt |-> len]
<1>1. r \in Entry /\ r.own = "armed" /\ r.data = data /\ r.cnt = len
  BY DEF Entry, Endpoint
<1>2. USBTransferOnePacket(e, data, len) = [[e EXCEPT !.entry[e.next] = r] EXCEPT !.next = Other(e.next)]
  BY DEF USBTransferOnePacket
<1> HIDE DEF r
<1>3. USBTransferOnePacket(e, data, len) =
        [entry |-> [e.entry EXCEPT ![e.next] = r], next |-> Other(e.next), active |-> e.active]
  BY <1>1, <1>2, NewEntry DEF Endpoint
<1> QED BY <1>1, <1>3

LEMMA TransferArms ==
  ASSUME NEW e \in Endpoint, NEW data \in Buffers, NEW len \in Int
  PROVE  LET f == USBTransferOnePacket(e, data, len)
         IN /\ f \in Endpoint /\ f.active = e.active
            /\ Idle(e) => OneArmed(f) /\ Active(f).data = data /\ Active(f).cnt = len
            /\ OneArmed(e) => /\ TwoArmed(f) /\ Active(f) = Active(e)
                              /\ f.entry[Other(f.active)].data = data
            /\ \A i \in Entries : f.entry[i].data \in {data, e.entry[i].data}
                                  /\ f.entry[i].cnt \in {len, e.entry[i].cnt}
<1> DEFINE f == USBTransferOnePacket(e, data, len)
<1> PICK r \in Entry :
      /\ r.own = "armed" /\ r.data = data /\ r.cnt = len
      /\ f = [entry |-> [e.entry EXCEPT ![e.next] = r], next |-> Other(e.next), active |-> e.active]
  BY TransferForm
<1>1. e.next \in Entries /\ e.active \in Entries
  BY DEF Endpoint
<1>2. /\ f \in Endpoint /\ f.active = e.active /\ f.next = Other(e.next)
      /\ f.entry[e.next] = r /\ f.entry[Other(e.next)] = e.entry[Other(e.next)]
  BY <1>1, EntriesLaw, NewEntryShape
<1> HIDE DEF f
<1>3. Idle(e) => OneArmed(f) /\ Active(f).data = data /\ Active(f).cnt = len
  BY <1>1, <1>2, EntriesLaw DEF Idle, OneArmed, Active
<1>4. OneArmed(e) => /\ TwoArmed(f) /\ Active(f) = Active(e)
                     /\ f.entry[Other(f.active)].data = data
  BY <1>1, <1>2, EntriesLaw DEF TwoArmed, OneArmed, Active
<1>5. \A i \in Entries : f.entry[i].data \in {data, e.entry[i].data}
                         /\ f.entry[i].cnt \in {len, e.entry[i].cnt}
  BY <1>1, <1>2, EntriesLaw
<1> QED BY <1>2, <1>3, <1>4, <1>5 DEF f

LEMMA CompleteFrees ==
  ASSUME NEW e \in Endpoint, NEW cnt \in Int
  PROVE  LET f == Complete(e, cnt)
         IN /\ f \in Endpoint /\ f.active = Other(e.active)
            /\ f.entry[e.active].cnt = cnt
            /\ OneArmed(e) => Idle(f)
            /\ TwoArmed(e) => OneArmed(f) /\ Active(f) = e.entry[Other(e.active)]
            /\ \A i \in Entries : f.entry[i].data = e.entry[i].data
                                  /\ f.entry[i].cnt \in {cnt, e.entry[i].cnt}
<1> DEFINE r == [e.entry[e.active] EXCEPT !.own = "cpu", !.cnt = cnt]
           f == Complete(e, cnt)
<1>1. /\ r \in Entry /\ r.own = "cpu" /\ r.cnt = cnt /\ r.data = e.entry[e.active].data
      /\ e.next \in Entries /\ e.active \in Entries
  BY DEF Entry, Endpoint
<1>2. f = [[e EXCEPT !.entry[e.active] = r] EXCEPT !.active = Other(e.active)]
  BY DEF Complete, Endpoint
<1> HIDE DEF r, f
<1>3. f = [entry |-> [e.entry EXCEPT ![e.active] = r], next |-> e.next, active |-> Other(e.active)]
  BY <1>1, <1>2, NewEntry DEF Endpoint
<1>4. /\ f \in Endpoint /\ f.active = Other(e.active) /\ f.next = e.next
      /\ f.entry[e.active] = r /\ f.entry[Other(e.active)] = e.entry[Other(e.active)]
  BY <1>1, <1>3, EntriesLaw, NewEntryShape
<1>5. OneArmed(e) => Idle(f)
  BY <1>1, <1>4, EntriesLaw DEF OneArmed, Idle
<1>6. TwoArmed(e) => OneArmed(f) /\ Active(f) = e.entry[Other(e.active)]
  BY <1>1, <1>4, EntriesLaw DEF OneArmed, TwoArmed, Active
<1>7. \A i \in Entries : f.entry[i].data = e.entry[i].data
                         /\ f.entry[i].cnt \in {cnt, e.entry[i].cnt}
  BY <1>1, <1>4, EntriesLaw
<1> QED BY <1>1, <1>4, <1>5, <1>6, <1>7 DEF f

LEMMA ReclaimFrees ==
  ASSUME NEW e \in Endpoint, NEW i \in Entries, NEW t \in {0, 1}
  PROVE  LET f == Reclaim(e, i, t)
         IN /\ f \in Endpoint /\ f.active = e.active /\ f.next = e.next
            /\ f.entry[i].own = "cpu" /\ f.entry[Other(i)] = e.entry[Other(i)]
            /\ \A j \in Entries : f.entry[j].data = e.entry[j].data
                                  /\ f.entry[j].cnt = e.entry[j].cnt
<1> DEFINE r == [e.entry[i] EXCEPT !.own = "cpu", !.toggle = t]
           f == Reclaim(e, i, t)
<1>1. r \in Entry /\ r.own = "cpu" /\ r.data = e.entry[i].data /\ r.cnt = e.entry[i].cnt
  BY DEF Entry, Endpoint
<1>2. f = [e EXCEPT !.entry[i] = r]
  BY DEF Reclaim, Endpoint
<1> HIDE DEF r, f
<1>3. f = [entry |-> [e.entry EXCEPT ![i] = r], next |-> e.next, active |-> e.active]
  BY <1>1, <1>2, NewEntry
<1>4. f \in Endpoint /\ f.entry[i] = r /\ f.entry[Other(i)] = e.entry[Other(i)]
      /\ f.active = e.active /\ f.next = e.next
  BY <1>1, <1>3, NewEntryShape DEF Endpoint
<1> QED BY <1>1, <1>4, EntriesLaw DEF f

----------------------------------------------------------------------------
(* What the operations do to the pair.                                      *)

\* Pointers and counts that MsdTypeOK allows.
SieBuffers == {CbwBuffer, CswBuffer, NoBuffer} \cup {DataBuffer(k) : k \in Chunks}

Carries(u) ==
  \A d \in Directions : \A i \in Entries :
    u[d].entry[i].data \in SieBuffers /\ u[d].entry[i].cnt \in Nat

LEMMA PairShape ==
  ASSUME NEW u \in Pair
  PROVE  /\ u.in \in Endpoint /\ u.out \in Endpoint /\ u["in"] = u.in /\ u["out"] = u.out
         /\ u.inHandle \in Entries /\ u.outHandle \in Entries
         /\ u.in.active \in Entries /\ u.out.active \in Entries
         /\ u.in.next \in Entries /\ u.out.next \in Entries
BY DEF Pair, Endpoint

LEMMA InBusyShape ==
  ASSUME NEW u \in Pair
  PROVE  /\ InIdle(u) => ~USBHandleBusy(u.in, u.inHandle) /\ ~NextHandleBusy(u.in)
         /\ InData(u) \/ InCsw(u) => USBHandleBusy(u.in, u.inHandle) /\ ~NextHandleBusy(u.in)
         /\ InDataCsw(u) \/ InStalled(u)
              => USBHandleBusy(u.in, u.inHandle) /\ NextHandleBusy(u.in)
<1> USE PairShape, EntriesLaw DEF USBHandleBusy, NextHandleBusy
<1>1. InIdle(u) => ~USBHandleBusy(u.in, u.inHandle) /\ ~NextHandleBusy(u.in)
  BY DEF InIdle, Idle
<1>2. InData(u) \/ InCsw(u) => USBHandleBusy(u.in, u.inHandle) /\ ~NextHandleBusy(u.in)
  BY DEF InData, InCsw, OneArmed, Active
<1>3. InDataCsw(u) \/ InStalled(u)
        => USBHandleBusy(u.in, u.inHandle) /\ NextHandleBusy(u.in)
  BY DEF InDataCsw, InStalled, TwoArmed, AllStalled
<1> QED BY <1>1, <1>2, <1>3

LEMMA OutBusyShape ==
  ASSUME NEW u \in Pair
  PROVE  /\ OutIdle(u) => ~USBHandleBusy(u.out, u.outHandle) /\ ~NextHandleBusy(u.out)
         /\ OutArmed(u) => USBHandleBusy(u.out, u.outHandle) /\ ~NextHandleBusy(u.out)
         /\ OutTwice(u) \/ OutStalled(u)
              => USBHandleBusy(u.out, u.outHandle) /\ NextHandleBusy(u.out)
         /\ OutHalted(u) => NextHandleBusy(u.out)
<1> USE PairShape, EntriesLaw DEF USBHandleBusy, NextHandleBusy
<1>1. OutIdle(u) => ~USBHandleBusy(u.out, u.outHandle) /\ ~NextHandleBusy(u.out)
  BY DEF OutIdle, Idle
<1>2. OutArmed(u) => USBHandleBusy(u.out, u.outHandle) /\ ~NextHandleBusy(u.out)
  BY DEF OutArmed, OneArmed, Active
<1>3. OutTwice(u) \/ OutStalled(u)
        => USBHandleBusy(u.out, u.outHandle) /\ NextHandleBusy(u.out)
  BY DEF OutTwice, OutStalled, TwoArmed, AllStalled
<1>4. OutHalted(u) => NextHandleBusy(u.out)
  BY DEF OutHalted, Halted, Active
<1> QED BY <1>1, <1>2, <1>3, <1>4

\* A side that is left alone looks as before.
LEMMA InKept ==
  ASSUME NEW u, NEW v, v.in = u.in, v.inHandle = u.inHandle
  PROVE  /\ InIdle(v) = InIdle(u) /\ InData(v) = InData(u) /\ InCsw(v) = InCsw(u)
         /\ InDataCsw(v) = InDataCsw(u) /\ InStalled(v) = InStalled(u) /\ InHalted(v) = InHalted(u)
BY DEF InIdle, InData, InCsw, InDataCsw, InStalled, InHalted

LEMMA OutKept ==
  ASSUME NEW u, NEW v, v.out = u.out, v.outHandle = u.outHandle
  PROVE  /\ OutIdle(v) = OutIdle(u) /\ OutArmed(v) = OutArmed(u)
         /\ (\A b : OutAt(v, b) = OutAt(u, b)) /\ OutTwice(v) = OutTwice(u)
         /\ OutStalled(v) = OutStalled(u) /\ OutHalted(v) = OutHalted(u)
         /\ USBHandleBusy(v.out, v.outHandle) = USBHandleBusy(u.out, u.outHandle)
BY DEF OutIdle, OutArmed, OutAt, OutTwice, OutStalled, OutHalted

LEMMA TxArms ==
  ASSUME NEW u \in Pair, NEW data \in Buffers, NEW len \in Int
  PROVE  LET v == Tx(u, data, len)
         IN /\ v \in Pair /\ v.out = u.out /\ v.outHandle = u.outHandle
            /\ InIdle(u) => /\ data # CswBuffer => InData(v)
                            /\ data = CswBuffer => InCsw(v)
                            /\ Active(v.in).data = data /\ Active(v.in).cnt = len
            /\ InData(u) /\ data = CswBuffer => InDataCsw(v) /\ Active(v.in) = Active(u.in)
            /\ Carries(u) /\ data \in SieBuffers /\ len \in Nat => Carries(v)
<1> DEFINE e == USBTransferOnePacket(u.in, data, len)
           v == Tx(u, data, len)
<1>1. u.in \in Endpoint /\ u.in.next \in Entries /\ u.in.active \in Entries
  BY PairShape
<1>2. /\ e \in Endpoint /\ e.active = u.in.active
      /\ Idle(u.in) => OneArmed(e) /\ Active(e).data = data /\ Active(e).cnt = len
      /\ OneArmed(u.in) => /\ TwoArmed(e) /\ Active(e) = Active(u.in)
                           /\ e.entry[Other(e.active)].data = data
      /\ \A i \in Entries : e.entry[i].data \in {data, u.in.entry[i].data}
                            /\ e.entry[i].cnt \in {len, u.in.entry[i].cnt}
  BY <1>1, TransferArms
<1>3. v = [u EXCEPT !.in = e, !.inHandle = u.in.next]
  BY DEF Tx, Pair
<1> HIDE DEF e, v
<1>4. /\ v \in Pair /\ v.in = e /\ v.inHandle = u.in.next /\ v.out = u.out /\ v.outHandle = u.outHandle
      /\ v["in"] = e /\ v["out"] = u["out"]
  BY <1>1, <1>2, <1>3 DEF Pair
<1>5. InIdle(u) => /\ data # CswBuffer => InData(v)
                   /\ data = CswBuffer => InCsw(v)
                   /\ Active(v.in).data = data /\ Active(v.in).cnt = len
  BY <1>2, <1>4 DEF InIdle, Idle, InData, InCsw
<1>6. InData(u) /\ data = CswBuffer => InDataCsw(v) /\ Active(v.in) = Active(u.in)
  BY <1>2, <1>4 DEF InData, InDataCsw, OneArmed
<1>7. Carries(u) /\ data \in SieBuffers /\ len \in Nat => Carries(v)
  BY <1>2, <1>4, PairShape DEF Carries, Directions
<1> QED BY <1>4, <1>5, <1>6, <1>7 DEF v

LEMMA RxArms ==
  ASSUME NEW u \in Pair, NEW data \in Buffers
  PROVE  LET v == Rx(u, data)
         IN /\ v \in Pair /\ v.in = u.in /\ v.inHandle = u.inHandle
            /\ Idle(u.out) => OutAt(v, data) /\ OutArmed(v)
            /\ OutArmed(u) => OutTwice(v)
            /\ Carries(u) /\ data \in SieBuffers => Carries(v)
<1> DEFINE e == USBTransferOnePacket(u.out, data, EP_SIZE)
           v == Rx(u, data)
<1>1. u.out \in Endpoint /\ u.out.next \in Entries /\ u.out.active \in Entries
      /\ EP_SIZE \in Int /\ EP_SIZE \in Nat
  BY PairShape, SizesAssumption
<1>2. /\ e \in Endpoint /\ e.active = u.out.active
      /\ Idle(u.out) => OneArmed(e) /\ Active(e).data = data
      /\ OneArmed(u.out) => TwoArmed(e)
      /\ \A i \in Entries : e.entry[i].data \in {data, u.out.entry[i].data}
                            /\ e.entry[i].cnt \in {EP_SIZE, u.out.entry[i].cnt}
  BY <1>1, TransferArms
<1>3. v = [u EXCEPT !.out = e, !.outHandle = u.out.next]
  BY DEF Rx, Pair
<1> HIDE DEF e, v
<1>4. /\ v \in Pair /\ v.out = e /\ v.outHandle = u.out.next /\ v.in = u.in /\ v.inHandle = u.inHandle
      /\ v["in"] = u["in"] /\ v["out"] = e
  BY <1>1, <1>2, <1>3 DEF Pair
<1>5. Idle(u.out) => OutAt(v, data) /\ OutArmed(v)
  BY <1>2, <1>4 DEF Idle, OutAt, OutArmed
<1>6. OutArmed(u) => OutTwice(v)
  BY <1>2, <1>4 DEF OutArmed, OutTwice, OneArmed
<1>7. Carries(u) /\ data \in SieBuffers => Carries(v)
  BY <1>1, <1>2, <1>4, PairShape DEF Carries, Directions
<1> QED BY <1>4, <1>5, <1>6, <1>7 DEF v

LEMMA StallStalls ==
  ASSUME NEW u \in Pair, NEW d \in Directions
  PROVE  LET v == Stall(u, d)
         IN /\ v \in Pair /\ v.inHandle = u.inHandle /\ v.outHandle = u.outHandle
            /\ d = "in" => InStalled(v) /\ v.out = u.out
            /\ d = "out" => OutStalled(v) /\ v.in = u.in
            /\ Carries(u) => Carries(v)
<1>1. u[d] \in Endpoint
  BY DEF Pair, Directions
<1> DEFINE e == USBStallEndpoint(u[d])
           v == Stall(u, d)
<1>2. e \in Endpoint /\ AllStalled(e)
      /\ \A i \in Entries : e.entry[i].data = u[d].entry[i].data /\ e.entry[i].cnt = u[d].entry[i].cnt
  <2>1. e \in Endpoint /\ AllStalled(e)
    BY <1>1, StallShape
  <2>2. \A i \in Entries : e.entry[i].data = u[d].entry[i].data /\ e.entry[i].cnt = u[d].entry[i].cnt
    BY <1>1 DEF USBStallEndpoint, Endpoint, Entry
  <2> QED BY <2>1, <2>2
<1>3. v = [u EXCEPT ![d] = e]
  BY DEF Stall, Pair
<1> HIDE DEF e, v
<1>4. /\ v \in Pair /\ v.inHandle = u.inHandle /\ v.outHandle = u.outHandle
      /\ v[d] = e /\ \A b \in Directions \ {d} : v[b] = u[b]
  BY <1>2, <1>3 DEF Pair, Directions
<1>5. d = "in" => InStalled(v) /\ v.out = u.out
  BY <1>2, <1>4, PairShape DEF InStalled, Directions
<1>6. d = "out" => OutStalled(v) /\ v.in = u.in
  BY <1>2, <1>4, PairShape DEF OutStalled, Directions
<1>7. Carries(u) => Carries(v)
  BY <1>2, <1>4 DEF Carries
<1> QED BY <1>4, <1>5, <1>6, <1>7 DEF v

LEMMA StallBothStalls ==
  ASSUME NEW u \in Pair
  PROVE  LET v == StallBoth(u)
         IN /\ v \in Pair /\ InStalled(v) /\ OutStalled(v)
            /\ v.inHandle = u.inHandle /\ v.outHandle = u.outHandle
            /\ Carries(u) => Carries(v)
<1> DEFINE w == Stall(u, "in")
<1>1. w \in Pair /\ InStalled(w) /\ w.inHandle = u.inHandle /\ w.outHandle = u.outHandle
      /\ (Carries(u) => Carries(w))
  BY StallStalls DEF Directions
<1>2. StallBoth(u) = Stall(w, "out")
  BY DEF StallBoth
<1> HIDE DEF w
<1> DEFINE v == Stall(w, "out")
<1>3. /\ v \in Pair /\ OutStalled(v) /\ v.in = w.in /\ v.inHandle = w.inHandle
      /\ v.outHandle = w.outHandle /\ (Carries(w) => Carries(v))
  BY <1>1, StallStalls DEF Directions
<1> HIDE DEF v
<1>4. InStalled(v)
  BY <1>1, <1>3 DEF InStalled
<1> QED BY <1>1, <1>2, <1>3, <1>4 DEF v

LEMMA PutEndpoint ==
  ASSUME NEW u \in Pair, NEW d \in Directions, NEW e \in Endpoint
  PROVE  LET v == [u EXCEPT ![d] = e]
         IN /\ v \in Pair /\ v[d] = e /\ \A b \in Directions \ {d} : v[b] = u[b]
            /\ v.inHandle = u.inHandle /\ v.outHandle = u.outHandle
BY DEF Pair, Directions

\* The entry is taken back and the application does not arm it again.
LEMMA TerminateFrees ==
  ASSUME NEW u \in Pair, NEW d \in Directions, NEW i \in Entries, NEW t \in {0, 1}, MSDCBWValid,
         d = "in" \/ i # u.out.next \/ ~USBHandleBusy(u[d], i)
  PROVE  LET v == Terminate(u, d, i, t)
         IN /\ v \in Pair /\ v.inHandle = u.inHandle /\ v.outHandle = u.outHandle
            /\ \A b \in Directions \ {d} : v[b] = u[b]
            /\ v[d].active = u[d].active /\ v[d].next = u[d].next
            /\ v[d].entry[i].own = "cpu" /\ v[d].entry[Other(i)] = u[d].entry[Other(i)]
            /\ Carries(u) => Carries(v)
<1> DEFINE e == Reclaim(u[d], i, t)
           r == [u EXCEPT ![d] = e]
<1>1. u[d] \in Endpoint
  BY PairShape DEF Directions
<1>2. /\ e \in Endpoint /\ e.active = u[d].active /\ e.next = u[d].next
      /\ e.entry[i].own = "cpu" /\ e.entry[Other(i)] = u[d].entry[Other(i)]
      /\ \A j \in Entries : e.entry[j].data = u[d].entry[j].data
                            /\ e.entry[j].cnt = u[d].entry[j].cnt
  BY <1>1, ReclaimFrees
<1>3. /\ r \in Pair /\ r[d] = e /\ \A b \in Directions \ {d} : r[b] = u[b]
      /\ r.inHandle = u.inHandle /\ r.outHandle = u.outHandle
  BY <1>2, PutEndpoint
<1>4. Terminate(u, d, i, t) = r
  <2>1. Terminate(u, d, i, t) = IF USBHandleBusy(u[d], i) THEN TransferTerminated(r, d, i) ELSE r
    BY DEF Terminate, Pair
  <2> HIDE DEF e, r
  <2>2. d = "out" => r.out.next = u.out.next
    BY <1>2, <1>3, PairShape
  <2>3. d = "in" \/ i # u.out.next => TransferTerminated(r, d, i) = r
    BY <2>2 DEF TransferTerminated, Directions
  <2> QED BY <2>1, <2>3
<1> HIDE DEF e, r
<1>5. Carries(u) => Carries(r)
  BY <1>2, <1>3 DEF Carries
<1> QED BY <1>2, <1>3, <1>4, <1>5

\* The entry that the SIE is on is taken back from it and armed for a CBW.
LEMMA TerminateArms ==
  ASSUME NEW u \in Pair, NEW i \in Entries, NEW t \in {0, 1}, MSDCBWValid,
         i = u.out.next, i = u.out.active, USBHandleBusy(u.out, i), u.out.entry[Other(i)].own = "cpu"
  PROVE  LET v == Terminate(u, "out", i, t)
         IN /\ v \in Pair /\ v.in = u.in /\ v.inHandle = u.inHandle
            /\ OutAt(v, CbwBuffer) /\ OutArmed(v)
            /\ Carries(u) => Carries(v)
<1> DEFINE e == Reclaim(u["out"], i, t)
           r == [u EXCEPT !["out"] = e]
<1>1. "out" \in Directions /\ u.out \in Endpoint /\ u["out"] = u.out
  BY PairShape DEF Directions
<1>2. /\ e \in Endpoint /\ e.active = i /\ e.next = i
      /\ e.entry[i].own = "cpu" /\ e.entry[Other(i)].own = "cpu"
      /\ \A j \in Entries : e.entry[j].data = u.out.entry[j].data
                            /\ e.entry[j].cnt = u.out.entry[j].cnt
  BY <1>1, ReclaimFrees
<1>3. r \in Pair /\ r["out"] = e /\ r["in"] = u["in"] /\ r.inHandle = u.inHandle
  BY <1>1, <1>2, PutEndpoint DEF Directions
<1>4. Terminate(u, "out", i, t) = TransferTerminated(r, "out", i)
  BY <1>1 DEF Terminate, Pair
<1> HIDE DEF e, r
<1>5. r.out = e /\ r.in = u.in
  BY <1>3, PairShape
<1>6. Terminate(u, "out", i, t) = Rx(r, CbwBuffer)
  BY <1>2, <1>4, <1>5 DEF TransferTerminated
<1>7. Idle(r.out)
  BY <1>2, <1>5, EntriesLaw DEF Idle
<1>8. Carries(u) => Carries(r)
  BY <1>2, <1>3, PairShape DEF Carries, Directions
<1> QED BY <1>3, <1>5, <1>6, <1>7, <1>8, RxArms, BuffersOfDrive DEF SieBuffers

LEMMA StalledTerminates ==
  ASSUME NEW u \in Pair, NEW d \in Directions, NEW i \in Entries, NEW t \in {0, 1}, ~MSDCBWValid,
         InStalled(u), OutStalled(u)
  PROVE  LET v == Terminate(u, d, i, t)
         IN /\ v \in Pair /\ InStalled(v) /\ OutStalled(v)
            /\ Carries(u) => Carries(v)
<1> DEFINE e == Reclaim(u[d], i, t)
           r == [u EXCEPT ![d] = e]
<1>1. u[d] \in Endpoint /\ USBHandleBusy(u[d], i)
  BY PairShape DEF Directions, InStalled, OutStalled, AllStalled, USBHandleBusy
<1>2. /\ e \in Endpoint
      /\ \A j \in Entries : e.entry[j].data = u[d].entry[j].data
                            /\ e.entry[j].cnt = u[d].entry[j].cnt
  BY <1>1, ReclaimFrees
<1>3. r \in Pair /\ r[d] = e /\ \A b \in Directions \ {d} : r[b] = u[b]
  BY <1>2, PutEndpoint
<1>4. Terminate(u, d, i, t) = StallBoth(r)
  BY <1>1 DEF Terminate, TransferTerminated, Pair
<1> HIDE DEF e, r
<1>5. Carries(u) => Carries(r)
  BY <1>2, <1>3 DEF Carries
<1> QED BY <1>3, <1>4, <1>5, StallBothStalls

\* Clear halt takes both entries of the endpoint back.  On OUT, if the SIE was on a busy one, it
\* is armed for a CBW; after an invalid CBW everything answers STALL again.
LEMMA ClearHaltClears ==
  ASSUME usb \in Pair, NEW d \in Directions, ClearHalt(d),
         ~MSDCBWValid => InStalled(usb) /\ OutStalled(usb)
  PROVE  /\ usb' \in Pair
         /\ Carries(usb) => Carries(usb')
         /\ ~MSDCBWValid => InStalled(usb') /\ OutStalled(usb')
         /\ MSDCBWValid /\ d = "in" => /\ InIdle(usb')
                                       /\ usb'.out = usb.out /\ usb'.outHandle = usb.outHandle
         /\ MSDCBWValid /\ d = "out" =>
              /\ usb'.in = usb.in /\ usb'.inHandle = usb.inHandle
              /\ OutIdle(usb) => OutIdle(usb')
              /\ Active(usb.out).own # "cpu" => OutAt(usb', CbwBuffer) /\ OutArmed(usb')
<1> DEFINE a == usb[d].active
           f == [usb[d] EXCEPT !.next = a]
           s == [usb EXCEPT ![d] = f]
           w == Terminate(s, d, Other(a), 1)
<1>1. usb[d] \in Endpoint /\ a \in Entries /\ Other(a) \in Entries /\ Other(a) # a
  BY PairShape, EntriesLaw DEF Directions
<1>2. f \in Endpoint /\ f.next = a /\ f.active = a /\ f.entry = usb[d].entry
  BY <1>1 DEF Endpoint
<1>3. usb' = Terminate(w, d, a, 0)
  <2>1. [usb EXCEPT ![d].next = a] = s
    BY DEF Pair
  <2> QED BY <2>1 DEF ClearHalt
<1>4. /\ s \in Pair /\ s[d] = f /\ \A b \in Directions \ {d} : s[b] = usb[b]
      /\ s.inHandle = usb.inHandle /\ s.outHandle = usb.outHandle
  BY <1>2, PutEndpoint
<1>5. Carries(usb) => Carries(s)
  BY <1>2, <1>4 DEF Carries
<1> HIDE DEF a, f, s
<1>6. CASE ~MSDCBWValid
  <2>1. InStalled(s) /\ OutStalled(s)
    BY <1>2, <1>4, <1>6, PairShape DEF InStalled, OutStalled, AllStalled, Directions
  <2>2. w \in Pair /\ InStalled(w) /\ OutStalled(w) /\ (Carries(s) => Carries(w))
    BY <1>1, <1>4, <1>6, <2>1, StalledTerminates
  <2> HIDE DEF w
  <2> QED BY <1>1, <1>3, <1>5, <1>6, <2>2, StalledTerminates
<1>7. CASE MSDCBWValid
  <2>1. d = "in" \/ Other(a) # s.out.next
    BY <1>1, <1>2, <1>4, PairShape DEF Directions
  <2>2. /\ w \in Pair /\ w.inHandle = usb.inHandle /\ w.outHandle = usb.outHandle
        /\ \A b \in Directions \ {d} : w[b] = usb[b]
        /\ w[d].active = a /\ w[d].next = a
        /\ w[d].entry[Other(a)].own = "cpu" /\ w[d].entry[a] = usb[d].entry[a]
        /\ Carries(usb) => Carries(w)
    <3>1. /\ w \in Pair /\ w.inHandle = s.inHandle /\ w.outHandle = s.outHandle
          /\ \A b \in Directions \ {d} : w[b] = s[b]
          /\ w[d].active = s[d].active /\ w[d].next = s[d].next
          /\ w[d].entry[Other(a)].own = "cpu"
          /\ w[d].entry[Other(Other(a))] = s[d].entry[Other(Other(a))]
          /\ Carries(s) => Carries(w)
      BY <1>1, <1>4, <1>7, <2>1, TerminateFrees
    <3> HIDE DEF w
    <3>2. Other(Other(a)) = a
      BY <1>1, EntriesLaw
    <3> QED BY <1>2, <1>4, <1>5, <3>1, <3>2
  <2> HIDE DEF w
  <2>3. CASE d = "in" \/ usb[d].entry[a].own = "cpu"
    <3>1. d = "in" \/ ~USBHandleBusy(w[d], a)
      BY <2>2, <2>3 DEF USBHandleBusy
    <3>2. /\ usb' \in Pair /\ usb'.inHandle = w.inHandle /\ usb'.outHandle = w.outHandle
          /\ \A b \in Directions \ {d} : usb'[b] = w[b]
          /\ usb'[d].active = a /\ usb'[d].next = a
          /\ usb'[d].entry[a].own = "cpu" /\ usb'[d].entry[Other(a)] = w[d].entry[Other(a)]
          /\ Carries(w) => Carries(usb')
      BY <1>1, <1>3, <1>7, <2>2, <3>1, TerminateFrees
    <3>3. Idle(usb'[d])
      BY <1>1, <2>2, <3>2, EntriesLaw DEF Idle
    <3>4. d = "in" => InIdle(usb') /\ usb'.out = usb.out /\ usb'.outHandle = usb.outHandle
      BY <2>2, <3>2, <3>3, PairShape DEF InIdle, Directions
    <3>5. d = "out" => /\ usb'.in = usb.in /\ usb'.inHandle = usb.inHandle
                       /\ OutIdle(usb) => OutIdle(usb')
      BY <1>2, <2>2, <3>2, <3>3, PairShape DEF OutIdle, Directions, a
    <3>6. d = "out" => Active(usb.out).own = "cpu"
      BY <2>3, PairShape DEF Active, a, Directions
    <3> QED BY <1>7, <2>2, <3>2, <3>4, <3>5, <3>6
  <2>4. CASE d = "out" /\ usb[d].entry[a].own # "cpu"
    <3>1. w.out = w[d] /\ usb.out = usb[d]
      BY <2>2, <2>4, PairShape
    <3>2. /\ a = w.out.next /\ a = w.out.active /\ USBHandleBusy(w.out, a)
          /\ w.out.entry[Other(a)].own = "cpu"
      BY <2>2, <2>4, <3>1 DEF USBHandleBusy
    <3>3. /\ usb' \in Pair /\ usb'.in = w.in /\ usb'.inHandle = w.inHandle
          /\ OutAt(usb', CbwBuffer) /\ OutArmed(usb') /\ (Carries(w) => Carries(usb'))
      BY <1>1, <1>3, <1>7, <2>2, <2>4, <3>2, TerminateArms
    <3>4. w.in = usb.in
      BY <2>2, <2>4, PairShape DEF Directions
    <3>5. ~OutIdle(usb)
      BY <1>1, <2>4, <3>1 DEF OutIdle, Idle
    <3> QED BY <1>7, <2>2, <2>4, <3>3, <3>4, <3>5
  <2> QED BY <2>3, <2>4 DEF Directions
<1> QED BY <1>6, <1>7

LEMMA ActiveShape ==
  ASSUME NEW u \in Pair
  PROVE  /\ InIdle(u) => Active(u.in).own = "cpu"
         /\ InData(u) \/ InCsw(u) \/ InDataCsw(u) => Active(u.in).own = "armed"
         /\ InStalled(u) \/ InHalted(u) => Active(u.in).own = "stall"
         /\ OutIdle(u) => Active(u.out).own = "cpu"
         /\ OutArmed(u) \/ OutTwice(u) => Active(u.out).own = "armed"
         /\ OutStalled(u) \/ OutHalted(u) => Active(u.out).own = "stall"
BY PairShape DEF InIdle, InData, InCsw, InDataCsw, InStalled, InHalted, OutIdle, OutArmed, OutTwice,
   OutStalled, OutHalted, Idle, OneArmed, TwoArmed, AllStalled, Halted, Active

\* A packet has moved.
LEMMA InTaken ==
  ASSUME NEW u \in Pair, NEW v \in Pair, NEW cnt \in Int,
         v.in = Complete(u.in, cnt), v.inHandle = u.inHandle
  PROVE  /\ InData(u) \/ InCsw(u) => InIdle(v)
         /\ InDataCsw(u) => InCsw(v)
<1>1. u.in \in Endpoint /\ u.in.active \in Entries
  BY PairShape
<1>2. /\ v.in.active = Other(u.in.active)
      /\ OneArmed(u.in) => Idle(v.in)
      /\ TwoArmed(u.in) => OneArmed(v.in) /\ Active(v.in) = u.in.entry[Other(u.in.active)]
  BY <1>1, CompleteFrees
<1>3. InData(u) \/ InCsw(u) => InIdle(v)
  BY <1>2 DEF InData, InCsw, InIdle
<1>4. InDataCsw(u) => InCsw(v)
  BY <1>2 DEF InDataCsw, InCsw
<1> QED BY <1>3, <1>4

LEMMA OutTaken ==
  ASSUME NEW u \in Pair, NEW v \in Pair, NEW cnt \in Int,
         v.out = Complete(u.out, cnt), v.outHandle = u.outHandle, OutArmed(u)
  PROVE  OutIdle(v) /\ v.out.entry[v.outHandle].cnt = cnt
<1>1. u.out \in Endpoint /\ u.out.active \in Entries /\ u.outHandle = u.out.active /\ OneArmed(u.out)
  BY PairShape DEF OutArmed
<1>2. /\ v.out.active = Other(u.out.active) /\ v.out.entry[u.out.active].cnt = cnt
      /\ OneArmed(u.out) => Idle(v.out)
  BY <1>1, CompleteFrees
<1> QED BY <1>1, <1>2, EntriesLaw DEF OutIdle

\* SET_FEATURE(ENDPOINT_HALT) on an endpoint.
LEMMA SetHaltHalts ==
  ASSUME usb \in Pair, NEW d \in Directions, SetHalt(d)
  PROVE  /\ usb' \in Pair /\ (\A b \in Directions \ {d} : usb'[b] = usb[b])
         /\ usb'.inHandle = usb.inHandle /\ usb'.outHandle = usb.outHandle
         /\ Carries(usb) => Carries(usb')
         /\ AllStalled(usb[d]) => AllStalled(usb'[d])
         /\ Idle(usb[d]) \/ OneArmed(usb[d]) => Halted(usb'[d])
         /\ \A i \in Entries : USBHandleBusy(usb[d], i) => USBHandleBusy(usb'[d], i)
<1> DEFINE a == usb[d].active
           r == [usb[d].entry[a] EXCEPT !.own = "stall"]
           x == [usb[d] EXCEPT !.next = a]
           e == [entry |-> [usb[d].entry EXCEPT ![a] = r], next |-> a, active |-> a]
<1>1. usb[d] \in Endpoint /\ a \in Entries
  BY PairShape DEF Directions, Endpoint
<1>2. /\ r \in Entry /\ r.own = "stall"
      /\ r.data = usb[d].entry[a].data /\ r.cnt = usb[d].entry[a].cnt
  BY <1>1 DEF Entry, Endpoint
<1>3. usb' = [usb EXCEPT ![d] = [x EXCEPT !.entry[a] = r]]
  BY <1>1 DEF SetHalt, Endpoint, Pair
<1> HIDE DEF r
<1>4. x \in Endpoint /\ x.entry = usb[d].entry /\ x.next = a /\ x.active = a
  BY <1>1 DEF Endpoint
<1> HIDE DEF x
<1>5. [x EXCEPT !.entry[a] = r] = e
  BY <1>1, <1>2, <1>4, NewEntry
<1>6. /\ e \in Endpoint /\ e.entry[a] = r /\ e.entry[Other(a)] = usb[d].entry[Other(a)]
      /\ e.next = a /\ e.active = a
  BY <1>1, <1>2, NewEntryShape
<1>7. /\ usb' \in Pair /\ usb'[d] = e /\ (\A b \in Directions \ {d} : usb'[b] = usb[b])
      /\ usb'.inHandle = usb.inHandle /\ usb'.outHandle = usb.outHandle
  <2>1. usb' = [usb EXCEPT ![d] = e]
    BY <1>3, <1>5
  <2>2. e \in Endpoint
    BY <1>6
  <2> HIDE DEF e
  <2> DEFINE v == [usb EXCEPT ![d] = e]
  <2>3. /\ v \in Pair /\ v[d] = e /\ (\A b \in Directions \ {d} : v[b] = usb[b])
        /\ v.inHandle = usb.inHandle /\ v.outHandle = usb.outHandle
    BY <2>2, PutEndpoint
  <2>4. usb' = v
    BY <2>1
  <2> HIDE DEF v
  <2> QED BY <2>3, <2>4
<1> HIDE DEF e
<1>8. \A i \in Entries : i = a \/ i = Other(a)
  BY <1>1, EntriesLaw
<1>9. Carries(usb) => Carries(usb')
  BY <1>2, <1>6, <1>7, <1>8 DEF Carries
<1>10. AllStalled(usb[d]) => AllStalled(e)
  BY <1>2, <1>6, <1>8 DEF AllStalled
<1>11. Idle(usb[d]) \/ OneArmed(usb[d]) => Halted(e)
  BY <1>1, <1>2, <1>6, EntriesLaw DEF Idle, OneArmed, Halted, Active
<1>12. \A i \in Entries : USBHandleBusy(usb[d], i) => USBHandleBusy(e, i)
  BY <1>2, <1>6, <1>8 DEF USBHandleBusy
<1> QED BY <1>7, <1>9, <1>10, <1>11, <1>12

\* The drive just configured: it waits for a CBW.
LEMMA ConfiguredPair ==
  LET e == USBConfigureEndpoint
      v == [in |-> e, out |-> e, inHandle |-> 0, outHandle |-> 0]
      w == Rx(v, CbwBuffer)
  IN v \in Pair /\ w \in Pair /\ InIdle(w) /\ OutAt(w, CbwBuffer) /\ OutArmed(w) /\ Carries(w)
<1> DEFINE e == USBConfigureEndpoint
           v == [in |-> e, out |-> e, inHandle |-> 0, outHandle |-> 0]
<1>1. /\ e \in Endpoint /\ Idle(e)
      /\ \A i \in Entries : e.entry[i].data \in SieBuffers /\ e.entry[i].cnt \in Nat
  BY ConfiguredShape DEF USBConfigureEndpoint, Idle, SieBuffers
<1> HIDE DEF e
<1>2. v \in Pair /\ Idle(v.in) /\ Idle(v.out) /\ Carries(v)
  BY <1>1 DEF Pair, Carries, Directions, Entries
<1> HIDE DEF v
<1>3. InIdle(v)
  BY <1>2 DEF InIdle
<1>4. CbwBuffer \in Buffers /\ CbwBuffer \in SieBuffers
  BY BuffersOfDrive DEF SieBuffers
<1>5. /\ Rx(v, CbwBuffer) \in Pair /\ OutAt(Rx(v, CbwBuffer), CbwBuffer)
      /\ OutArmed(Rx(v, CbwBuffer)) /\ Carries(Rx(v, CbwBuffer)) /\ InIdle(Rx(v, CbwBuffer))
  BY <1>2, <1>3, <1>4, RxArms DEF InIdle
<1> QED BY <1>2, <1>5 DEF v, e

LEMMA ConfigurationShape ==
  ASSUME NEW u \in Pair
  PROVE  LET w == APP_DeviceMSDInitialize(ClearedPair(u))
         IN w \in Pair /\ InIdle(w) /\ OutAt(w, CbwBuffer) /\ OutArmed(w) /\ Carries(w)
<1> DEFINE e == USBConfigureEndpoint
           c == ClearedPair(u)
           p == [c EXCEPT !["out"] = e]
           q == [p EXCEPT !["in"] = e]
           v == [q EXCEPT !.inHandle = 0]
<1>0. c \in Pair
  BY ClearedShape
<1>1. /\ e \in Endpoint /\ Idle(e)
      /\ \A i \in Entries : e.entry[i].data \in SieBuffers /\ e.entry[i].cnt \in Nat
  BY ConfiguredShape DEF USBConfigureEndpoint, Idle, SieBuffers
<1>2. APP_DeviceMSDInitialize(c) = Rx(v, CbwBuffer)
  BY DEF APP_DeviceMSDInitialize, USBEnableEndpoint
<1> HIDE DEF e, c
<1>3. v \in Pair /\ v["in"] = e /\ v["out"] = e
  <2>1. p \in Pair /\ p["out"] = e
    BY <1>0, <1>1 DEF Pair
  <2> HIDE DEF p
  <2>2. q \in Pair /\ q["in"] = e /\ q["out"] = e
    BY <1>1, <2>1 DEF Pair
  <2> HIDE DEF q
  <2>3. v \in Pair /\ v["in"] = e /\ v["out"] = e
    BY <2>2 DEF Pair, Entries
  <2> QED BY <2>3
<1> HIDE DEF v
<1>4. v.in = e /\ v.out = e /\ InIdle(v) /\ Carries(v)
  BY <1>1, <1>3, PairShape DEF Carries, Directions, InIdle
<1>5. CbwBuffer \in Buffers /\ CbwBuffer \in SieBuffers
  BY BuffersOfDrive DEF SieBuffers
<1>6. /\ Rx(v, CbwBuffer) \in Pair /\ OutAt(Rx(v, CbwBuffer), CbwBuffer)
      /\ OutArmed(Rx(v, CbwBuffer)) /\ Carries(Rx(v, CbwBuffer)) /\ InIdle(Rx(v, CbwBuffer))
  BY <1>1, <1>3, <1>4, <1>5, RxArms DEF InIdle
<1> QED BY <1>2, <1>6 DEF c

----------------------------------------------------------------------------
(* Where host and drive are in a command.                                   *)

Serving == MSD_State \in {"DATA_IN", "DATA_OUT"}

\* Host and drive are not in the middle of clearing the halts.
Settled ==
  \/ setup \in {"MSD_RESET", "SET_HALT_IN", "SET_HALT_OUT"}
  \/ host \in {"data", "status", "retry", "recover"}
  \/ host = "ready" /\ setup # "CLEAR_HALT_OUT"

ControlTypes ==
  /\ setup \in {"none", "MSD_RESET", "SET_HALT_IN", "SET_HALT_OUT", "CLEAR_HALT_IN",
                "CLEAR_HALT_OUT", "BUS_RESET", "SET_CONFIGURATION"}
  /\ configured \in BOOLEAN /\ MSDCBWValid \in BOOLEAN
  /\ MSD_State \in MsdStates
  /\ MSDCommandState \in Operations \cup {"WAIT", "RESPONSE"}
  /\ MSDReadState \in ReadStates /\ MSDWriteState \in WriteStates
  /\ host \in {"ready", "data", "status", "retry", "recover", "clear in", "clear out",
               "configure"}

\* Data moves in one direction: a packet on IN is of an answer or a read, the entry on OUT is
\* armed for the next chunk of a write.
WhileServing ==
  Serving =>
    /\ MSDReadState # "WAIT" => MSDCommandState = "READ_10"
    /\ MSDWriteState # "WAIT" => MSDCommandState = "WRITE_10"
    /\ InIdle(usb) \/ (InData(usb) /\ (MSDCommandState = "RESPONSE" \/ MSDReadState # "WAIT"))
    /\ OutIdle(usb) \/ (OutAt(usb, DataBuffer(ptrNextData)) /\ MSDWriteState = "RX_PACKET")

WhileReporting ==
  MSD_State = "SEND_CSW" =>
    /\ InIdle(usb) \/ InData(usb) \/ InStalled(usb)
    /\ OutIdle(usb) \/ OutAt(usb, CbwBuffer) \/ OutStalled(usb)

WhileWaiting ==
  MSD_State = "WAIT" =>
    /\ \/ InIdle(usb) \/ InCsw(usb) \/ InDataCsw(usb) \/ InStalled(usb)
       \/ ~Settled /\ (InData(usb) \/ InHalted(usb))
    /\ \/ OutIdle(usb) \/ OutAt(usb, CbwBuffer) \/ OutStalled(usb)
       \/ ~Settled /\ (OutArmed(usb) \/ OutTwice(usb) \/ OutHalted(usb))
    /\ ~OutBusy /\ msd_cbw.form # "invalid" => InIdle(usb) /\ OutIdle(usb) /\ msd_cbw = cmd

\* The drive has nothing to do until the host sends a CBW.
Quiet == MSD_State = "WAIT" /\ (OutBusy \/ msd_cbw.form = "invalid")

\* The request that waits for the drive, and what the host does after it.
Requests ==
  /\ setup \in {"MSD_RESET", "SET_HALT_IN"} => host = "clear in"
  /\ setup = "SET_HALT_OUT" => host = "clear out"
  /\ setup = "CLEAR_HALT_IN" => host \in {"status", "retry", "clear out"}
  /\ setup = "CLEAR_HALT_OUT" => host \in {"status", "ready"}
  /\ setup = "BUS_RESET" => host = "configure"
  /\ setup = "SET_CONFIGURATION" => host = "ready" /\ ~configured
  /\ ~configured => host = "configure" \/ setup = "SET_CONFIGURATION"
  /\ host = "configure" => ~configured \/ setup = "BUS_RESET"

WithHost ==
  /\ host \in {"ready", "clear out"} \/ (host = "clear in" /\ setup # "MSD_RESET") => Quiet
  /\ host = "ready" \/ (host = "clear out" /\ setup # "CLEAR_HALT_IN") \/ setup = "SET_HALT_IN"
       => InIdle(usb) \/ ~MSDCBWValid
  /\ setup = "CLEAR_HALT_IN" /\ host # "clear out" => InStalled(usb)
  /\ setup = "CLEAR_HALT_OUT" /\ host # "ready" => OutStalled(usb)

Coupled == WhileServing /\ WhileReporting /\ WhileWaiting /\ WithHost

ControlInv == ControlTypes /\ Requests /\ (configured => Coupled)

\* An invalid CBW: nothing but stalled entries, and the drive waits.
LEMMA LockedShape ==
  ASSUME IndInv, configured, ~MSDCBWValid
  PROVE  MSD_State = "WAIT" /\ InStalled(usb) /\ OutStalled(usb)
BY PairShape DEF IndInv, Types, Locked, InStalled, OutStalled, Directions

\* What the handles say in each shape.
LEMMA BusyShape ==
  ASSUME usb \in Pair
  PROVE  /\ InIdle(usb) => ~InBusy
         /\ InData(usb) \/ InCsw(usb) \/ InDataCsw(usb) \/ InStalled(usb) => InBusy
         /\ OutIdle(usb) => ~OutBusy
         /\ OutArmed(usb) \/ OutTwice(usb) \/ OutStalled(usb) => OutBusy
         /\ \A b : OutAt(usb, b) => OutArmed(usb)
BY InBusyShape, OutBusyShape DEF InBusy, OutBusy, OutAt

\* While the drive works on a command, the host does not believe it at rest.
AtWork ==
  /\ host \notin {"ready", "clear out"}
  /\ host = "clear in" => setup = "MSD_RESET"
  /\ setup \notin {"CLEAR_HALT_IN", "CLEAR_HALT_OUT", "SET_HALT_IN", "SET_HALT_OUT"}

LEMMA ServingAtWork ==
  ASSUME IndInv, ControlInv, configured, Serving
  PROVE  /\ AtWork /\ MSDCBWValid
         /\ MSDReadState # "WAIT" => MSDCommandState = "READ_10"
         /\ MSDWriteState # "WAIT" => MSDCommandState = "WRITE_10"
         /\ InIdle(usb) \/ (InData(usb) /\ (MSDCommandState = "RESPONSE" \/ MSDReadState # "WAIT"))
         /\ OutIdle(usb) \/ (OutAt(usb, DataBuffer(ptrNextData)) /\ MSDWriteState = "RX_PACKET")
         /\ InBusy => InData(usb)
         /\ ~InBusy => InIdle(usb)
         /\ OutBusy => MSDWriteState = "RX_PACKET"
         /\ ~OutBusy => OutIdle(usb)
<1>1. usb \in Pair
  BY DEF IndInv, Types
<1>2. /\ MSDReadState # "WAIT" => MSDCommandState = "READ_10"
      /\ MSDWriteState # "WAIT" => MSDCommandState = "WRITE_10"
      /\ InIdle(usb) \/ (InData(usb) /\ (MSDCommandState = "RESPONSE" \/ MSDReadState # "WAIT"))
      /\ OutIdle(usb) \/ (OutAt(usb, DataBuffer(ptrNextData)) /\ MSDWriteState = "RX_PACKET")
  BY DEF ControlInv, Coupled, WhileServing
<1>3. /\ ~InStalled(usb) /\ ~OutStalled(usb)
      /\ InBusy => InData(usb)
      /\ ~InBusy => InIdle(usb)
      /\ OutBusy => MSDWriteState = "RX_PACKET"
      /\ ~OutBusy => OutIdle(usb)
  BY <1>1, <1>2, ActiveShape, BusyShape
<1>4. MSDCBWValid
  BY <1>3, LockedShape DEF ControlInv, ControlTypes
<1>5. AtWork
  <2>1. ~Quiet
    BY DEF Quiet, Serving
  <2> QED BY <1>3, <2>1 DEF ControlInv, Coupled, Requests, WithHost, AtWork
<1> QED BY <1>2, <1>3, <1>4, <1>5

\* A step of MSDTasks from the middle of a command into the middle of it or to its status.
LEMMA WorkControl ==
  ASSUME IndInv, ControlInv, configured, Serving, UNCHANGED <<controlVars, hostVars>>,
         ControlTypes', MSD_State' # "WAIT", WhileServing', WhileReporting'
  PROVE  ControlInv'
<1>1. UNCHANGED <<setup, configured, host>>
  BY DEF controlVars, hostVars
<1>2. AtWork
  BY ServingAtWork
<1>3. WithHost'
  BY <1>1, <1>2 DEF WithHost, AtWork
<1>4. Requests'
  BY <1>1 DEF ControlInv, Requests
<1>5. WhileWaiting'
  BY DEF WhileWaiting
<1> QED BY <1>3, <1>4, <1>5 DEF ControlInv, Coupled

\* The command ends: its last packet, if there is one, may still have to go out.
LEMMA FinishControl ==
  ASSUME IndInv, ControlInv, configured, Serving, MSDWriteState # "RX_PACKET",
         UNCHANGED <<controlVars, hostVars>>, NEW c, Finish(c),
         \/ usb' = usb
         \/ \E d \in Directions : usb' = Stall(usb, d)
         \/ InIdle(usb) /\ \E len \in Int : usb' = Tx(usb, DataBuffer(0), len)
  PROVE  ControlInv'
<1>1. usb \in Pair /\ (InIdle(usb) \/ InData(usb)) /\ OutIdle(usb)
  BY ServingAtWork DEF IndInv, Types
<1>2. /\ InIdle(usb') \/ InData(usb') \/ InStalled(usb')
      /\ OutIdle(usb') \/ OutStalled(usb')
  <2>1. CASE usb' = usb
    BY <1>1, <2>1
  <2>2. CASE \E d \in Directions : usb' = Stall(usb, d)
    <3> PICK d \in Directions : usb' = Stall(usb, d)
      BY <2>2
    <3>1. CASE d = "in"
      <4>1. InStalled(usb') /\ usb'.out = usb.out /\ usb'.outHandle = usb.outHandle
        BY <1>1, <3>1, StallStalls
      <4> QED BY <1>1, <4>1 DEF OutIdle
    <3>2. CASE d = "out"
      <4>1. OutStalled(usb') /\ usb'.in = usb.in /\ usb'.inHandle = usb.inHandle
        BY <1>1, <3>2, StallStalls
      <4> QED BY <1>1, <4>1 DEF InIdle, InData
    <3> QED BY <3>1, <3>2 DEF Directions
  <2>3. CASE InIdle(usb) /\ \E len \in Int : usb' = Tx(usb, DataBuffer(0), len)
    <3> PICK len \in Int : usb' = Tx(usb, DataBuffer(0), len)
      BY <2>3
    <3>1. DataBuffer(0) \in Buffers /\ DataBuffer(0) # CswBuffer
      BY BuffersOfDrive DEF DataBuffer, CswBuffer
    <3>2. InData(usb') /\ usb'.out = usb.out /\ usb'.outHandle = usb.outHandle
      BY <1>1, <2>3, <3>1, TxArms
    <3> QED BY <1>1, <3>2 DEF OutIdle
  <2> QED BY <2>1, <2>2, <2>3
<1>3. /\ MSD_State' = "SEND_CSW" /\ MSDCommandState' = "WAIT"
      /\ MSDReadState' = "WAIT" /\ MSDWriteState' = "WAIT"
  BY DEF Finish
<1>4. ControlTypes'
  BY <1>3 DEF ControlInv, ControlTypes, MsdStates, ReadStates, WriteStates, controlVars, hostVars
<1>5. WhileServing' /\ WhileReporting'
  BY <1>2, <1>3 DEF WhileServing, WhileReporting, Serving
<1> QED BY <1>3, <1>4, <1>5, WorkControl

\* The work goes on, with nothing asked of the SIE.
LEMMA GoOnControl ==
  ASSUME IndInv, ControlInv, configured, Serving, UNCHANGED <<controlVars, hostVars>>, usb' = usb,
         ControlTypes', Serving',
         MSDReadState' # "WAIT" => MSDCommandState' = "READ_10",
         MSDWriteState' # "WAIT" => MSDCommandState' = "WRITE_10",
         InData(usb) => MSDCommandState' = "RESPONSE" \/ MSDReadState' # "WAIT",
         OutIdle(usb)
  PROVE  ControlInv'
<1>1. InIdle(usb) \/ InData(usb)
  BY ServingAtWork
<1>2. WhileServing' /\ WhileReporting' /\ MSD_State' # "WAIT"
  BY <1>1 DEF WhileServing, WhileReporting, Serving
<1> QED BY <1>2, WorkControl

\* ... with a packet to send.
LEMMA TransmitControl ==
  ASSUME IndInv, ControlInv, configured, Serving, UNCHANGED <<controlVars, hostVars>>,
         NEW k \in Int, NEW len \in Int, usb' = Tx(usb, DataBuffer(k), len), InIdle(usb),
         ControlTypes', Serving',
         MSDReadState' # "WAIT" => MSDCommandState' = "READ_10", MSDWriteState' = "WAIT",
         MSDCommandState' = "RESPONSE" \/ MSDReadState' # "WAIT",
         OutIdle(usb)
  PROVE  ControlInv'
<1>1. usb \in Pair /\ DataBuffer(k) \in Buffers /\ DataBuffer(k) # CswBuffer
  BY BuffersOfDrive DEF IndInv, Types, DataBuffer, CswBuffer
<1>2. InData(usb') /\ usb'.out = usb.out /\ usb'.outHandle = usb.outHandle
  BY <1>1, TxArms
<1>3. OutIdle(usb')
  BY <1>2 DEF OutIdle
<1>4. WhileServing' /\ WhileReporting' /\ MSD_State' # "WAIT"
  BY <1>2, <1>3 DEF WhileServing, WhileReporting, Serving
<1> QED BY <1>4, WorkControl

\* ... with a packet of a write to come, or to wait for.
LEMMA ReceiveControl ==
  ASSUME IndInv, ControlInv, configured, Serving, UNCHANGED <<controlVars, hostVars>>,
         MSDCommandState = "WRITE_10", MSDReadState = "WAIT",
         ReceiveChunk(ptrNextData'), ptrNextData' \in Int, OutIdle(usb),
         MSDCommandState' = MSDCommandState, MSDReadState' = MSDReadState, Serving'
  PROVE  ControlInv'
<1>1. usb \in Pair /\ DataBuffer(ptrNextData') \in Buffers
  BY BuffersOfDrive DEF IndInv, Types
<1>2. InIdle(usb) /\ ~OutBusy
  BY <1>1, ServingAtWork, BusyShape
<1>3. usb' = Rx(usb, DataBuffer(ptrNextData')) /\ MSDWriteState' = "RX_PACKET"
  BY <1>2 DEF ReceiveChunk
<1>4. usb'.in = usb.in /\ OutAt(usb', DataBuffer(ptrNextData'))
  BY <1>1, <1>3, RxArms DEF OutIdle
<1>5. InIdle(usb')
  BY <1>2, <1>4 DEF InIdle
<1>6. ControlTypes'
  BY <1>3 DEF ControlInv, ControlTypes, Serving, MsdStates, WriteStates, controlVars, hostVars
<1>7. WhileServing' /\ WhileReporting' /\ MSD_State' # "WAIT"
  BY <1>3, <1>4, <1>5 DEF WhileServing, WhileReporting, Serving
<1> QED BY <1>6, <1>7, WorkControl

\* A command that has just been taken finds the endpoints idle.
LEMMA StartingShape ==
  ASSUME IndInv, ControlInv, NEW op, Starting(op), op # "RESPONSE"
  PROVE  /\ configured /\ Serving /\ MSDCommandState = op
         /\ MSDReadState = "WAIT" /\ MSDWriteState = "WAIT"
         /\ usb \in Pair /\ InIdle(usb) /\ OutIdle(usb) /\ ~InBusy /\ ~OutBusy
<1>1. /\ configured /\ Serving /\ MSDCommandState = op
      /\ MSDReadState = "WAIT" /\ MSDWriteState = "WAIT" /\ usb \in Pair
  BY DEF Starting, Tasks, Serving, IndInv, Types
<1>2. InIdle(usb) /\ OutIdle(usb)
  BY <1>1, ServingAtWork
<1> QED BY <1>1, <1>2, BusyShape

\* An error is found with idle handles, so it is reported.
LEMMA ErrorReported ==
  ASSUME IndInv, ControlInv, NEW op, Starting(op), op # "RESPONSE",
         NEW stalled \in Directions \cup {"none"}, NEW status, NEW key,
         MSDErrorHandler(stalled, status, key)
  PROVE  /\ Finish([msd_csw EXCEPT !.residue = gblCBW.length, !.status = status])
         /\ usb' = IF stalled = "none" THEN usb ELSE Stall(usb, stalled)
         /\ sense' = key
<1>1. ~(InBusy \/ OutBusy)
  BY StartingShape
<1> QED BY <1>1 DEF MSDErrorHandler

\* MSDTasks reads a sector, or the next one: packets of it go out one by one.
LEMMA ReadSectorControl ==
  ASSUME IndInv, ControlInv, configured, Serving, MSDCommandState = "READ_10",
         UNCHANGED hostVars, NEW lba, NEW remaining, ReadSector(lba, remaining)
  PROVE  ControlInv'
<1>1. OutIdle(usb) /\ MSDWriteState = "WAIT" /\ (~InBusy => InIdle(usb))
  BY ServingAtWork
<1>2. UNCHANGED controlVars
  BY DEF ReadSector, AwaitBuffer, FetchSector, RetryRead, AbandonRead, readFrame, commandFrame
<1>3. CASE AwaitBuffer(lba) \/ RetryRead(lba)
  <2>1. /\ usb' = usb /\ MSDReadState' = "SECTOR"
        /\ UNCHANGED <<MSD_State, MSDCommandState, MSDWriteState>>
    BY <1>3 DEF AwaitBuffer, RetryRead, readFrame
  <2>2. ControlTypes' /\ Serving'
    BY <1>2, <2>1 DEF ControlInv, ControlTypes, ReadStates, Serving, controlVars, hostVars
  <2> QED BY <1>1, <1>2, <2>1, <2>2, GoOnControl
<1>4. CASE FetchSector(lba)
  <2>1. /\ usb' = Tx(usb, DataBuffer(0), EP_SIZE) /\ MSDReadState' = "TX_SECTOR" /\ ~InBusy
        /\ UNCHANGED <<MSD_State, MSDCommandState, MSDWriteState>> /\ EP_SIZE \in Int
    BY <1>4, SizesAssumption DEF FetchSector, TransmitChunk, readFrame
  <2>2. ControlTypes' /\ Serving'
    BY <1>2, <2>1 DEF ControlInv, ControlTypes, ReadStates, Serving, controlVars, hostVars
  <2> QED BY <1>1, <1>2, <2>1, <2>2, TransmitControl
<1>5. CASE AbandonRead(lba)
  <2>1. Finish([msd_csw EXCEPT !.status = "PHASE_ERROR"]) /\ usb' = Stall(usb, "in")
    BY <1>5 DEF AbandonRead
  <2> QED BY <1>1, <1>2, <2>1, FinishControl DEF Directions
<1> QED BY <1>3, <1>4, <1>5 DEF ReadSector

LEMMA CommandsControl ==
  ASSUME IndInv, ControlInv, UNCHANGED hostVars,
         \/ FailCheckedCommand \/ FailUnsupported \/ NoAnswerWanted \/ PreventAllowMediumRemoval
         \/ TestUnitReady \/ VerifyOrStopStart \/ PrepareResponse \/ SendResponse
         \/ ReadNothing \/ WriteProtected \/ WriteNothing
  PROVE  ControlInv'
<1>c. UNCHANGED controlVars
  BY DEF FailCheckedCommand, FailUnsupported, NoAnswerWanted, PreventAllowMediumRemoval,
     TestUnitReady, VerifyOrStopStart, PrepareResponse, SendResponse, ReadNothing,
     WriteProtected, WriteNothing, Conclude, commandFrame
<1>1. CASE FailCheckedCommand
  <2>1. PICK op \in {"READ_10", "WRITE_10", "INQUIRY", "TEST_UNIT_READY"} : Starting(op)
    BY <1>1 DEF FailCheckedCommand
  <2>2. \E stalled \in Directions \cup {"none"} : \E status, key :
          MSDErrorHandler(stalled, status, key)
    BY <1>1 DEF FailCheckedCommand, ErrorCase, Directions
  <2>3. \E stalled \in Directions \cup {"none"} : \E status :
          /\ Finish([msd_csw EXCEPT !.residue = gblCBW.length, !.status = status])
          /\ usb' = IF stalled = "none" THEN usb ELSE Stall(usb, stalled)
    BY <2>1, <2>2, ErrorReported
  <2> QED BY <1>c, <2>1, <2>3, StartingShape, FinishControl
<1>2. CASE FailUnsupported
  <2>1. Starting("UNSUPPORTED")
    BY <1>2 DEF FailUnsupported
  <2>2. \E stalled \in Directions \cup {"none"} : \E status, key :
          MSDErrorHandler(stalled, status, key)
    BY <1>2 DEF FailUnsupported, Directions
  <2>3. \E stalled \in Directions \cup {"none"} : \E status :
          /\ Finish([msd_csw EXCEPT !.residue = gblCBW.length, !.status = status])
          /\ usb' = IF stalled = "none" THEN usb ELSE Stall(usb, stalled)
    BY <2>1, <2>2, ErrorReported
  <2> QED BY <1>c, <2>1, <2>3, StartingShape, FinishControl
<1>3. CASE \/ NoAnswerWanted \/ PreventAllowMediumRemoval \/ TestUnitReady \/ VerifyOrStopStart
           \/ ReadNothing \/ WriteNothing
  <2>1. /\ \E op \in Operations : Starting(op) /\ op # "RESPONSE"
        /\ usb' = usb /\ \E c : Finish(c)
    BY <1>3 DEF NoAnswerWanted, PreventAllowMediumRemoval, TestUnitReady, VerifyOrStopStart,
       ReadNothing, WriteNothing, Conclude, Operations, Responses, ResponseSize
  <2> QED BY <1>c, <2>1, StartingShape, FinishControl
<1>4. CASE WriteProtected
  <2>1. Starting("WRITE_10") /\ usb' = Stall(usb, "out") /\ \E c : Finish(c)
    BY <1>4 DEF WriteProtected
  <2> QED BY <1>c, <2>1, StartingShape, FinishControl DEF Directions
<1>5. CASE PrepareResponse
  <2>1. PICK op \in Responses : Starting(op)
    BY <1>5 DEF PrepareResponse
  <2>2. /\ usb' = usb /\ MSDCommandState' = "RESPONSE"
        /\ UNCHANGED <<MSD_State, MSDReadState, MSDWriteState>>
    BY <1>5 DEF PrepareResponse
  <2>3. op # "RESPONSE"
    BY DEF Responses, ResponseSize
  <2>4. ControlTypes' /\ Serving'
    BY <1>c, <2>1, <2>2, <2>3, StartingShape
       DEF ControlInv, ControlTypes, Serving, controlVars, hostVars
  <2> QED BY <1>c, <2>1, <2>2, <2>3, <2>4, StartingShape, GoOnControl
<1>6. CASE SendResponse
  <2> DEFINE len == Least(EP_SIZE, gblCBW.length)
  <2>1. /\ configured /\ Serving /\ MSDCommandState = "RESPONSE" /\ ~InBusy
        /\ usb' = Tx(usb, DataBuffer(0), len)
        /\ (\E c : Finish(c)) \/ UNCHANGED <<machineVars, msd_csw>>
    BY <1>6 DEF SendResponse, Tasks, Serving
  <2>2. len \in Int
    BY SizesAssumption DEF Least, IndInv, Types, Counted
  <2> HIDE DEF len
  <2>3. MSDReadState = "WAIT" /\ MSDWriteState = "WAIT" /\ InIdle(usb) /\ OutIdle(usb)
    BY <2>1, ServingAtWork
  <2>4. CASE \E c : Finish(c)
    BY <1>c, <2>1, <2>2, <2>3, <2>4, FinishControl
  <2>5. CASE UNCHANGED <<machineVars, msd_csw>>
    <3>1. ControlTypes' /\ Serving'
      BY <1>c, <2>1, <2>5 DEF ControlInv, ControlTypes, Serving, machineVars, controlVars, hostVars
    <3> QED BY <1>c, <2>1, <2>2, <2>3, <2>5, <3>1, TransmitControl DEF machineVars
  <2> QED BY <2>1, <2>4, <2>5
<1> QED BY <1>1, <1>2, <1>3, <1>4, <1>5, <1>6

LEMMA ReadsControl ==
  ASSUME IndInv, ControlInv, UNCHANGED hostVars,
         ReadStart \/ ReadNextSector \/ ReadEnd \/ SectorTransmitted \/ TransmitPacket
  PROVE  ControlInv'
<1>1. CASE ReadStart
  <2>1. Starting("READ_10") /\ ReadSector(gblCBW.lba, gblCBW.count - 1)
    BY <1>1 DEF ReadStart
  <2> QED BY <2>1, StartingShape, ReadSectorControl
<1>2. CASE ReadNextSector
  <2>1. /\ configured /\ Serving /\ MSDCommandState = "READ_10"
        /\ \E lba, remaining : ReadSector(lba, remaining)
    BY <1>2 DEF ReadNextSector, Reading, Tasks, Serving
  <2> QED BY <2>1, ReadSectorControl
<1>3. CASE ReadEnd \/ SectorTransmitted \/ TransmitPacket
  <2>1. /\ configured /\ Serving /\ MSDCommandState = "READ_10" /\ UNCHANGED controlVars
    BY <1>3 DEF ReadEnd, SectorTransmitted, TransmitPacket, Reading, Tasks, Serving, readFrame,
       commandFrame
  <2>2. OutIdle(usb) /\ MSDWriteState = "WAIT" /\ (~InBusy => InIdle(usb))
    BY <2>1, ServingAtWork
  <2>3. CASE ReadEnd
    <3>1. usb' = usb /\ Finish(msd_csw)
      BY <2>3 DEF ReadEnd
    <3> QED BY <2>1, <2>2, <3>1, FinishControl
  <2>4. CASE SectorTransmitted \/ (TransmitPacket /\ InBusy)
    <3>1. /\ usb' = usb /\ MSDReadState' \in {"BLOCK", "TX_PACKET"}
          /\ UNCHANGED <<MSD_State, MSDCommandState, MSDWriteState>>
      BY <2>4 DEF SectorTransmitted, TransmitPacket, readFrame
    <3>2. ControlTypes' /\ Serving'
      BY <2>1, <3>1 DEF ControlInv, ControlTypes, ReadStates, Serving, controlVars, hostVars
    <3> QED BY <2>1, <2>2, <3>1, <3>2, GoOnControl
  <2>5. CASE TransmitPacket /\ ~InBusy
    <3>1. /\ usb' = Tx(usb, DataBuffer(ptrNextData), EP_SIZE) /\ MSDReadState' = "TX_SECTOR"
          /\ UNCHANGED <<MSD_State, MSDCommandState, MSDWriteState>>
          /\ EP_SIZE \in Int /\ ptrNextData \in Int
      BY <2>5, SizesAssumption DEF TransmitPacket, TransmitChunk, readFrame, IndInv, Types
    <3>2. ControlTypes' /\ Serving'
      BY <2>1, <3>1 DEF ControlInv, ControlTypes, ReadStates, Serving, controlVars, hostVars
    <3> QED BY <2>1, <2>2, <2>5, <3>1, <3>2, TransmitControl
  <2> QED BY <1>3, <2>3, <2>4, <2>5
<1> QED BY <1>1, <1>2, <1>3

LEMMA WritesControl ==
  ASSUME IndInv, ControlInv, UNCHANGED hostVars,
         \/ WriteStart \/ WriteNextSector \/ WriteEnd \/ AskForPacket \/ PacketReceived
         \/ SectorReceived \/ WriteSector \/ RetryWrite \/ AbandonWrite \/ SkipSector
  PROVE  ControlInv'
<1>1. CASE WriteStart
  <2>1. /\ Starting("WRITE_10") /\ ptrNextData' = 0 /\ ReceiveChunk(ptrNextData')
        /\ UNCHANGED <<controlVars, MSDCommandState, MSDReadState>> /\ MSD_State' = "DATA_IN"
    BY <1>1 DEF WriteStart, ReceiveSector, writeFrame, controlVars
  <2>2. Serving' /\ ptrNextData' \in Int
    BY <2>1 DEF Serving
  <2> QED BY <2>1, <2>2, StartingShape, ReceiveControl
<1>2. CASE \/ WriteNextSector \/ WriteEnd \/ AskForPacket \/ PacketReceived
           \/ SectorReceived \/ WriteSector \/ RetryWrite \/ AbandonWrite \/ SkipSector
  <2>1. /\ configured /\ Serving /\ MSDCommandState = "WRITE_10" /\ MSDWriteState # "WAIT"
        /\ UNCHANGED controlVars
    BY <1>2 DEF WriteNextSector, WriteEnd, AskForPacket, PacketReceived, SectorReceived,
       WriteSector, RetryWrite, AbandonWrite, SkipSector, SectorDone, Writing, Tasks, Serving,
       writeFrame, commandFrame, controlVars
  <2>2. MSDReadState = "WAIT" /\ InIdle(usb) /\ (MSDWriteState # "RX_PACKET" => OutIdle(usb))
        /\ (~OutBusy => OutIdle(usb)) /\ ~InData(usb)
    <3>1. usb \in Pair
      BY DEF IndInv, Types
    <3>2. MSDReadState = "WAIT" /\ InIdle(usb) /\ (MSDWriteState # "RX_PACKET" => OutIdle(usb))
          /\ (~OutBusy => OutIdle(usb))
      BY <2>1, ServingAtWork
    <3> QED BY <3>1, <3>2, ActiveShape
  <2>3. CASE WriteNextSector \/ AskForPacket
    <3>1. /\ MSDWriteState # "RX_PACKET" /\ ReceiveChunk(ptrNextData') /\ ptrNextData' \in Int
          /\ UNCHANGED <<MSD_State, MSDCommandState, MSDReadState>>
      BY <2>3 DEF WriteNextSector, AskForPacket, ReceiveSector, Writing, writeFrame, IndInv, Types
    <3>2. Serving'
      BY <2>1, <3>1 DEF Serving
    <3> QED BY <2>1, <2>2, <3>1, <3>2, ReceiveControl
  <2>4. CASE WriteEnd
    <3>1. usb' = usb /\ Finish(msd_csw) /\ MSDWriteState = "BLOCK"
      BY <2>4 DEF WriteEnd, Writing
    <3> QED BY <2>1, <3>1, FinishControl
  <2>5. CASE PacketReceived \/ SectorReceived \/ WriteSector \/ RetryWrite \/ AbandonWrite \/ SkipSector
    <3>1. /\ usb' = usb /\ MSDWriteState' \in {"RX_SECTOR", "SECTOR", "BLOCK"}
          /\ UNCHANGED <<MSD_State, MSDCommandState, MSDReadState>>
          /\ MSDWriteState # "RX_PACKET" \/ ~OutBusy
      BY <2>5 DEF PacketReceived, SectorReceived, WriteSector, RetryWrite, AbandonWrite,
         SkipSector, SectorDone, Writing, writeFrame
    <3>2. ControlTypes' /\ Serving'
      BY <2>1, <3>1 DEF ControlInv, ControlTypes, WriteStates, Serving, controlVars, hostVars
    <3> QED BY <2>1, <2>2, <3>1, <3>2, GoOnControl
  <2> QED BY <1>2, <2>3, <2>4, <2>5
<1> QED BY <1>1, <1>2

\* A step of MSDTasks that takes a CBW or sends a CSW.
LEMMA EnvelopeControl ==
  ASSUME IndInv, ControlInv, UNCHANGED hostVars, AcceptCBW \/ RejectCBW \/ SendCSW
  PROVE  ControlInv'
<1>0. /\ configured /\ configured' = configured /\ setup' = setup /\ host' = host /\ cmd' = cmd
      /\ msd_cbw' = msd_cbw /\ MSDCBWValid' \in BOOLEAN /\ usb \in Pair
  BY DEF AcceptCBW, RejectCBW, SendCSW, CBWReceived, HasCBW, Tasks, hostVars, bufferVars,
     controlVars, ControlInv, ControlTypes, IndInv, Types
<1>1. Requests'
  BY <1>0 DEF ControlInv, Requests
<1>2. CASE AcceptCBW
  <2>1. /\ MSD_State = "WAIT" /\ ~OutBusy /\ msd_cbw.form = "meaningful" /\ usb' = usb
        /\ MSD_State' \in {"DATA_IN", "DATA_OUT"} /\ MSDCommandState' = msd_cbw.op
        /\ MSDReadState' = "WAIT" /\ MSDWriteState' = "WAIT"
    BY <1>2 DEF AcceptCBW, CBWReceived, Tasks
  <2>2. InIdle(usb) /\ OutIdle(usb)
    BY <1>0, <2>1 DEF ControlInv, Coupled, WhileWaiting
  <2>3. AtWork
    <3>1. ~InStalled(usb) /\ ~OutStalled(usb)
      BY <1>0, <2>2, ActiveShape
    <3>2. ~Quiet
      BY <2>1 DEF Quiet
    <3> QED BY <1>0, <3>1, <3>2 DEF ControlInv, Coupled, Requests, WithHost, AtWork
  <2>4. ControlTypes'
    BY <1>0, <2>1 DEF ControlInv, ControlTypes, MsdStates, ReadStates, WriteStates, IndInv, Types, Counted
  <2>5. WhileServing' /\ WhileReporting' /\ WhileWaiting'
    BY <2>1, <2>2 DEF WhileServing, WhileReporting, WhileWaiting, Serving
  <2>6. WithHost'
    BY <1>0, <2>3 DEF WithHost, AtWork
  <2> QED BY <1>1, <2>4, <2>5, <2>6 DEF ControlInv, Coupled
<1>3. CASE RejectCBW
  <2>1. /\ MSD_State = "WAIT" /\ ~OutBusy /\ usb' = StallBoth(usb) /\ UNCHANGED machineVars
        /\ MSDCBWValid' = HasCBW
    BY <1>3 DEF RejectCBW, CBWReceived, Tasks
  <2>2. usb' \in Pair /\ InStalled(usb') /\ OutStalled(usb')
    BY <1>0, <2>1, StallBothStalls
  <2>3. OutBusy'
    BY <2>2, OutBusyShape DEF OutBusy
  <2>4. ControlTypes'
    BY <1>0, <2>1 DEF ControlInv, ControlTypes, machineVars
  <2>5. WhileServing' /\ WhileReporting' /\ WhileWaiting' /\ Quiet'
    BY <2>1, <2>2, <2>3 DEF WhileServing, WhileReporting, WhileWaiting, Serving, machineVars, Quiet
  <2>6. Quiet => ~MSDCBWValid'
    BY <2>1 DEF Quiet, HasCBW
  <2>7. WithHost'
    BY <1>0, <2>2, <2>5, <2>6 DEF ControlInv, Coupled, Requests, WithHost
  <2> QED BY <1>1, <2>4, <2>5, <2>7 DEF ControlInv, Coupled
<1>4. CASE SendCSW
  <2> DEFINE sent == Tx(usb, CswBuffer, CSW_SIZE)
  <2>1. /\ MSD_State = "SEND_CSW" /\ ~NextHandleBusy(usb.in) /\ MSD_State' = "WAIT"
        /\ usb' = (IF OutBusy THEN sent ELSE Rx(sent, CbwBuffer))
        /\ UNCHANGED <<MSDCBWValid, MSDCommandState, MSDReadState, MSDWriteState>>
    BY <1>4 DEF SendCSW, Tasks, controlVars
  <2>2. /\ InIdle(usb) \/ InData(usb) \/ InStalled(usb)
        /\ OutIdle(usb) \/ OutAt(usb, CbwBuffer) \/ OutStalled(usb)
    BY <1>0, <2>1 DEF ControlInv, Coupled, WhileReporting
  <2>3. ~InStalled(usb)
    BY <1>0, <2>1, InBusyShape
  <2>4. /\ sent \in Pair /\ sent.out = usb.out /\ sent.outHandle = usb.outHandle
        /\ InIdle(usb) => InCsw(sent)
        /\ InData(usb) => InDataCsw(sent)
    BY <1>0, TxArms, BuffersOfDrive, SizesAssumption
  <2> HIDE DEF sent
  <2>5. /\ OutIdle(sent) = OutIdle(usb) /\ OutAt(sent, CbwBuffer) = OutAt(usb, CbwBuffer)
        /\ OutStalled(sent) = OutStalled(usb)
    BY <2>4, OutKept
  <2>6. /\ usb' \in Pair
        /\ InCsw(usb') \/ InDataCsw(usb')
        /\ OutAt(usb', CbwBuffer) \/ OutStalled(usb')
        /\ OutStalled(usb) => OutStalled(usb')
    <3>1. CASE OutBusy
      <4>1. ~OutIdle(usb) /\ usb' = sent
        BY <1>0, <2>1, <3>1, BusyShape
      <4> QED BY <2>2, <2>3, <2>4, <2>5, <4>1
    <3>2. CASE ~OutBusy
      <4>1. OutIdle(usb) /\ ~OutStalled(usb)
        BY <1>0, <2>2, <3>2, BusyShape DEF OutAt
      <4>2. usb' = Rx(sent, CbwBuffer) /\ Idle(sent.out)
        BY <2>1, <2>4, <3>2, <4>1 DEF OutIdle
      <4>3. usb' \in Pair /\ usb'.in = sent.in /\ usb'.inHandle = sent.inHandle
            /\ OutAt(usb', CbwBuffer)
        BY <2>4, <4>2, RxArms, BuffersOfDrive
      <4>4. InCsw(usb') = InCsw(sent) /\ InDataCsw(usb') = InDataCsw(sent)
        BY <4>3, InKept
      <4> QED BY <2>2, <2>3, <2>4, <4>1, <4>3, <4>4
    <3> QED BY <3>1, <3>2
  <2>7. OutBusy'
    BY <2>6, OutBusyShape DEF OutBusy, OutAt
  <2>8. ControlTypes'
    BY <1>0, <2>1 DEF ControlInv, ControlTypes, MsdStates
  <2>9. WhileServing' /\ WhileReporting' /\ WhileWaiting' /\ Quiet'
    BY <2>1, <2>6, <2>7 DEF WhileServing, WhileReporting, WhileWaiting, Serving, Quiet
  <2>10. ~Quiet
    BY <2>1 DEF Quiet
  <2>11. WithHost'
    BY <1>0, <2>3, <2>6, <2>9, <2>10 DEF ControlInv, Coupled, Requests, WithHost
  <2> QED BY <1>1, <2>8, <2>9, <2>11 DEF ControlInv, Coupled
<1> QED BY <1>2, <1>3, <1>4

LEMMA MSDTasksControl ==
  ASSUME IndInv, ControlInv, UNCHANGED hostVars, MSDTasks
  PROVE  ControlInv'
BY EnvelopeControl, CommandsControl, ReadsControl, WritesControl DEF MSDTasks

----------------------------------------------------------------------------
(* Requests on endpoint 0.                                                  *)

LEMMA MassStorageResetControl ==
  ASSUME IndInv, ControlInv, UNCHANGED hostVars, MassStorageReset
  PROVE  ControlInv'
<1>1. /\ setup = "MSD_RESET" /\ setup' = "none" /\ configured' = configured /\ MSDCBWValid' = TRUE
      /\ MSD_State' = "WAIT" /\ MSDCommandState' = "WAIT" /\ MSDReadState' = "WAIT"
      /\ MSDWriteState' = "WAIT"
      /\ usb' = IF NextHandleBusy(usb.out) THEN usb ELSE Rx(usb, CbwBuffer)
      /\ host' = host /\ usb \in Pair
  BY DEF MassStorageReset, IdleMachines, hostVars, IndInv, Types
<1>2. host = "clear in" /\ configured
  BY <1>1 DEF ControlInv, ControlTypes, Requests
<1>3. MSD_State = "WAIT" \/ MSD_State = "SEND_CSW" \/ Serving
  BY DEF ControlInv, ControlTypes, MsdStates, Serving
<1>4. /\ InIdle(usb) \/ InData(usb) \/ InCsw(usb) \/ InDataCsw(usb) \/ InStalled(usb)
      /\ OutIdle(usb) \/ OutArmed(usb) \/ OutStalled(usb)
  BY <1>1, <1>2, <1>3
     DEF ControlInv, Coupled, WhileServing, WhileReporting, WhileWaiting, Settled, OutAt
<1>5. /\ usb' \in Pair /\ usb'.in = usb.in /\ usb'.inHandle = usb.inHandle
      /\ OutAt(usb', CbwBuffer) \/ OutTwice(usb') \/ OutStalled(usb')
  <2>1. CASE OutStalled(usb)
    BY <1>1, <2>1, OutBusyShape
  <2>2. CASE OutIdle(usb) \/ OutArmed(usb)
    <3>1. usb' = Rx(usb, CbwBuffer)
      BY <1>1, <2>2, OutBusyShape
    <3> QED BY <1>1, <2>2, <3>1, RxArms, BuffersOfDrive DEF OutIdle
  <2> QED BY <1>4, <2>1, <2>2
<1>6. /\ InIdle(usb') = InIdle(usb) /\ InData(usb') = InData(usb) /\ InCsw(usb') = InCsw(usb)
      /\ InDataCsw(usb') = InDataCsw(usb) /\ InStalled(usb') = InStalled(usb)
  BY <1>5, InKept
<1>7. OutBusy'
  BY <1>5, OutBusyShape DEF OutBusy, OutAt
<1>8. ControlTypes' /\ Requests'
  BY <1>1, <1>2 DEF ControlInv, ControlTypes, Requests, MsdStates, ReadStates, WriteStates
<1>9. WhileServing' /\ WhileReporting' /\ WhileWaiting' /\ Quiet'
  BY <1>1, <1>2, <1>4, <1>5, <1>6, <1>7
     DEF WhileServing, WhileReporting, WhileWaiting, Serving, Settled, Quiet
<1>10. WithHost'
  BY <1>1, <1>2, <1>9 DEF WithHost
<1> QED BY <1>8, <1>9, <1>10 DEF ControlInv, Coupled

LEMMA SetHaltControl ==
  ASSUME IndInv, ControlInv, UNCHANGED hostVars, SetHaltIn \/ SetHaltOut
  PROVE  ControlInv'
<1>0. /\ configured /\ UNCHANGED <<configured, MSDCBWValid, machineVars, msd_cbw, host, cmd>>
      /\ setup' = "none" /\ usb \in Pair
  BY DEF SetHaltIn, SetHaltOut, SetHalt, hostVars, bufferVars, IndInv, Types
<1>1. /\ setup = "SET_HALT_IN" => host = "clear in"
      /\ setup = "SET_HALT_OUT" => host = "clear out"
      /\ setup \in {"SET_HALT_IN", "SET_HALT_OUT"}
  BY DEF ControlInv, Requests, SetHaltIn, SetHaltOut
<1>2. Quiet /\ Settled /\ (InIdle(usb) \/ ~MSDCBWValid)
  BY <1>0, <1>1 DEF ControlInv, Coupled, WithHost, Settled
<1>3. /\ InIdle(usb) \/ InStalled(usb)
      /\ OutIdle(usb) \/ OutAt(usb, CbwBuffer) \/ OutStalled(usb)
      /\ MSD_State = "WAIT"
  BY <1>0, <1>2, LockedShape DEF ControlInv, Coupled, WhileWaiting, Quiet
<1>4. ControlTypes' /\ Requests'
  BY <1>0, <1>1 DEF ControlInv, ControlTypes, Requests, machineVars
<1>5. CASE SetHaltIn
  <2>1. setup = "SET_HALT_IN" /\ SetHalt("in")
    BY <1>5 DEF SetHaltIn
  <2>2. /\ usb' \in Pair /\ usb'["out"] = usb["out"] /\ usb'.outHandle = usb.outHandle
        /\ Idle(usb["in"]) => Halted(usb'["in"])
        /\ AllStalled(usb["in"]) => AllStalled(usb'["in"])
    BY <1>0, <2>1, SetHaltHalts DEF Directions
  <2>3. InHalted(usb') \/ InStalled(usb')
    BY <1>0, <1>3, <2>2, PairShape DEF InIdle, InHalted, InStalled
  <2>4. /\ OutIdle(usb') = OutIdle(usb) /\ OutAt(usb', CbwBuffer) = OutAt(usb, CbwBuffer)
        /\ OutStalled(usb') = OutStalled(usb) /\ OutBusy' = OutBusy
    BY <1>0, <2>2, PairShape, OutKept DEF OutBusy
  <2>5. Quiet'
    BY <1>0, <1>2, <2>4 DEF Quiet, machineVars
  <2>6. WhileServing' /\ WhileReporting' /\ WhileWaiting'
    BY <1>0, <1>1, <1>3, <2>1, <2>3, <2>4, <2>5
       DEF WhileServing, WhileReporting, WhileWaiting, Serving, Settled, Quiet
  <2>7. WithHost'
    BY <1>0, <1>1, <2>1, <2>5 DEF WithHost
  <2> QED BY <1>4, <2>6, <2>7 DEF ControlInv, Coupled
<1>6. CASE SetHaltOut
  <2>1. setup = "SET_HALT_OUT" /\ SetHalt("out")
    BY <1>6 DEF SetHaltOut
  <2>2. /\ usb' \in Pair /\ usb'["in"] = usb["in"] /\ usb'.inHandle = usb.inHandle
        /\ usb'.outHandle = usb.outHandle
        /\ Idle(usb["out"]) \/ OneArmed(usb["out"]) => Halted(usb'["out"])
        /\ AllStalled(usb["out"]) => AllStalled(usb'["out"])
        /\ \A i \in Entries : USBHandleBusy(usb["out"], i) => USBHandleBusy(usb'["out"], i)
    BY <1>0, <2>1, SetHaltHalts DEF Directions
  <2>3. OutHalted(usb') \/ OutStalled(usb')
    BY <1>0, <1>3, <2>2, PairShape DEF OutIdle, OutAt, OutArmed, OutHalted, OutStalled
  <2>4. InIdle(usb') = InIdle(usb) /\ InStalled(usb') = InStalled(usb)
    BY <1>0, <2>2, PairShape, InKept
  <2>5. Quiet'
    <3>1. OutBusy => OutBusy'
      BY <1>0, <2>2, PairShape DEF OutBusy
    <3> QED BY <1>0, <1>2, <3>1 DEF Quiet, machineVars
  <2>6. WhileServing' /\ WhileReporting' /\ WhileWaiting'
    BY <1>0, <1>1, <1>3, <2>1, <2>3, <2>4, <2>5
       DEF WhileServing, WhileReporting, WhileWaiting, Serving, Settled, Quiet
  <2>7. WithHost'
    BY <1>0, <1>1, <1>2, <2>1, <2>4, <2>5 DEF WithHost
  <2> QED BY <1>4, <2>6, <2>7 DEF ControlInv, Coupled
<1> QED BY <1>5, <1>6

LEMMA ClearHaltControl ==
  ASSUME IndInv, ControlInv, UNCHANGED hostVars, ClearHaltIn \/ ClearHaltOut
  PROVE  ControlInv'
<1>0. /\ configured /\ UNCHANGED <<configured, MSDCBWValid, machineVars, msd_cbw, host, cmd>>
      /\ setup' = "none" /\ usb \in Pair /\ MSDCBWValid \in BOOLEAN
  BY DEF ClearHaltIn, ClearHaltOut, ClearHalt, hostVars, bufferVars, IndInv, Types, ControlInv,
     ControlTypes
<1>1. ~MSDCBWValid => InStalled(usb) /\ OutStalled(usb) /\ MSD_State = "WAIT"
  BY <1>0, LockedShape
<1>2. ControlTypes' /\ Requests'
  BY <1>0 DEF ControlInv, ControlTypes, Requests, machineVars, ClearHaltIn, ClearHaltOut
<1>3. Coupled
  BY <1>0 DEF ControlInv
<1>4. CASE ~MSDCBWValid
  <2>1. PICK d \in Directions : ClearHalt(d)
    BY DEF ClearHaltIn, ClearHaltOut, Directions
  <2>2. usb' \in Pair /\ InStalled(usb') /\ OutStalled(usb')
    BY <1>0, <1>1, <1>4, <2>1, ClearHaltClears
  <2>3. OutBusy'
    BY <2>2, OutBusyShape DEF OutBusy
  <2>4. WhileServing' /\ WhileReporting' /\ WhileWaiting' /\ Quiet'
    BY <1>0, <1>1, <1>4, <2>2, <2>3
       DEF WhileServing, WhileReporting, WhileWaiting, Serving, Quiet, machineVars
  <2>5. WithHost'
    BY <1>0, <1>4, <2>2, <2>4 DEF WithHost
  <2> QED BY <1>2, <2>4, <2>5 DEF ControlInv, Coupled
<1>5. CASE MSDCBWValid /\ ClearHaltIn
  <2>1. /\ setup = "CLEAR_HALT_IN" /\ host \in {"status", "retry", "clear out"}
        /\ ClearHalt("in")
    BY <1>5 DEF ClearHaltIn, ControlInv, Requests
  <2>2. usb' \in Pair /\ InIdle(usb') /\ usb'.out = usb.out /\ usb'.outHandle = usb.outHandle
    BY <1>0, <1>5, <2>1, ClearHaltClears DEF Directions
  <2>3. /\ OutIdle(usb') = OutIdle(usb) /\ OutAt(usb', CbwBuffer) = OutAt(usb, CbwBuffer)
        /\ OutStalled(usb') = OutStalled(usb) /\ OutBusy' = OutBusy
        /\ OutArmed(usb') = OutArmed(usb) /\ OutTwice(usb') = OutTwice(usb)
        /\ OutHalted(usb') = OutHalted(usb)
    BY <2>2, OutKept DEF OutBusy
  <2>4. /\ host # "clear out" => InStalled(usb)
        /\ host = "clear out" => Quiet
    BY <1>3, <2>1 DEF Coupled, WithHost
  <2>5. ~Serving
    <3>1. CASE host = "clear out"
      BY <2>4, <3>1 DEF Quiet, Serving
    <3>2. CASE host # "clear out"
      BY <1>0, <2>4, <3>2, ServingAtWork, ActiveShape
    <3> QED BY <3>1, <3>2
  <2>6. WhileServing' /\ WhileReporting'
    BY <1>0, <1>3, <2>2, <2>3, <2>5
       DEF WhileServing, WhileReporting, Coupled, Serving, machineVars
  <2>7. Quiet \/ MSD_State # "WAIT"
    <3>1. CASE host # "clear out"
      <4>1. ~InIdle(usb)
        BY <1>0, <2>4, <3>1, ActiveShape
      <4> QED BY <1>3, <4>1 DEF Coupled, WhileWaiting, Quiet
    <3> QED BY <2>4, <3>1
  <2>8. MSD_State = "WAIT" => Quiet'
    BY <1>0, <2>3, <2>7 DEF Quiet, machineVars
  <2>9. WhileWaiting'
    BY <1>0, <1>3, <2>1, <2>2, <2>3, <2>8
       DEF WhileWaiting, Coupled, Settled, Quiet, machineVars
  <2>10. WithHost'
    BY <1>0, <2>1, <2>2, <2>4, <2>8 DEF WithHost, Quiet
  <2> QED BY <1>2, <2>6, <2>9, <2>10 DEF ControlInv, Coupled
<1>6. CASE MSDCBWValid /\ ClearHaltOut
  <2>1. /\ setup = "CLEAR_HALT_OUT" /\ host \in {"status", "ready"}
        /\ ClearHalt("out")
    BY <1>6 DEF ClearHaltOut, ControlInv, Requests
  <2>2. /\ usb' \in Pair /\ usb'.in = usb.in /\ usb'.inHandle = usb.inHandle
        /\ OutIdle(usb) => OutIdle(usb')
        /\ Active(usb.out).own # "cpu" => OutAt(usb', CbwBuffer) /\ OutArmed(usb')
    BY <1>0, <1>6, <2>1, ClearHaltClears DEF Directions
  <2>3. /\ InIdle(usb') = InIdle(usb) /\ InData(usb') = InData(usb) /\ InCsw(usb') = InCsw(usb)
        /\ InDataCsw(usb') = InDataCsw(usb) /\ InStalled(usb') = InStalled(usb)
    BY <2>2, InKept
  <2>4. /\ host = "status" => OutStalled(usb)
        /\ host = "ready" => Quiet /\ InIdle(usb)
    BY <1>3, <1>6, <2>1 DEF Coupled, WithHost
  <2>5. ~Serving
    <3>1. CASE host = "ready"
      BY <2>4, <3>1 DEF Quiet, Serving
    <3>2. CASE host = "status"
      BY <1>0, <2>4, <3>2, ServingAtWork, ActiveShape DEF OutAt
    <3> QED BY <2>1, <3>1, <3>2
  <2>6. OutIdle(usb') \/ OutAt(usb', CbwBuffer)
    <3>1. CASE host = "ready"
      <4>1. \/ OutIdle(usb) \/ OutAt(usb, CbwBuffer) \/ OutStalled(usb) \/ OutArmed(usb)
            \/ OutTwice(usb) \/ OutHalted(usb)
        BY <1>3, <2>4, <3>1 DEF Coupled, WhileWaiting, Quiet
      <4>2. OutIdle(usb) \/ Active(usb.out).own # "cpu"
        BY <1>0, <4>1, ActiveShape DEF OutAt
      <4> QED BY <2>2, <4>2
    <3>2. CASE host = "status"
      BY <1>0, <2>2, <2>4, <3>2, ActiveShape
    <3> QED BY <2>1, <3>1, <3>2
  <2>7. InIdle(usb) \/ InCsw(usb) \/ InDataCsw(usb) \/ InStalled(usb) \/ MSD_State # "WAIT"
    BY <1>3, <2>1, <2>4 DEF Coupled, WhileWaiting, Settled
  <2>8. WhileServing' /\ WhileReporting'
    BY <1>0, <1>3, <2>3, <2>5, <2>6
       DEF WhileServing, WhileReporting, Coupled, Serving, machineVars
  <2>9. MSD_State = "WAIT" => Quiet'
    <3> SUFFICES ASSUME MSD_State = "WAIT" PROVE Quiet'
      OBVIOUS
    <3>1. CASE OutAt(usb', CbwBuffer)
      <4>1. OutBusy'
        BY <2>2, <3>1, OutBusyShape DEF OutBusy, OutAt
      <4> QED BY <1>0, <4>1 DEF Quiet, machineVars
    <3>2. CASE OutIdle(usb') /\ ~OutAt(usb', CbwBuffer)
      <4>1. OutIdle(usb) /\ host = "ready"
        <5>1. \/ OutIdle(usb) \/ OutAt(usb, CbwBuffer) \/ OutStalled(usb) \/ OutArmed(usb)
              \/ OutTwice(usb) \/ OutHalted(usb)
          BY <1>3 DEF Coupled, WhileWaiting, Quiet
        <5>2. OutIdle(usb) \/ Active(usb.out).own # "cpu"
          BY <1>0, <5>1, ActiveShape DEF OutAt
        <5> QED BY <1>0, <2>1, <2>2, <2>4, <3>2, <5>2, ActiveShape
      <4>2. msd_cbw.form = "invalid"
        BY <1>0, <2>4, <4>1, BusyShape DEF Quiet
      <4> QED BY <1>0, <4>2 DEF Quiet, machineVars
    <3> QED BY <2>6, <3>1, <3>2
  <2>10. WhileWaiting'
    BY <1>0, <2>3, <2>6, <2>7, <2>9 DEF WhileWaiting, Quiet, machineVars
  <2>11. WithHost'
    BY <1>0, <2>1, <2>3, <2>4, <2>9 DEF WithHost, Quiet
  <2> QED BY <1>2, <2>8, <2>10, <2>11 DEF ControlInv, Coupled
<1> QED BY <1>0, <1>4, <1>5, <1>6

LEMMA ConfigurationControl ==
  ASSUME IndInv, ControlInv, UNCHANGED hostVars, BusReset \/ SetConfiguration
  PROVE  ControlInv'
<1>1. CASE BusReset
  <2>1. /\ setup = "BUS_RESET" /\ setup' = "none" /\ configured' = FALSE /\ host' = host
        /\ UNCHANGED <<MSDCBWValid, machineVars>>
    BY <1>1 DEF BusReset, hostVars
  <2> QED BY <2>1 DEF ControlInv, ControlTypes, Requests, machineVars
<1>2. CASE SetConfiguration
  <2>1. /\ setup = "SET_CONFIGURATION" /\ setup' = "none" /\ configured' = TRUE /\ host' = host
        /\ MSDCBWValid' = TRUE /\ usb' = APP_DeviceMSDInitialize(ClearedPair(usb))
        /\ MSD_State' = "WAIT" /\ MSDCommandState' = "WAIT"
        /\ MSDReadState' = "WAIT" /\ MSDWriteState' = "WAIT"
    BY <1>2 DEF SetConfiguration, IdleMachines, hostVars
  <2>2. usb' \in Pair /\ InIdle(usb') /\ OutAt(usb', CbwBuffer)
    BY <2>1, ConfigurationShape DEF IndInv, Types
  <2>3. OutBusy'
    BY <2>2, OutBusyShape DEF OutBusy, OutAt
  <2>4. ControlTypes' /\ Requests'
    BY <2>1 DEF ControlInv, ControlTypes, Requests, MsdStates, ReadStates, WriteStates
  <2>5. WhileServing' /\ WhileReporting' /\ WhileWaiting' /\ Quiet'
    BY <2>1, <2>2, <2>3 DEF WhileServing, WhileReporting, WhileWaiting, Serving, Quiet
  <2>6. WithHost'
    BY <2>1, <2>2, <2>5 DEF WithHost
  <2> QED BY <2>4, <2>5, <2>6 DEF ControlInv, Coupled
<1> QED BY <1>1, <1>2

LEMMA USBDeviceTasksControl ==
  ASSUME IndInv, ControlInv, UNCHANGED hostVars, USBDeviceTasks
  PROVE  ControlInv'
BY MassStorageResetControl, SetHaltControl, ClearHaltControl, ConfigurationControl
   DEF USBDeviceTasks

----------------------------------------------------------------------------
(* The host.                                                                *)

\* A packet of the host, and one to it.
LEMMA SendMoves ==
  ASSUME usb \in Pair, NEW cbw, NEW chunk, NEW cnt \in Int, Send(cbw, chunk, cnt)
  PROVE  /\ usb' \in Pair /\ usb'.in = usb.in /\ usb'.inHandle = usb.inHandle
         /\ usb'.out = Complete(usb.out, cnt) /\ usb'.outHandle = usb.outHandle
         /\ UNCHANGED <<controlVars, machineVars, ptrNextData>>
         /\ msd_cbw' = IF Active(usb.out).data = CbwBuffer THEN cbw ELSE msd_cbw
<1> DEFINE e == Complete(usb.out, cnt)
<1>1. e \in Endpoint
  BY PairShape, CompleteFrees
<1>2. usb' = [usb EXCEPT !.out = e]
  BY DEF Send, Pair
<1> HIDE DEF e
<1>3. /\ usb' \in Pair /\ usb'.in = usb.in /\ usb'.inHandle = usb.inHandle
      /\ usb'.out = e /\ usb'.outHandle = usb.outHandle
  BY <1>1, <1>2 DEF Pair
<1> QED BY <1>3 DEF e, Send

LEMMA ReceiveMoves ==
  ASSUME usb \in Pair, Receive
  PROVE  /\ usb' \in Pair /\ usb'.out = usb.out /\ usb'.outHandle = usb.outHandle
         /\ Active(usb.in).cnt \in Int
         /\ usb'.in = Complete(usb.in, Active(usb.in).cnt) /\ usb'.inHandle = usb.inHandle
         /\ UNCHANGED <<controlVars, machineVars, ptrNextData, msd_cbw>>
<1> DEFINE e == Complete(usb.in, Active(usb.in).cnt)
<1>0. Active(usb.in).cnt \in Int
  BY PairShape DEF Active, Endpoint, Entry
<1>1. e \in Endpoint
  BY <1>0, PairShape, CompleteFrees
<1>2. usb' = [usb EXCEPT !.in = e]
  BY DEF Receive, Pair, Active
<1> HIDE DEF e
<1>3. /\ usb' \in Pair /\ usb'.out = usb.out /\ usb'.outHandle = usb.outHandle
      /\ usb'.in = e /\ usb'.inHandle = usb.inHandle
  BY <1>1, <1>2 DEF Pair
<1> QED BY <1>0, <1>3 DEF e, Receive, bufferVars

\* A CBW goes where the drive waits for it, and leaves both endpoints idle.
LEMMA SendCBWShape ==
  ASSUME IndInv, ControlInv, SendCBW
  PROVE  /\ configured /\ setup = "none" /\ usb \in Pair /\ usb' \in Pair
         /\ MSD_State = "WAIT" /\ Quiet /\ MSDCBWValid
         /\ InIdle(usb) /\ OutAt(usb, CbwBuffer) /\ OutArmed(usb)
         /\ InIdle(usb') /\ OutIdle(usb') /\ msd_cbw' = cmd' /\ host' \in {"status", "data"}
         /\ usb'.in = usb.in /\ usb'.inHandle = usb.inHandle
         /\ usb'.out = Complete(usb.out, CBW_SIZE) /\ usb'.outHandle = usb.outHandle
         /\ UNCHANGED <<controlVars, machineVars, ptrNextData>>
<1>0. usb \in Pair /\ host = "ready" /\ Answers("out", "armed")
  BY DEF SendCBW, IndInv, Types
<1>1. configured /\ setup = "none" /\ Active(usb.out).own = "armed"
  BY <1>0, PairShape DEF Answers
<1>2. Quiet /\ (InIdle(usb) \/ ~MSDCBWValid)
  BY <1>0, <1>1 DEF ControlInv, Coupled, WithHost
<1>3. MSDCBWValid /\ InIdle(usb)
  BY <1>0, <1>1, <1>2, LockedShape, ActiveShape
<1>4. MSD_State = "WAIT" /\ OutAt(usb, CbwBuffer) /\ OutArmed(usb)
  <2>1. MSD_State = "WAIT" /\ Settled
    BY <1>0, <1>1, <1>2 DEF Quiet, Settled
  <2> QED BY <1>0, <1>1, <2>1, ActiveShape DEF ControlInv, Coupled, WhileWaiting, OutAt
<1>5. \E cbw : /\ Send(cbw, Zeros, CBW_SIZE) /\ cmd' = cbw
               /\ host' \in {"status", "data"}
  BY DEF SendCBW
<1>6. /\ usb' \in Pair /\ usb'.in = usb.in /\ usb'.inHandle = usb.inHandle
      /\ usb'.out = Complete(usb.out, CBW_SIZE) /\ usb'.outHandle = usb.outHandle
      /\ UNCHANGED <<controlVars, machineVars, ptrNextData>> /\ msd_cbw' = cmd'
  BY <1>0, <1>4, <1>5, SendMoves, SizesAssumption DEF OutAt
<1>7. InIdle(usb') /\ OutIdle(usb')
  BY <1>0, <1>3, <1>4, <1>6, InKept, OutTaken, SizesAssumption
<1> QED BY <1>0, <1>1, <1>2, <1>3, <1>4, <1>5, <1>6, <1>7

LEMMA SendCBWControl ==
  ASSUME IndInv, ControlInv, SendCBW
  PROVE  ControlInv'
<1>1. /\ ControlTypes' /\ Requests' /\ WithHost'
      /\ WhileServing' /\ WhileReporting' /\ WhileWaiting'
  BY SendCBWShape DEF ControlInv, ControlTypes, Requests, WithHost, WhileServing, WhileReporting,
     WhileWaiting, Serving, controlVars, machineVars
<1> QED BY <1>1 DEF ControlInv, Coupled

\* A packet of data goes where the drive has asked for it; or, when it has not, into msd_cbw.
LEMMA SendDataShape ==
  ASSUME IndInv, ControlInv, SendData
  PROVE  /\ configured /\ setup = "none" /\ usb \in Pair /\ usb' \in Pair
         /\ OutArmed(usb) /\ OutIdle(usb') /\ host' \in {"status", "data"}
         /\ MSD_State \in {"WAIT", "SEND_CSW"} => OutAt(usb, CbwBuffer) /\ msd_cbw'.form = "invalid"
         /\ Serving => OutAt(usb, DataBuffer(ptrNextData)) /\ MSDWriteState = "RX_PACKET"
                       /\ msd_cbw' = msd_cbw
         /\ usb'.in = usb.in /\ usb'.inHandle = usb.inHandle
         /\ usb'.out = Complete(usb.out, Least(EP_SIZE, cmd.length - moved))
         /\ usb'.outHandle = usb.outHandle
         /\ UNCHANGED <<controlVars, machineVars, ptrNextData>>
<1> DEFINE len == Least(EP_SIZE, cmd.length - moved)
<1>0. usb \in Pair /\ host = "data" /\ Answers("out", "armed") /\ cmd \in Counted /\ moved \in Int
  BY DEF SendData, IndInv, Types
<1>1. configured /\ setup = "none" /\ Active(usb.out).own = "armed"
  BY <1>0, PairShape DEF Answers
<1>2. len \in Int
  BY <1>0, CountedSteps
<1>3. Send(NoCommand(cmd.tag), Written(moved \div EP_SIZE), len) /\ host' \in {"status", "data"}
  BY DEF SendData
<1> HIDE DEF len
<1>4. /\ usb' \in Pair /\ usb'.in = usb.in /\ usb'.inHandle = usb.inHandle
      /\ usb'.out = Complete(usb.out, len) /\ usb'.outHandle = usb.outHandle
      /\ UNCHANGED <<controlVars, machineVars, ptrNextData>>
      /\ msd_cbw' = IF Active(usb.out).data = CbwBuffer THEN NoCommand(cmd.tag) ELSE msd_cbw
  BY <1>0, <1>2, <1>3, SendMoves
<1>5. MSD_State \in {"WAIT", "SEND_CSW"} => OutAt(usb, CbwBuffer)
  BY <1>0, <1>1, ActiveShape
     DEF ControlInv, Coupled, WhileWaiting, WhileReporting, Settled
<1>6. Serving => OutAt(usb, DataBuffer(ptrNextData)) /\ MSDWriteState = "RX_PACKET"
  BY <1>0, <1>1, ServingAtWork, ActiveShape
<1>7. MSD_State \in {"WAIT", "SEND_CSW"} \/ Serving
  BY DEF ControlInv, ControlTypes, MsdStates, Serving
<1>8. OutArmed(usb) /\ OutIdle(usb')
  BY <1>0, <1>2, <1>4, <1>5, <1>6, <1>7, OutTaken DEF OutAt
<1>9. DataBuffer(ptrNextData) # CbwBuffer /\ NoCommand(cmd.tag).form = "invalid"
  BY DEF DataBuffer, CbwBuffer, NoCommand
<1> QED BY <1>0, <1>1, <1>3, <1>4, <1>5, <1>6, <1>8, <1>9 DEF OutAt, len

LEMMA SendDataControl ==
  ASSUME IndInv, ControlInv, SendData
  PROVE  ControlInv'
<1>1. /\ UNCHANGED <<setup, configured, MSDCBWValid, MSD_State, MSDCommandState, MSDReadState,
                     MSDWriteState>>
      /\ configured /\ setup = "none" /\ host = "data" /\ host' \in {"status", "data"}
      /\ usb \in Pair /\ usb' \in Pair /\ OutIdle(usb')
      /\ MSD_State \in {"WAIT", "SEND_CSW"} => msd_cbw'.form = "invalid"
  BY SendDataShape DEF SendData, controlVars, machineVars
<1>2. /\ InIdle(usb') = InIdle(usb) /\ InData(usb') = InData(usb) /\ InCsw(usb') = InCsw(usb)
      /\ InDataCsw(usb') = InDataCsw(usb) /\ InStalled(usb') = InStalled(usb)
  BY SendDataShape, InKept
<1>3. ControlTypes' /\ Requests' /\ WithHost'
  BY <1>1 DEF ControlInv, ControlTypes, Requests, WithHost
<1>4. WhileServing' /\ WhileReporting' /\ WhileWaiting'
  BY <1>1, <1>2 DEF ControlInv, Coupled, WhileServing, WhileReporting, WhileWaiting, Serving, Settled
<1> QED BY <1>3, <1>4 DEF ControlInv, Coupled

\* A packet that the host takes is data, or the CSW, by where the drive is.
LEMMA ReceiveShape ==
  ASSUME IndInv, ControlInv, ReceiveData \/ ReceiveStatus
  PROVE  /\ configured /\ setup = "none" /\ usb \in Pair /\ usb' \in Pair
         /\ Active(usb.in).own = "armed" /\ InBusy
         /\ MSD_State \in {"DATA_IN", "DATA_OUT", "SEND_CSW"} => InData(usb)
         /\ MSD_State = "WAIT" => InCsw(usb) \/ InDataCsw(usb)
         /\ InData(usb) \/ InCsw(usb) => InIdle(usb')
         /\ InDataCsw(usb) => InCsw(usb')
         /\ usb'.out = usb.out /\ usb'.outHandle = usb.outHandle
         /\ Active(usb.in).cnt \in Int
         /\ usb'.in = Complete(usb.in, Active(usb.in).cnt) /\ usb'.inHandle = usb.inHandle
         /\ UNCHANGED <<controlVars, machineVars, ptrNextData, msd_cbw>>
<1>0. /\ usb \in Pair /\ Answers("in", "armed") /\ Receive
      /\ host \in {"data", "status", "retry"}
  BY DEF ReceiveData, ReceiveStatus, IndInv, Types
<1>1. configured /\ setup = "none" /\ Active(usb.in).own = "armed"
  BY <1>0, PairShape DEF Answers
<1>2. MSD_State \in {"DATA_IN", "DATA_OUT", "SEND_CSW"} => InData(usb)
  BY <1>0, <1>1, ActiveShape
     DEF ControlInv, Coupled, WhileServing, WhileReporting, Serving
<1>3. MSD_State = "WAIT" => InCsw(usb) \/ InDataCsw(usb)
  BY <1>0, <1>1, ActiveShape DEF ControlInv, Coupled, WhileWaiting, Settled
<1>4. MSD_State \in {"DATA_IN", "DATA_OUT", "SEND_CSW"} \/ MSD_State = "WAIT"
  BY DEF ControlInv, ControlTypes, MsdStates
<1>5. InBusy
  BY <1>0, <1>2, <1>3, <1>4, BusyShape
<1>6. /\ usb' \in Pair /\ usb'.out = usb.out /\ usb'.outHandle = usb.outHandle
      /\ Active(usb.in).cnt \in Int
      /\ usb'.in = Complete(usb.in, Active(usb.in).cnt) /\ usb'.inHandle = usb.inHandle
      /\ UNCHANGED <<controlVars, machineVars, ptrNextData, msd_cbw>>
  BY <1>0, ReceiveMoves
<1>7. /\ InData(usb) \/ InCsw(usb) => InIdle(usb')
      /\ InDataCsw(usb) => InCsw(usb')
  BY <1>0, <1>6, InTaken
<1> QED BY <1>0, <1>1, <1>2, <1>3, <1>5, <1>6, <1>7

LEMMA TakeControl ==
  ASSUME IndInv, ControlInv, ReceiveData \/ ReceiveStatus
  PROVE  ControlInv'
<1>1. /\ UNCHANGED <<setup, configured, MSDCBWValid, MSD_State, MSDCommandState, MSDReadState,
                     MSDWriteState, msd_cbw, cmd, ptrNextData>>
      /\ configured /\ setup = "none" /\ usb \in Pair /\ usb' \in Pair
      /\ MSD_State \in {"DATA_IN", "DATA_OUT", "SEND_CSW"} => InData(usb)
      /\ MSD_State = "WAIT" => InCsw(usb) \/ InDataCsw(usb)
      /\ InData(usb) \/ InCsw(usb) => InIdle(usb')
      /\ InDataCsw(usb) => InCsw(usb')
  BY ReceiveShape DEF ReceiveData, ReceiveStatus, controlVars, machineVars
<1>2. /\ OutIdle(usb') = OutIdle(usb) /\ (\A b : OutAt(usb', b) = OutAt(usb, b))
      /\ OutStalled(usb') = OutStalled(usb) /\ OutBusy' = OutBusy
  BY ReceiveShape, OutKept DEF OutBusy
<1>3. host \in {"data", "status", "retry"} /\ host' \in {"status", "data", "ready", "recover"}
  BY DEF ReceiveData, ReceiveStatus
<1>4. ControlTypes' /\ Requests'
  BY <1>1, <1>3 DEF ControlInv, ControlTypes, Requests
<1>5. MSD_State = "WAIT" => Quiet
  <2> SUFFICES ASSUME MSD_State = "WAIT" PROVE Quiet
    OBVIOUS
  <2>1. ~InIdle(usb)
    BY <1>1, ActiveShape
  <2> QED BY <1>1, <2>1 DEF ControlInv, Coupled, WhileWaiting, Quiet
<1>6. WhileServing' /\ WhileReporting' /\ WhileWaiting'
  <2>1. WhileServing'
    BY <1>1, <1>2 DEF ControlInv, Coupled, WhileServing, Serving
  <2>2. WhileReporting'
    BY <1>1, <1>2 DEF ControlInv, Coupled, WhileReporting
  <2>3. WhileWaiting'
    BY <1>1, <1>2, <1>3, <1>5 DEF ControlInv, Coupled, WhileWaiting, Settled, Quiet
  <2> QED BY <2>1, <2>2, <2>3
<1>7. host' = "ready" => InCsw(usb) /\ MSD_State = "WAIT"
  <2> SUFFICES ASSUME host' = "ready" PROVE InCsw(usb) /\ MSD_State = "WAIT"
    OBVIOUS
  <2>1. Active(usb.in).data = CswBuffer
    BY DEF ReceiveData, ReceiveStatus, StatusArrives
  <2>2. ~InData(usb) /\ ~InDataCsw(usb)
    BY <2>1 DEF InData, InDataCsw
  <2> QED BY <1>1, <2>2 DEF ControlInv, ControlTypes, MsdStates
<1>8. WithHost'
  BY <1>1, <1>2, <1>3, <1>5, <1>7 DEF WithHost, Quiet
<1> QED BY <1>4, <1>6, <1>8 DEF ControlInv, Coupled

\* The host clears the halt of an endpoint that has answered STALL.
LEMMA StallControl ==
  ASSUME IndInv, ControlInv, StallInData \/ StallInStatus
  PROVE  ControlInv'
<1>1. PICK d \in Directions : Answers(d, "stall") /\ RequestClearHalt(d)
  BY DEF StallInData, StallInStatus, Directions
<1>2. /\ configured /\ setup = "none" /\ setup' = ClearsHalt(d) /\ usb \in Pair
      /\ UNCHANGED <<usb, configured, MSDCBWValid, machineVars, ptrNextData, msd_cbw, cmd>>
      /\ host \in {"data", "status"} /\ host' \in {"status", "retry"}
      /\ host' = "retry" => d = "in"
  <2>1. setup' = ClearsHalt(d)
        /\ UNCHANGED <<usb, configured, MSDCBWValid, machineVars, ptrNextData, msd_cbw>>
    BY <1>1 DEF RequestClearHalt, Request, ClearsHalt, bufferVars
  <2>2. cmd' = cmd /\ host \in {"data", "status"} /\ host' \in {"status", "retry"}
    BY DEF StallInData, StallInStatus
  <2>3. configured /\ setup = "none" /\ usb \in Pair
    BY <1>1 DEF Answers, IndInv, Types
  <2>4. host' = "retry" => d = "in"
    BY <1>1, <2>1, <2>3 DEF StallInData, StallInStatus, RequestClearHalt, Request, ClearsHalt, Directions
  <2> QED BY <2>1, <2>2, <2>3, <2>4
<1>3. /\ d = "in" => InStalled(usb)
      /\ d = "out" => OutStalled(usb)
  <2>1. MSD_State \in {"WAIT", "SEND_CSW"} \/ Serving
    BY DEF ControlInv, ControlTypes, MsdStates, Serving
  <2>2. /\ d = "in" => Active(usb.in).own = "stall"
        /\ d = "out" => Active(usb.out).own = "stall"
    BY <1>1, <1>2, PairShape DEF Answers
  <2>3. CASE Serving
    BY <1>2, <2>2, <2>3, ServingAtWork, ActiveShape DEF OutAt, Directions
  <2>4. CASE MSD_State \in {"WAIT", "SEND_CSW"}
    BY <1>2, <2>2, <2>4, ActiveShape
       DEF ControlInv, Coupled, WhileWaiting, WhileReporting, Settled, OutAt
  <2> QED BY <2>1, <2>3, <2>4
<1>4. ControlTypes' /\ Requests'
  BY <1>2 DEF ControlInv, ControlTypes, Requests, machineVars, ClearsHalt, Directions
<1>5. WhileServing' /\ WhileReporting' /\ WhileWaiting'
  BY <1>2 DEF ControlInv, Coupled, WhileServing, WhileReporting, WhileWaiting, Serving, Settled,
     OutBusy, machineVars
<1>6. WithHost'
  BY <1>2, <1>3 DEF WithHost, ClearsHalt, Directions
<1> QED BY <1>4, <1>5, <1>6 DEF ControlInv, Coupled

\* The other steps of the host leave the drive as it is but for the request.
LEMMA RequestControl ==
  ASSUME IndInv, ControlInv,
         \/ GiveUp \/ RecoverReset \/ RecoverClear \/ Timeout \/ HaltEndpoint \/ ResetBus \/ Configure
  PROVE  ControlInv'
<1>1. UNCHANGED <<usb, configured, MSDCBWValid, machineVars, ptrNextData, msd_cbw, cmd>>
  BY DEF GiveUp, RecoverReset, RecoverClear, Timeout, HaltEndpoint, ResetBus, Configure, Request,
     RequestClearHalt, deviceVars, controlVars, bufferVars
<1>2. /\ OutBusy' = OutBusy /\ Quiet' = Quiet
      /\ (Serving' = Serving) /\ (configured => WhileServing' /\ WhileReporting')
  BY <1>1 DEF OutBusy, Quiet, Serving, machineVars, ControlInv, Coupled, WhileServing, WhileReporting
<1>r. \/ setup' = setup /\ setup = "none" /\ host \in {"ready", "data", "status", "retry"}
         /\ host' = "recover"
      \/ setup = "none" /\ host = "recover" /\ setup' = "MSD_RESET" /\ host' = "clear in"
      \/ setup = "none" /\ host = "clear in" /\ setup' = "CLEAR_HALT_IN" /\ host' = "clear out"
      \/ setup = "none" /\ host = "clear out" /\ setup' = "CLEAR_HALT_OUT" /\ host' = "ready"
      \/ setup = "none" /\ host = "ready" /\ setup' = "SET_HALT_IN" /\ host' = "clear in"
      \/ setup = "none" /\ host = "ready" /\ setup' = "SET_HALT_OUT" /\ host' = "clear out"
      \/ setup' = "BUS_RESET" /\ host' = "configure"
      \/ setup = "none" /\ host = "configure" /\ setup' = "SET_CONFIGURATION" /\ host' = "ready"
  BY DEF GiveUp, Answers, RecoverReset, RecoverClear, Timeout, HaltEndpoint, ResetBus, Configure,
     Request, RequestClearHalt, deviceVars, controlVars
<1>3. ControlTypes' /\ Requests'
  BY <1>1, <1>r DEF ControlInv, ControlTypes, Requests, machineVars
<1>4. configured /\ Settled' => Settled
  BY <1>r DEF Settled, ControlInv, Requests
<1>5. configured => WhileWaiting'
  BY <1>1, <1>2, <1>4 DEF ControlInv, Coupled, WhileWaiting, machineVars
<1>6. configured => WithHost'
  BY <1>1, <1>2, <1>r DEF ControlInv, Coupled, WithHost, Requests
<1> QED BY <1>1, <1>2, <1>3, <1>5, <1>6 DEF ControlInv, Coupled

LEMMA HostControl ==
  ASSUME IndInv, ControlInv, HostStep \/ Timeout \/ HaltEndpoint \/ ResetBus
  PROVE  ControlInv'
BY SendCBWControl, SendDataControl, TakeControl, StallControl, RequestControl DEF HostStep

LEMMA InitControl == Init => ControlInv
<1> SUFFICES ASSUME Init PROVE ControlInv
  OBVIOUS
<1> PICK t \in Tags : MsdInit(t) /\ cmd = NoCommand(t)
  BY DEF Init
<1>1. usb \in Pair /\ InIdle(usb) /\ OutAt(usb, CbwBuffer) /\ OutArmed(usb)
  BY ConfiguredPair DEF MsdInit
<1>2. /\ setup = "none" /\ configured = TRUE /\ MSDCBWValid = TRUE /\ host = "ready"
      /\ MSD_State = "WAIT" /\ MSDCommandState = "WAIT"
      /\ MSDReadState = "WAIT" /\ MSDWriteState = "WAIT"
  BY DEF Init, MsdInit
<1>3. OutBusy
  BY <1>1, BusyShape
<1> QED BY <1>1, <1>2, <1>3
        DEF ControlInv, ControlTypes, Requests, Coupled, WhileServing, WhileReporting,
            WhileWaiting, WithHost, Quiet, Serving, MsdStates, ReadStates, WriteStates

LEMMA NextControl == IndInv /\ ControlInv /\ [Next]_vars => ControlInv'
<1> SUFFICES ASSUME IndInv, ControlInv, [Next]_vars PROVE ControlInv'
  OBVIOUS
<1>1. CASE DriveStep
  BY <1>1, MSDTasksControl, USBDeviceTasksControl DEF DriveStep
<1>2. CASE HostStep \/ Timeout \/ HaltEndpoint \/ ResetBus
  BY <1>2, HostControl
<1>3. CASE (SetReadOnly /\ UNCHANGED hostVars) \/ UNCHANGED vars
  <2>1. UNCHANGED <<usb, setup, configured, MSDCBWValid, machineVars, ptrNextData, msd_cbw,
                    host, cmd>>
    BY <1>3 DEF SetReadOnly, vars, deviceVars, hostVars, controlVars, bufferVars
  <2>2. ControlTypes' /\ Requests'
    BY <2>1 DEF ControlInv, ControlTypes, Requests, machineVars
  <2>3. Coupled' = Coupled
    BY <2>1 DEF Coupled, WhileServing, WhileReporting, WhileWaiting, WithHost, Quiet, Serving,
       Settled, OutBusy, machineVars
  <2> QED BY <2>1, <2>2, <2>3 DEF ControlInv
<1> QED BY <1>1, <1>2, <1>3 DEF Next

THEOREM CommandControl == Spec => []ControlInv
BY InitControl, NextControl, InductiveInvariant, PTL DEF Spec

\* The CSW changes only in the middle of a command or before it, the sector buffer only while
\* IN is idle.
LEMMA BuffersUntouched ==
  ASSUME IndInv, ControlInv, [Next]_vars
  PROVE  /\ msd_csw' = msd_csw \/ InIdle(usb) \/ (configured /\ Serving)
         /\ msd_buffer' = msd_buffer \/ InIdle(usb)
<1>1. CASE DriveStep /\ MSDTasks
  <2>1. CASE AcceptCBW
    BY <2>1 DEF AcceptCBW, CBWReceived, Tasks, ControlInv, Coupled, WhileWaiting
  <2>2. CASE RejectCBW \/ SendCSW
    BY <2>2 DEF RejectCBW, SendCSW, bufferVars
  <2>3. CASE PrepareResponse
    <3>1. \E op \in Responses : Starting(op) /\ op # "RESPONSE"
      BY <2>3 DEF PrepareResponse, Responses, ResponseSize
    <3> QED BY <3>1, StartingShape
  <2>4. CASE SendResponse
    <3>1. configured /\ Serving /\ ~InBusy
      BY <2>4 DEF SendResponse, Tasks, Serving
    <3> QED BY <3>1, ServingAtWork
  <2>5. CASE ReadStart \/ ReadNextSector
    <3>1. configured /\ Serving /\ \E lba, remaining : ReadSector(lba, remaining)
      BY <2>5 DEF ReadStart, ReadNextSector, Starting, Reading, Tasks, Serving
    <3>2. msd_buffer' = msd_buffer \/ ~InBusy
      BY <3>1 DEF ReadSector, AwaitBuffer, FetchSector, RetryRead, AbandonRead
    <3> QED BY <3>1, <3>2, ServingAtWork
  <2>6. CASE \/ FailCheckedCommand \/ FailUnsupported \/ NoAnswerWanted
             \/ PreventAllowMediumRemoval \/ TestUnitReady \/ VerifyOrStopStart \/ ReadNothing
             \/ ReadEnd \/ SectorTransmitted \/ TransmitPacket
    BY <2>6 DEF FailCheckedCommand, FailUnsupported, NoAnswerWanted, PreventAllowMediumRemoval,
       TestUnitReady, VerifyOrStopStart, Conclude, ReadNothing, ReadEnd, SectorTransmitted,
       TransmitPacket, Starting, Reading, Tasks, Serving
  <2>7. CASE \/ WriteProtected \/ WriteStart \/ WriteNothing \/ WriteNextSector \/ WriteEnd
             \/ AskForPacket \/ PacketReceived \/ SectorReceived \/ WriteSector \/ RetryWrite
             \/ AbandonWrite \/ SkipSector
    BY <2>7 DEF WriteProtected, WriteStart, WriteNothing, WriteNextSector, WriteEnd, AskForPacket,
       PacketReceived, SectorReceived, WriteSector, RetryWrite, AbandonWrite, SkipSector, SectorDone,
       Starting, Writing, Tasks, Serving
  <2> QED BY <1>1, <2>1, <2>2, <2>3, <2>4, <2>5, <2>6, <2>7 DEF MSDTasks
<1>2. CASE DriveStep /\ USBDeviceTasks
  BY <1>2 DEF USBDeviceTasks, MassStorageReset, SetHaltIn, SetHaltOut, SetHalt, ClearHaltIn,
     ClearHaltOut, ClearHalt, BusReset, SetConfiguration, bufferVars
<1>3. CASE SendCBW
  <2>1. OutAt(usb, CbwBuffer) /\ InIdle(usb)
    BY <1>3, SendCBWShape
  <2> QED BY <1>3, <2>1 DEF SendCBW, Send
<1>4. CASE SendData
  <2>1. /\ configured /\ usb \in Pair /\ OutArmed(usb)
        /\ MSD_State \in {"WAIT", "SEND_CSW"} => OutAt(usb, CbwBuffer)
    BY <1>4, SendDataShape
  <2>2. CASE Serving
    <3>1. MSDWriteState = "RX_PACKET"
      BY <1>4, <2>2, SendDataShape
    <3>2. InIdle(usb)
      BY <2>1, <2>2, <3>1, ServingAtWork
    <3> QED BY <1>4, <2>1, <2>2, <3>2 DEF SendData, Send
  <2>3. CASE ~Serving
    <3>1. Active(usb.out).data = CbwBuffer
      BY <2>1, <2>3 DEF OutAt, Serving, ControlInv, ControlTypes, MsdStates
    <3> QED BY <1>4, <3>1 DEF SendData, Send
  <2> QED BY <2>2, <2>3
<1>5. CASE ReceiveData \/ ReceiveStatus
  BY <1>5 DEF ReceiveData, ReceiveStatus, Receive, bufferVars
<1>6. CASE \/ StallInData \/ StallInStatus \/ GiveUp \/ RecoverReset \/ RecoverClear \/ Timeout
           \/ HaltEndpoint \/ ResetBus \/ Configure
  BY <1>6 DEF StallInData, StallInStatus, GiveUp, RecoverReset, RecoverClear, Timeout,
     HaltEndpoint, ResetBus, Configure, Request, RequestClearHalt, deviceVars, bufferVars
<1>7. CASE (SetReadOnly /\ UNCHANGED hostVars) \/ UNCHANGED vars
  BY <1>7 DEF SetReadOnly, vars, deviceVars, bufferVars
<1> QED BY <1>1, <1>2, <1>3, <1>4, <1>5, <1>6, <1>7 DEF Next, DriveStep, HostStep

----------------------------------------------------------------------------
(* Theorems.                                                                *)

\* A CBW of the host never lands in the sector buffer of a write that was aborted, and the
\* handle that MSDTasks looks at is the one that completes, whatever was reset or cleared
\* before (usb_device_msd.c:266, app.c:282).
THEOREM CommandFindsItsBuffer == Spec => []CommandHasItsBuffer
<1>1. IndInv /\ ControlInv => CommandHasItsBuffer
  <2> SUFFICES ASSUME IndInv, ControlInv, host = "ready", Answers("out", "armed")
               PROVE  /\ Active(usb.out).data = CbwBuffer /\ usb.outHandle = usb.out.active
                      /\ MSD_State = "WAIT"
    BY DEF CommandHasItsBuffer
  <2>1. /\ configured /\ setup = "none" /\ usb \in Pair /\ Active(usb.out).own = "armed"
    BY PairShape DEF Answers, IndInv, Types
  <2>2. MSD_State = "WAIT" /\ Settled
    BY <2>1 DEF ControlInv, Coupled, WithHost, Quiet, Settled
  <2>3. OutAt(usb, CbwBuffer)
    BY <2>1, <2>2, ActiveShape DEF ControlInv, Coupled, WhileWaiting
  <2> QED BY <2>2, <2>3 DEF OutAt, OutArmed
<1> QED BY <1>1, InductiveInvariant, CommandControl, PTL

\* What the comment before MSDErrorHandler asks for holds for every command that is found to be
\* in error: both handles are idle then, so the error is always reported (usb_device_msd.c:1592).
THEOREM ErrorsAreReported == Spec => []ErrorsFindIdleHandles
<1>1. IndInv /\ ControlInv => ErrorsFindIdleHandles
  BY StartingShape DEF ErrorsFindIdleHandles
<1> QED BY <1>1, InductiveInvariant, CommandControl, PTL

\* Neither the next sector of a read nor the next answer or command changes what a packet that
\* is armed on IN will carry (usb_device_msd.c:1086), for every set of commands and disturbances.
THEOREM PacketsGoOutUnchanged == Spec => NoOverwriteInFlight
<1>1. ASSUME IndInv, ControlInv, [Next]_vars, NEW i \in Entries,
             usb.in.entry[i].own = "armed", usb'.in.entry[i] = usb.in.entry[i]
      PROVE  Content'[i] = Content[i]
  <2>1. usb \in Pair /\ ~InIdle(usb)
    BY <1>1 DEF IndInv, Types, InIdle, Idle
  <2>2. msd_buffer' = msd_buffer
    BY <1>1, <2>1, BuffersUntouched
  <2>3. usb.in.entry[i].data = CswBuffer => msd_csw' = msd_csw
    <3>1. configured /\ Serving => usb.in.entry[i].data # CswBuffer
      <4> SUFFICES ASSUME configured, Serving PROVE usb.in.entry[i].data # CswBuffer
        OBVIOUS
      <4>1. InData(usb)
        BY <1>1, <2>1, ServingAtWork
      <4>2. i = usb.in.active
        BY <1>1, <2>1, <4>1, PairShape, EntriesLaw DEF InData, OneArmed
      <4> QED BY <4>1, <4>2 DEF InData, Active
    <3> QED BY <1>1, <2>1, <3>1, BuffersUntouched
  <2> QED BY <1>1, <2>2, <2>3 DEF Content
<1>2. IndInv /\ ControlInv /\ [Next]_vars =>
        [\A i \in Entries : usb.in.entry[i].own = "armed" /\ usb'.in.entry[i] = usb.in.entry[i]
           => Content'[i] = Content[i]]_vars
  BY <1>1
<1> QED BY <1>2, InductiveInvariant, CommandControl, PTL DEF Spec, NoOverwriteInFlight

----------------------------------------------------------------------------
(* Sizes and places.                                                        *)

\* Packets in a sector.
N == BLOCKLEN \div EP_SIZE

LEMMA DivisionUnique ==
  ASSUME NEW q \in Nat, NEW b \in Nat \ {0}, NEW r \in 0 .. b - 1
  PROVE  (q * b + r) \div b = q /\ (q * b + r) % b = r
OBVIOUS

LEMMA Sizes ==
  /\ EP_SIZE \in Nat \ {0} /\ BLOCKLEN \in Nat \ {0}
  /\ N \in Nat \ {0} /\ BLOCKLEN = N * EP_SIZE
  /\ Chunks = 0 .. N - 1 /\ 0 \in Chunks /\ Cardinality(Chunks) = N
<1>1. EP_SIZE \in Nat \ {0} /\ BLOCKLEN \in Nat \ {0} /\ BLOCKLEN % EP_SIZE = 0
  BY SizesAssumption
<1>2. N \in Nat /\ BLOCKLEN = N * EP_SIZE
  BY <1>1 DEF N
<1>3. N # 0
  BY <1>1, <1>2
<1>4. Chunks = 0 .. N - 1 /\ 0 \in Chunks
  BY <1>2, <1>3 DEF Chunks, N
<1>5. Cardinality(0 .. N - 1) = N
  BY <1>2, <1>3, FS_Interval
<1> QED BY <1>1, <1>2, <1>3, <1>4, <1>5

\* Sector j of a transfer and packet k in it, counted in bytes from the start of it.
LEMMA Place ==
  ASSUME NEW j \in Nat, NEW k \in Chunks
  PROVE  LET p == j * BLOCKLEN + k * EP_SIZE
         IN /\ p \in Nat /\ p \div BLOCKLEN = j
            /\ (p % BLOCKLEN) \div EP_SIZE = k
            /\ p \div EP_SIZE = j * N + k
<1>1. /\ EP_SIZE \in Nat \ {0} /\ BLOCKLEN \in Nat \ {0} /\ N \in Nat \ {0}
      /\ BLOCKLEN = N * EP_SIZE /\ k \in 0 .. N - 1
  BY Sizes
<1> DEFINE r == k * EP_SIZE
<1>2. r \in 0 .. BLOCKLEN - 1
  <2>1. k + 1 <= N /\ k \in Nat
    BY <1>1
  <2>2. (k + 1) * EP_SIZE <= N * EP_SIZE
    BY <1>1, <2>1
  <2> QED BY <1>1, <2>1, <2>2
<1>3. r \div EP_SIZE = k
  <2>1. (k * EP_SIZE + 0) \div EP_SIZE = k
    BY <1>1, DivisionUnique
  <2> QED BY <1>1, <2>1
<1>4. (j * BLOCKLEN + r) \div BLOCKLEN = j /\ (j * BLOCKLEN + r) % BLOCKLEN = r
  BY <1>1, <1>2, DivisionUnique
<1>5. (j * BLOCKLEN + r) \div EP_SIZE = j * N + k
  <2>1. j * N + k \in Nat
    BY <1>1
  <2>2. j * BLOCKLEN + r = (j * N + k) * EP_SIZE + 0
    BY <1>1
  <2> QED BY <1>1, <2>1, <2>2, DivisionUnique
<1>6. j * BLOCKLEN + r \in Nat
  BY <1>1, <1>2
<1> QED BY <1>3, <1>4, <1>5, <1>6

----------------------------------------------------------------------------
(* The data of a command.  With the places of both in the command, the bytes that have moved,  *)
(* the chunks in the sector buffer and the counters of the drive are tied to one another.      *)

\* The values of the state, as far as they are numbers, commands and chunks.  The last conjunct:
\* what the host may still write is data that the medium can hold.
Values ==
  /\ Carries(usb)
  /\ gblCBW \in CBW /\ msd_cbw \in CBW /\ cmd \in CBW /\ msd_csw \in CSW
  /\ MSDHostNoData \in BOOLEAN /\ isReadOnly \in BOOLEAN /\ intact \in BOOLEAN
  /\ TransferLength \in Nat /\ LBA \in Nat /\ ptrNextData \in Nat /\ moved \in Nat
  /\ MSDRetryAttempt \in 0 .. MaxAttempts /\ sense \in SenseKeys
  /\ msd_buffer \in [Chunks -> Data \cup {Answer, Zeros}]
  /\ store \in [Sectors -> [Chunks -> Data]]
  /\ aborts \in 0 .. MaxAborts
  /\ \A p \in Nat : p * EP_SIZE < cmd.length => <<cmd.tag, p>> \in Data

\* The drive has the command of the host and counts down its length.
Served ==
  /\ gblCBW.op = cmd.op /\ gblCBW.lba = cmd.lba /\ gblCBW.count = cmd.count
  /\ gblCBW.length <= cmd.length

\* The command has been taken, and nothing has been done about it yet.
Started ==
  Serving /\ MSDCommandState # "RESPONSE" /\ MSDReadState = "WAIT" /\ MSDWriteState = "WAIT"

WhenStarted ==
  /\ gblCBW.length = cmd.length /\ MSDCommandState = cmd.op /\ (MSD_State = "DATA_IN" <=> cmd.in)
  /\ msd_csw.residue = 0 /\ msd_csw.status = "PASSED"
  /\ MSDHostNoData = (cmd.length = 0)
  /\ moved = 0

\* What of an answer the host gets to see.
Offered == Least(ResponseSize[cmd.op], cmd.length)

WhenResponding ==
  /\ cmd.op \in Responses
  /\ msd_csw.residue = cmd.length - Offered /\ msd_csw.status = "PASSED"
  /\ IF gblCBW.length = cmd.length
     THEN TransferLength = Offered /\ msd_buffer[0] = Answer
     ELSE TransferLength = 0 /\ gblCBW.length > 0

\* Sectors that a read or a write is through with.
Done == LBA - cmd.lba

\* The state of a read between two calls; in SECTOR the sector at LBA is still to be fetched.
ReadAt(state) ==
  /\ cmd.op = "READ_10" /\ cmd.in /\ cmd.length = cmd.count * BLOCKLEN
  /\ msd_csw.status = "PASSED"
  /\ state = "SECTOR" =>
       /\ Done \in 0 .. cmd.count - 1 /\ TransferLength = cmd.count - Done - 1
       /\ gblCBW.length = (TransferLength + 1) * BLOCKLEN /\ msd_csw.residue = 0
  /\ state # "SECTOR" =>
       /\ Done \in 1 .. cmd.count /\ TransferLength = cmd.count - Done
       /\ gblCBW.length = TransferLength * BLOCKLEN + msd_csw.residue
  /\ state = "BLOCK" => msd_csw.residue = 0
  /\ state \in {"TX_SECTOR", "TX_PACKET"} =>
       /\ ptrNextData \in 1 .. N /\ msd_csw.residue = BLOCKLEN - ptrNextData * EP_SIZE
       /\ LBA - 1 \in Sectors /\ msd_buffer = store[LBA - 1]
  /\ state = "TX_PACKET" => ptrNextData # N

WhenReading == ReadAt(MSDReadState)

\* The packet that a write has asked for is in.
Arrived == MSDWriteState = "RX_PACKET" /\ OutIdle(usb)

\* The sectors of the write before "upto" are on the medium.
Stored(upto) == \A s \in cmd.lba .. upto - 1 : s \in Sectors /\ store[s] = SectorOf(s)

\* In a sector, ptrNextData packets have been counted.
WithinSector(arrived) ==
  /\ Done < cmd.count
  /\ ptrNextData \in 0 .. N /\ msd_csw.residue = BLOCKLEN - ptrNextData * EP_SIZE
  /\ gblCBW.length = (TransferLength - 1) * BLOCKLEN + msd_csw.residue
  /\ \A i \in Chunks : i < ptrNextData \/ (i = ptrNextData /\ arrived)
                       => msd_buffer[i] = Written(Done * N + i)

WhenWriting ==
  /\ cmd.op = "WRITE_10" /\ ~cmd.in /\ cmd.length = cmd.count * BLOCKLEN
  /\ msd_csw.status \in {"PASSED", "FAILED"}
  /\ TransferLength = cmd.count - Done /\ Done >= 0
  /\ MSDWriteState = "BLOCK" =>
       Done <= cmd.count /\ msd_csw.residue = 0 /\ gblCBW.length = TransferLength * BLOCKLEN
  /\ MSDWriteState # "BLOCK" => WithinSector(Arrived)
  /\ MSDWriteState = "RX_PACKET" => ptrNextData # N
  /\ MSDWriteState = "SECTOR" => ptrNextData = N
  /\ moved = cmd.length - gblCBW.length + (IF Arrived THEN EP_SIZE ELSE 0)
  /\ Arrived => usb.out.entry[usb.outHandle].cnt = EP_SIZE
  /\ msd_csw.status = "PASSED" => Stored(LBA)

\* The CSW is decided, and perhaps waits on IN for the host.
CswOut == InCsw(usb) \/ InDataCsw(usb)

Reporting == MSD_State = "SEND_CSW" \/ (MSD_State = "WAIT" /\ CswOut)

WhenReporting ==
  msd_csw.status = "PASSED" =>
    /\ cmd.op \in {"READ_10", "WRITE_10"} => cmd.length = cmd.count * BLOCKLEN
    /\ cmd.op = "WRITE_10" => moved = cmd.length /\ Stored(cmd.lba + cmd.count)
    /\ cmd.op \in Responses \cup {"READ_10"} => gblCBW.length = 0
    /\ cmd.op \in Responses => msd_csw.residue = cmd.length - Offered

\* Bytes of the data packet that is armed on IN.
InFlight == IF InData(usb) \/ InDataCsw(usb) THEN Active(usb.in).cnt ELSE 0

\* A CBW has come in and is still to be taken.
Fresh == MSD_State = "WAIT" /\ ~OutBusy /\ msd_cbw.form # "invalid"

HostWaits == host \in {"data", "status", "retry"}

Answering == cmd.op \in Responses \cup {"READ_10"}

\* While the host is in the command too, it has seen what the drive has sent and counted, but
\* for the packet that is armed; and that one holds what it expects next.
WhileHostWaits ==
  /\ Serving \/ Reporting \/ Fresh => intact
  /\ (Serving \/ Reporting) /\ Answering
       => (IF cmd.in THEN moved ELSE 0) + InFlight = cmd.length - gblCBW.length
  /\ InData(usb) \/ InDataCsw(usb) =>
       /\ Answering /\ (Serving \/ Reporting)
       /\ Active(usb.in).data[2] \in Chunks
       /\ cmd.in => msd_buffer[Active(usb.in).data[2]] = Expected(moved)

InCommand ==
  /\ Fresh => moved = 0
  /\ Serving \/ Reporting => Served /\ msd_csw.tag = cmd.tag
  /\ Started => WhenStarted
  /\ Serving /\ MSDCommandState = "RESPONSE" => WhenResponding
  /\ Serving /\ MSDReadState # "WAIT" => WhenReading
  /\ Serving /\ MSDWriteState # "WAIT" => WhenWriting
  /\ Reporting => WhenReporting
  /\ HostWaits => WhileHostWaits

Counts == moved <= cmd.length /\ (host = "data" => moved < cmd.length)

DataInv == Values /\ Counts /\ (configured => InCommand)

LEMMA ChunkPlace == \A b : DataBuffer(b)[2] = b /\ DataBuffer(b) # CswBuffer
BY DEF DataBuffer, CswBuffer

\* IN is left alone, or had nothing and is stalled: the host has seen as much as before.
LEMMA HostSeesTheSame ==
  ASSUME usb \in Pair, usb' \in Pair, DataInv, configured, Serving, HostWaits, UNCHANGED hostVars,
         MSD_State' # "WAIT", gblCBW'.length = gblCBW.length,
         \/ usb'.in = usb.in /\ usb'.inHandle = usb.inHandle /\ UNCHANGED <<msd_buffer, store>>
         \/ InIdle(usb) /\ (InIdle(usb') \/ InStalled(usb')),
         MSD_State' \in MsdStates
  PROVE  WhileHostWaits'
<1>1. WhileHostWaits /\ intact /\ UNCHANGED <<cmd, moved, intact>> /\ (Serving' \/ Reporting')
  BY DEF DataInv, InCommand, WhileHostWaits, hostVars, Serving, Reporting, MsdStates
<1>2. CASE usb'.in = usb.in /\ usb'.inHandle = usb.inHandle /\ UNCHANGED <<msd_buffer, store>>
  <2>1. InData(usb') = InData(usb) /\ InDataCsw(usb') = InDataCsw(usb)
    BY <1>2, InKept
  <2>2. InFlight' = InFlight /\ Answering' = Answering /\ Expected(moved)' = Expected(moved)
    BY <1>1, <1>2, <2>1 DEF InFlight, Answering, Expected
  <2> QED BY <1>1, <1>2, <2>1, <2>2 DEF WhileHostWaits
<1>3. CASE InIdle(usb) /\ (InIdle(usb') \/ InStalled(usb'))
  <2>1. ~InData(usb) /\ ~InDataCsw(usb) /\ ~InData(usb') /\ ~InDataCsw(usb')
    BY <1>3, ActiveShape
  <2>2. InFlight' = InFlight /\ Answering' = Answering
    BY <1>1, <2>1 DEF InFlight, Answering
  <2> QED BY <1>1, <1>3, <2>1, <2>2 DEF WhileHostWaits
<1> QED BY <1>2, <1>3

\* A command that has nothing for the host.
LEMMA HostSeesNothing ==
  ASSUME usb' \in Pair, DataInv, configured, Serving, HostWaits, UNCHANGED hostVars,
         MSD_State' # "WAIT", ~Answering, InIdle(usb')
  PROVE  WhileHostWaits'
<1>1. intact /\ UNCHANGED <<cmd, moved, intact>>
  BY DEF DataInv, InCommand, WhileHostWaits, hostVars
<1>2. ~InData(usb') /\ ~InDataCsw(usb') /\ ~Answering'
  BY <1>1, ActiveShape DEF Answering
<1> QED BY <1>1, <1>2 DEF WhileHostWaits

\* A packet of len bytes is armed with what the host expects next.
LEMMA HostSeesPacket ==
  ASSUME usb \in Pair, DataInv, configured, Serving, HostWaits, UNCHANGED hostVars,
         MSD_State' # "WAIT", MSD_State' \in MsdStates, Answering, InIdle(usb),
         NEW k \in Chunks, NEW len \in Nat, usb' = Tx(usb, DataBuffer(k), len),
         gblCBW'.length = gblCBW.length - len, gblCBW.length \in Nat, cmd.length \in Nat,
         cmd.in => msd_buffer'[k] = Expected(moved)'
  PROVE  WhileHostWaits'
<1>1. WhileHostWaits /\ intact /\ UNCHANGED <<cmd, moved, intact>> /\ (Serving' \/ Reporting')
  BY DEF DataInv, InCommand, WhileHostWaits, hostVars, Serving, Reporting, MsdStates
<1>2. InData(usb') /\ Active(usb'.in).data = DataBuffer(k) /\ Active(usb'.in).cnt = len
  <2>1. k \in Int /\ len \in Int
    BY Sizes
  <2>2. DataBuffer(k) \in Buffers /\ DataBuffer(k) # CswBuffer
    BY <2>1, BuffersOfDrive, ChunkPlace
  <2> QED BY <2>1, <2>2, TxArms
<1>3. InFlight = 0 /\ InFlight' = len /\ Answering'
  <2>1. ~InData(usb) /\ ~InDataCsw(usb)
    BY ActiveShape
  <2> QED BY <1>1, <1>2, <2>1 DEF InFlight, Answering
<1>4. (IF cmd.in THEN moved ELSE 0) = cmd.length - gblCBW.length
  <2>1. (IF cmd.in THEN moved ELSE 0) + 0 = cmd.length - gblCBW.length
    BY <1>1, <1>3 DEF WhileHostWaits
  <2>2. moved \in Nat
    BY DEF DataInv, Values
  <2> QED BY <2>1, <2>2
<1>5. (IF cmd'.in THEN moved' ELSE 0) + InFlight' = cmd'.length - gblCBW'.length
  BY <1>1, <1>3, <1>4
<1>6. Active(usb'.in).data[2] = k
  BY <1>2, ChunkPlace
<1> QED BY <1>1, <1>2, <1>3, <1>5, <1>6 DEF WhileHostWaits

\* What the host has not seen is what the drive still counts, when no packet is armed.
LEMMA PlaceOfHost ==
  ASSUME usb \in Pair, DataInv, configured, Serving, HostWaits, Answering, InIdle(usb), cmd.in
  PROVE  moved = cmd.length - gblCBW.length
<1>1. ~InData(usb) /\ ~InDataCsw(usb)
  BY ActiveShape
<1> QED BY <1>1 DEF DataInv, Values, InCommand, WhileHostWaits, InFlight

\* A step of MSDTasks from the middle of a command into the middle of it or to its status.
LEMMA WorkData ==
  ASSUME DataInv, configured, Serving, UNCHANGED controlVars, UNCHANGED hostVars, Values',
         MSD_State' # "WAIT", MSD_State' \in MsdStates, Served', msd_csw'.tag = msd_csw.tag,
         Serving' => /\ ~Started'
                     /\ MSDCommandState' = "RESPONSE" => WhenResponding'
                     /\ MSDReadState' # "WAIT" => WhenReading'
                     /\ MSDWriteState' # "WAIT" => WhenWriting',
         MSD_State' = "SEND_CSW" => WhenReporting',
         HostWaits => WhileHostWaits'
  PROVE  DataInv'
<1>1. msd_csw.tag = cmd.tag /\ UNCHANGED <<configured, host, cmd, moved>>
  BY DEF DataInv, InCommand, hostVars, controlVars
<1>2. Counts' /\ (HostWaits' = HostWaits)
  BY <1>1 DEF DataInv, Counts, HostWaits
<1>3. ~Fresh' /\ (Reporting' => MSD_State' = "SEND_CSW") /\ (Started' => Serving')
  BY DEF Fresh, Reporting, Started
<1>4. InCommand'
  BY <1>1, <1>2, <1>3 DEF InCommand
<1> QED BY <1>2, <1>4 DEF DataInv

\* The values of the drive after a step of MSDTasks; the host's stay.
LEMMA TasksValues ==
  ASSUME Values, UNCHANGED hostVars, UNCHANGED <<MSDHostNoData, isReadOnly, msd_cbw>>,
         Carries(usb'), gblCBW' \in CBW, msd_csw' \in CSW, TransferLength' \in Nat, LBA' \in Nat,
         ptrNextData' \in Nat, MSDRetryAttempt' \in 0 .. MaxAttempts, sense' \in SenseKeys,
         msd_buffer' \in [Chunks -> Data \cup {Answer, Zeros}], store' \in [Sectors -> [Chunks -> Data]]
  PROVE  Values'
BY DEF Values, hostVars

LEMMA FinishedCsw ==
  ASSUME NEW c \in CSW, Finish(c)
  PROVE  /\ msd_csw' \in CSW /\ msd_csw'.tag = c.tag /\ msd_csw'.residue = c.residue
         /\ msd_csw'.status = "PASSED" => c.status = "PASSED"
         /\ MSD_State' = "SEND_CSW" /\ MSDCommandState' = "WAIT"
         /\ MSDReadState' = "WAIT" /\ MSDWriteState' = "WAIT"
<1>1. msd_csw' = c \/ msd_csw' = [c EXCEPT !.status = "PHASE_ERROR"]
  BY DEF Finish
<1>2. CASE msd_csw' = c
  BY <1>2 DEF Finish
<1>3. CASE msd_csw' = [c EXCEPT !.status = "PHASE_ERROR"]
  BY <1>3 DEF Finish, CSW
<1> QED BY <1>1, <1>2, <1>3

\* A command comes to its end with the status c.
LEMMA FinishData ==
  ASSUME DataInv, configured, Serving, UNCHANGED commandFrame, UNCHANGED hostVars,
         NEW c \in CSW, c.tag = msd_csw.tag, Finish(c),
         Carries(usb'), gblCBW' \in CBW, TransferLength' \in Nat, LBA' \in Nat,
         ptrNextData' \in Nat, MSDRetryAttempt' \in 0 .. MaxAttempts, sense' \in SenseKeys,
         msd_buffer' \in [Chunks -> Data \cup {Answer, Zeros}],
         Served',
         c.status = "PASSED" =>
           /\ cmd.op \in {"READ_10", "WRITE_10"} => cmd.length = cmd.count * BLOCKLEN
           /\ cmd.op = "WRITE_10" => moved = cmd.length /\ Stored(cmd.lba + cmd.count)
           /\ cmd.op \in Responses \cup {"READ_10"} => gblCBW'.length = 0
           /\ cmd.op \in Responses => c.residue = cmd.length - Offered,
         HostWaits => WhileHostWaits'
  PROVE  DataInv'
<1>1. UNCHANGED <<controlVars, cmd, moved, store, isReadOnly, msd_cbw, MSDHostNoData>>
  BY DEF commandFrame, mediaVars, controlVars, hostVars
<1>2. /\ msd_csw' \in CSW /\ msd_csw'.tag = c.tag /\ msd_csw'.residue = c.residue
      /\ msd_csw'.status = "PASSED" => c.status = "PASSED"
      /\ MSD_State' = "SEND_CSW"
  BY FinishedCsw
<1>3. Values'
  <2>1. Values /\ store' \in [Sectors -> [Chunks -> Data]]
    BY <1>1 DEF DataInv, Values
  <2> QED BY <1>1, <1>2, <2>1, TasksValues
<1>4. WhenReporting'
  <2>1. Stored(cmd.lba + cmd.count)' = Stored(cmd.lba + cmd.count) /\ Offered' = Offered
    BY <1>1 DEF Stored, SectorOf, Written, Offered
  <2> QED BY <1>1, <1>2, <2>1 DEF WhenReporting
<1> QED BY <1>1, <1>2, <1>3, <1>4, WorkData DEF Serving, MsdStates

\* The packets that are there may be armed, and stalled.
LEMMA StallCarries ==
  ASSUME usb \in Pair, Carries(usb), NEW d \in Directions, usb' = Stall(usb, d)
  PROVE  /\ usb' \in Pair /\ Carries(usb')
         /\ InIdle(usb) => InIdle(usb') \/ InStalled(usb')
<1>1. /\ usb' \in Pair /\ Carries(usb') /\ usb'.inHandle = usb.inHandle
      /\ d = "in" => InStalled(usb')
      /\ d = "out" => usb'.in = usb.in
  BY StallStalls
<1> QED BY <1>1, InKept DEF Directions

LEMMA TxCarries ==
  ASSUME usb \in Pair, Carries(usb), NEW k \in Chunks, NEW len \in Nat,
         usb' = Tx(usb, DataBuffer(k), len)
  PROVE  usb' \in Pair /\ Carries(usb')
<1>1. DataBuffer(k) \in Buffers /\ DataBuffer(k) \in SieBuffers
  BY Sizes, BuffersOfDrive DEF SieBuffers
<1> QED BY <1>1, TxArms

LEMMA RxCarries ==
  ASSUME usb \in Pair, Carries(usb), NEW k \in Chunks, usb' = Rx(usb, DataBuffer(k))
  PROVE  /\ usb' \in Pair /\ Carries(usb') /\ usb'.in = usb.in /\ usb'.inHandle = usb.inHandle
         /\ Idle(usb.out) => OutArmed(usb')
<1>1. DataBuffer(k) \in Buffers /\ DataBuffer(k) \in SieBuffers
  BY Sizes, BuffersOfDrive DEF SieBuffers
<1> QED BY <1>1, RxArms

----------------------------------------------------------------------------
(* MSDTasks: commands without data, answers.                                *)

LEMMA StartingData ==
  ASSUME IndInv, ControlInv, DataInv, NEW op, Starting(op), op # "RESPONSE"
  PROVE  /\ configured /\ Serving /\ usb \in Pair /\ InIdle(usb) /\ OutIdle(usb)
         /\ Carries(usb) /\ gblCBW \in CBW /\ msd_csw \in CSW /\ cmd \in CBW /\ Served
         /\ op = cmd.op /\ op = MSDCommandState /\ gblCBW.length = cmd.length
         /\ (MSD_State = "DATA_IN" <=> cmd.in) /\ (MSD_State = "DATA_OUT" <=> ~cmd.in)
         /\ msd_csw.residue = 0 /\ msd_csw.status = "PASSED" /\ moved = 0
         /\ MSDHostNoData = (cmd.length = 0) /\ msd_csw.tag = cmd.tag
<1>1. /\ configured /\ Serving /\ MSDCommandState = op
      /\ MSDReadState = "WAIT" /\ MSDWriteState = "WAIT"
      /\ usb \in Pair /\ InIdle(usb) /\ OutIdle(usb)
  BY StartingShape
<1>2. Started
  BY <1>1 DEF Started
<1>3. WhenStarted /\ Served /\ msd_csw.tag = cmd.tag
  BY <1>1, <1>2 DEF DataInv, InCommand
<1>4. MSD_State = "DATA_OUT" <=> ~(MSD_State = "DATA_IN")
  BY <1>1 DEF Serving
<1>5. Carries(usb) /\ gblCBW \in CBW /\ msd_csw \in CSW /\ cmd \in CBW
  BY DEF DataInv, Values
<1> QED BY <1>1, <1>3, <1>4, <1>5 DEF WhenStarted

\* A command that ends in the call in which it was looked at.
LEMMA EndAtOnce ==
  ASSUME IndInv, ControlInv, DataInv, NEW op, Starting(op), op # "RESPONSE",
         UNCHANGED commandFrame, UNCHANGED hostVars,
         UNCHANGED <<gblCBW, MSDRetryAttempt, msd_buffer, ptrNextData>>,
         TransferLength' \in Nat, LBA' \in Nat, sense' \in SenseKeys,
         NEW c \in CSW, c.tag = msd_csw.tag, Finish(c),
         usb' = usb \/ \E d \in Directions : usb' = Stall(usb, d),
         c.status = "PASSED" =>
           /\ cmd.op \in {"READ_10", "WRITE_10"} => cmd.length = 0 /\ cmd.count = 0
           /\ cmd.op \in Responses => cmd.length = 0 /\ c.residue = 0
  PROVE  DataInv'
<1>1. /\ configured /\ Serving /\ usb \in Pair /\ InIdle(usb) /\ Carries(usb) /\ Served
      /\ gblCBW.length = cmd.length /\ moved = 0 /\ cmd \in CBW
  BY StartingData
<1>2. usb' \in Pair /\ Carries(usb') /\ (InIdle(usb') \/ InStalled(usb'))
  <2>1. CASE usb' = usb
    BY <1>1, <2>1
  <2>2. CASE \E d \in Directions : usb' = Stall(usb, d)
    BY <1>1, <2>2, StallCarries
  <2> QED BY <2>1, <2>2
<1>3. MSD_State' = "SEND_CSW"
  BY DEF Finish
<1>4. HostWaits => WhileHostWaits'
  BY <1>1, <1>2, <1>3, HostSeesTheSame DEF MsdStates
<1>5. /\ gblCBW' \in CBW /\ ptrNextData' \in Nat /\ MSDRetryAttempt' \in 0 .. MaxAttempts
      /\ msd_buffer' \in [Chunks -> Data \cup {Answer, Zeros}]
  BY DEF DataInv, Values
<1>6. Served'
  BY <1>1 DEF Served, hostVars
<1>7. c.status = "PASSED" =>
        /\ cmd.op \in {"READ_10", "WRITE_10"} => cmd.length = cmd.count * BLOCKLEN
        /\ cmd.op = "WRITE_10" => moved = cmd.length /\ Stored(cmd.lba + cmd.count)
        /\ cmd.op \in Responses \cup {"READ_10"} => gblCBW'.length = 0
        /\ cmd.op \in Responses => c.residue = cmd.length - Offered
  <2> SUFFICES ASSUME c.status = "PASSED" PROVE
        /\ cmd.op \in {"READ_10", "WRITE_10"} => cmd.length = cmd.count * BLOCKLEN
        /\ cmd.op = "WRITE_10" => moved = cmd.length /\ Stored(cmd.lba + cmd.count)
        /\ cmd.op \in Responses \cup {"READ_10"} => gblCBW'.length = 0
        /\ cmd.op \in Responses => c.residue = cmd.length - Offered
    OBVIOUS
  <2>1. cmd.op \in {"READ_10", "WRITE_10"} =>
          cmd.length = 0 /\ cmd.length = cmd.count * BLOCKLEN /\ Stored(cmd.lba + cmd.count)
    BY <1>1, Sizes DEF Stored, CBW
  <2>2. cmd.op \in Responses => cmd.length = 0 /\ c.residue = cmd.length - Offered
    <3>1. \A o \in Responses : ResponseSize[o] \in Nat
      BY DEF Responses, ResponseSize
    <3> QED BY <3>1 DEF Offered, Least
  <2> QED BY <1>1, <2>1, <2>2
<1> QED BY <1>1, <1>2, <1>4, <1>5, <1>6, <1>7, FinishData

LEMMA CommandsData ==
  ASSUME IndInv, ControlInv, DataInv, UNCHANGED hostVars,
         \/ FailCheckedCommand \/ FailUnsupported \/ NoAnswerWanted \/ PreventAllowMediumRemoval
         \/ TestUnitReady \/ VerifyOrStopStart \/ ReadNothing \/ WriteProtected \/ WriteNothing
  PROVE  DataInv'
<1>1. /\ gblCBW \in CBW /\ msd_csw \in CSW /\ sense \in SenseKeys
      /\ TransferLength \in Nat /\ LBA \in Nat /\ gblCBW.count \in Nat /\ gblCBW.lba \in Nat
      /\ gblCBW.length \in Nat
  BY DEF DataInv, Values, CBW
<1>2. CASE FailCheckedCommand
  <2>1. PICK op \in {"READ_10", "WRITE_10", "INQUIRY", "TEST_UNIT_READY"} : Starting(op)
    BY <1>2 DEF FailCheckedCommand
  <2> DEFINE stalled == CASE ErrorCase = 2 -> "none" [] ErrorCase \in {4, 7} -> "in"
                          [] ErrorCase \in {9, 10} -> "out"
             status == IF ErrorCase \in {2, 7, 10} THEN "PHASE_ERROR" ELSE "FAILED"
  <2>2. MSDErrorHandler(stalled, status, sense)
    BY <1>2 DEF FailCheckedCommand
  <2>3. stalled \in Directions \cup {"none"} /\ status \in {"FAILED", "PHASE_ERROR"}
    BY DEF ErrorCase, Directions
  <2> HIDE DEF stalled, status
  <2> DEFINE c == [msd_csw EXCEPT !.residue = gblCBW.length, !.status = status]
  <2>r. ~(InBusy \/ OutBusy)
    BY <2>1, StartingShape
  <2>4. Finish(c) /\ usb' = (IF stalled = "none" THEN usb ELSE Stall(usb, stalled)) /\ sense' = sense
    BY <2>2, <2>r DEF MSDErrorHandler
  <2>5. c \in CSW /\ c.tag = msd_csw.tag /\ c.status # "PASSED"
    BY <1>1, <2>3 DEF CSW
  <2>6. /\ UNCHANGED commandFrame /\ UNCHANGED <<gblCBW, MSDRetryAttempt, msd_buffer, ptrNextData>>
        /\ TransferLength' \in Nat /\ LBA' \in Nat
    BY <1>1, <1>2 DEF FailCheckedCommand
  <2> HIDE DEF c
  <2> QED BY <1>1, <2>1, <2>3, <2>4, <2>5, <2>6, EndAtOnce
<1>3. CASE FailUnsupported
  <2>1. Starting("UNSUPPORTED")
    BY <1>3 DEF FailUnsupported
  <2>2. PICK stalled \in Directions : MSDErrorHandler(stalled, "FAILED", "ILLEGAL_REQUEST")
    BY <1>3 DEF FailUnsupported, Directions
  <2>r. ~(InBusy \/ OutBusy)
    BY <2>1, StartingShape
  <2> DEFINE c == [msd_csw EXCEPT !.residue = gblCBW.length, !.status = "FAILED"]
  <2>3. Finish(c) /\ usb' = (IF stalled = "none" THEN usb ELSE Stall(usb, stalled))
        /\ sense' \in SenseKeys
    BY <2>2, <2>r DEF MSDErrorHandler, Directions, SenseKeys
  <2>4. c \in CSW /\ c.tag = msd_csw.tag /\ c.status # "PASSED"
    BY <1>1 DEF CSW
  <2>5. /\ UNCHANGED commandFrame /\ UNCHANGED <<gblCBW, MSDRetryAttempt, msd_buffer, ptrNextData>>
        /\ TransferLength' \in Nat /\ LBA' \in Nat
    BY <1>1, <1>3 DEF FailUnsupported, lengthVars
  <2> HIDE DEF c
  <2> QED BY <1>1, <2>1, <2>2, <2>3, <2>4, <2>5, EndAtOnce
<1>4. CASE NoAnswerWanted \/ TestUnitReady \/ VerifyOrStopStart \/ PreventAllowMediumRemoval
  <2>1. PICK op \in Operations :
          /\ Starting(op)
          /\ \/ op \in {"INQUIRY", "REQUEST_SENSE"} /\ MSDHostNoData
             \/ op \in {"TEST_UNIT_READY", "VERIFY", "STOP_START", "PREVENT_ALLOW_MEDIUM_REMOVAL"}
    BY <1>4 DEF NoAnswerWanted, TestUnitReady, VerifyOrStopStart, PreventAllowMediumRemoval,
       Operations, Responses, ResponseSize
  <2>2. op # "RESPONSE"
    BY DEF Operations, Responses, ResponseSize
  <2>3. op = cmd.op /\ (MSDHostNoData => cmd.length = 0)
    BY <2>1, <2>2, StartingData
  <2>4. PICK status \in {"PASSED", "FAILED", "PHASE_ERROR"}, key \in SenseKeys : Conclude(status, key)
    BY <1>1, <1>4 DEF NoAnswerWanted, TestUnitReady, VerifyOrStopStart, PreventAllowMediumRemoval,
       SenseKeys, CSW
  <2> DEFINE c == [msd_csw EXCEPT !.residue = 0, !.status = status]
  <2>5. /\ Finish(c) /\ sense' = key /\ usb' = usb
        /\ UNCHANGED commandFrame /\ UNCHANGED <<gblCBW, MSDRetryAttempt, msd_buffer, ptrNextData>>
        /\ TransferLength' \in Nat /\ LBA' \in Nat
    BY <1>1, <2>4 DEF Conclude, lengthVars
  <2>6. c \in CSW /\ c.tag = msd_csw.tag /\ c.residue = 0
    BY <1>1 DEF CSW
  <2>7. cmd.op \notin {"READ_10", "WRITE_10"} /\ (cmd.op \in Responses => cmd.length = 0)
    BY <2>1, <2>3 DEF Responses, ResponseSize
  <2> HIDE DEF c
  <2> QED BY <2>1, <2>2, <2>4, <2>5, <2>6, <2>7, EndAtOnce
<1>5. CASE WriteProtected
  <2> DEFINE c == [msd_csw EXCEPT !.status = "FAILED"]
  <2>1. /\ Starting("WRITE_10") /\ usb' = Stall(usb, "out") /\ Finish(c)
        /\ UNCHANGED commandFrame /\ UNCHANGED <<gblCBW, MSDRetryAttempt, msd_buffer, ptrNextData>>
        /\ TransferLength' \in Nat /\ LBA' \in Nat /\ sense' \in SenseKeys
    BY <1>1, <1>5 DEF WriteProtected, SenseKeys
  <2>2. c \in CSW /\ c.tag = msd_csw.tag /\ c.status # "PASSED"
    BY <1>1 DEF CSW
  <2> HIDE DEF c
  <2> QED BY <2>1, <2>2, EndAtOnce DEF Directions
<1>6. CASE ReadNothing \/ WriteNothing
  <2>1. PICK op \in {"READ_10", "WRITE_10"} : Starting(op)
    BY <1>6 DEF ReadNothing, WriteNothing
  <2>2. /\ NoErrorCase /\ gblCBW.count = 0 /\ Finish(msd_csw) /\ usb' = usb
        /\ UNCHANGED commandFrame /\ UNCHANGED <<gblCBW, MSDRetryAttempt, msd_buffer, ptrNextData>>
        /\ TransferLength' \in Nat /\ LBA' \in Nat /\ sense' = sense
    BY <1>1, <1>6 DEF ReadNothing, WriteNothing
  <2>3. /\ op = cmd.op /\ (MSDHostNoData => cmd.length = 0) /\ gblCBW.length = cmd.length /\ Served
        /\ op # "RESPONSE"
    BY <2>1, StartingData
  <2>4. gblCBW.op = op /\ cmd.count = 0
    BY <2>2, <2>3 DEF Served
  <2>5. DeviceBytes = 0
    BY <2>1, <2>2, <2>4, Sizes DEF DeviceBytes
  <2>6. cmd.length = 0 /\ cmd.op \notin Responses
    BY <2>1, <2>2, <2>3, <2>5 DEF NoErrorCase, Responses, ResponseSize
  <2> QED BY <1>1, <2>1, <2>2, <2>3, <2>4, <2>6, EndAtOnce
<1> QED BY <1>2, <1>3, <1>4, <1>5, <1>6

LEMMA SizeOfResponse ==
  \A op \in Responses : /\ ResponseSize[op] \in Nat \ {0} /\ ResponseSize[op] <= EP_SIZE
                        /\ op \notin {"READ_10", "WRITE_10", "RESPONSE", "WAIT"}
BY ResponseAssumption DEF Responses, ResponseSize

LEMMA PrepareResponseData ==
  ASSUME IndInv, ControlInv, DataInv, UNCHANGED hostVars, PrepareResponse
  PROVE  DataInv'
<1>1. PICK op \in Responses :
        /\ Starting(op)
        /\ op \in {"INQUIRY", "REQUEST_SENSE"} => ~MSDHostNoData
        /\ op = "INQUIRY" => NoErrorCase
        /\ ComputeDeviceInAndResidue(IF op = "INQUIRY" THEN gblCBW.count ELSE ResponseSize[op],
                                     ResponseSize[op])
  BY DEF PrepareResponse
<1>2. /\ UNCHANGED commandFrame
      /\ UNCHANGED <<usb, MSD_State, MSDReadState, MSDWriteState, gblCBW, LBA, MSDRetryAttempt, sense,
                     ptrNextData>>
      /\ MSDCommandState' = "RESPONSE" /\ msd_buffer' = [msd_buffer EXCEPT ![0] = Answer]
  BY DEF PrepareResponse
<1>3. /\ configured /\ Serving /\ usb \in Pair /\ InIdle(usb) /\ Carries(usb) /\ Served
      /\ gblCBW \in CBW /\ msd_csw \in CSW /\ cmd \in CBW
      /\ op = cmd.op /\ gblCBW.length = cmd.length /\ (MSDHostNoData => cmd.length = 0)
      /\ msd_csw.status = "PASSED" /\ msd_csw.tag = cmd.tag
      /\ MSDHostNoData = (cmd.length = 0)
      /\ MSDReadState = "WAIT" /\ MSDWriteState = "WAIT"
  BY <1>1, SizeOfResponse, StartingData DEF Starting
<1>4. op = "INQUIRY" => gblCBW.count = cmd.length
  <2> SUFFICES ASSUME op = "INQUIRY" PROVE gblCBW.count = cmd.length
    OBVIOUS
  <2>1. DeviceBytes = gblCBW.count
    BY <1>3 DEF DeviceBytes, Served
  <2> QED BY <1>1, <1>3, <2>1 DEF NoErrorCase
<1>5. cmd.length \in Nat /\ ResponseSize[op] \in Nat /\ Offered \in Nat /\ Offered <= cmd.length
  BY <1>1, <1>3, SizeOfResponse DEF CBW, Offered, Least
<1>6. /\ TransferLength' = Offered
      /\ msd_csw' = [msd_csw EXCEPT !.residue = cmd.length - Offered]
  BY <1>1, <1>3, <1>4, <1>5 DEF ComputeDeviceInAndResidue, Offered, Least
<1>7. /\ msd_csw' \in CSW /\ msd_csw'.tag = msd_csw.tag /\ msd_csw'.status = "PASSED"
      /\ msd_csw'.residue = cmd.length - Offered
  BY <1>3, <1>5, <1>6 DEF CSW
<1>8. /\ msd_buffer' \in [Chunks -> Data \cup {Answer, Zeros}] /\ msd_buffer'[0] = Answer
  BY <1>2, Sizes DEF DataInv, Values
<1>9. UNCHANGED <<controlVars, cmd, moved, store, isReadOnly, msd_cbw, MSDHostNoData>>
  BY <1>2 DEF commandFrame, mediaVars, controlVars, hostVars
<1>10. Values'
  <2>1. /\ Values /\ store' \in [Sectors -> [Chunks -> Data]] /\ Carries(usb') /\ gblCBW' \in CBW
        /\ LBA' \in Nat /\ ptrNextData' \in Nat /\ MSDRetryAttempt' \in 0 .. MaxAttempts
        /\ sense' \in SenseKeys /\ TransferLength' \in Nat
    BY <1>2, <1>3, <1>5, <1>6, <1>9 DEF DataInv, Values
  <2> QED BY <1>7, <1>8, <1>9, <2>1, TasksValues
<1>11. WhenResponding'
  BY <1>1, <1>2, <1>3, <1>6, <1>7, <1>8, <1>9 DEF WhenResponding, Offered
<1>12. MSD_State' # "WAIT" /\ MSD_State' \in MsdStates /\ Serving' /\ Served' /\ ~Started'
  BY <1>2, <1>3, <1>9 DEF Serving, MsdStates, Served, Started
<1>13. HostWaits => WhileHostWaits'
  <2>1. InIdle(usb')
    BY <1>2, <1>3
  <2> QED BY <1>2, <1>3, <1>12, <2>1, HostSeesTheSame
<1> QED BY <1>2, <1>3, <1>7, <1>9, <1>10, <1>11, <1>12, <1>13, WorkData DEF Serving

\* The answer goes out in its first packet, and zeros in the others.
LEMMA SendResponseData ==
  ASSUME IndInv, ControlInv, DataInv, UNCHANGED hostVars, SendResponse
  PROVE  DataInv'
<1> DEFINE len == Least(EP_SIZE, gblCBW.length)
<1>1. /\ configured /\ Serving /\ MSDCommandState = "RESPONSE" /\ ~InBusy
      /\ usb' = Tx(usb, DataBuffer(0), len)
      /\ gblCBW' = [gblCBW EXCEPT !.length = @ - len]
      /\ TransferLength' = (IF TransferLength >= len THEN TransferLength - len ELSE 0)
      /\ msd_buffer' = (IF TransferLength = 0 /\ len > 0
                        THEN [msd_buffer EXCEPT ![0] = Zeros] ELSE msd_buffer)
      /\ (IF gblCBW.length = len THEN Finish(msd_csw) ELSE UNCHANGED <<machineVars, msd_csw>>)
      /\ UNCHANGED commandFrame /\ UNCHANGED <<LBA, MSDRetryAttempt, sense, ptrNextData>>
  BY DEF SendResponse, Tasks, Serving
<1>2. /\ usb \in Pair /\ InIdle(usb) /\ MSDReadState = "WAIT" /\ MSDWriteState = "WAIT"
  BY <1>1, ServingAtWork DEF IndInv, Types
<1>3. /\ gblCBW \in CBW /\ msd_csw \in CSW /\ cmd \in CBW /\ Carries(usb) /\ Served
      /\ TransferLength \in Nat /\ LBA \in Nat /\ ptrNextData \in Nat
      /\ MSDRetryAttempt \in 0 .. MaxAttempts /\ sense \in SenseKeys
      /\ msd_buffer \in [Chunks -> Data \cup {Answer, Zeros}] /\ store \in [Sectors -> [Chunks -> Data]]
      /\ msd_csw.tag = cmd.tag /\ WhenResponding
  BY <1>1 DEF DataInv, Values, InCommand
<1>4. /\ gblCBW.length \in Nat /\ cmd.length \in Nat /\ len \in Nat /\ len <= gblCBW.length
      /\ EP_SIZE \in Nat \ {0} /\ len <= EP_SIZE /\ (gblCBW.length > len => len = EP_SIZE)
      /\ (gblCBW.length > 0 => len > 0)
  BY <1>3, SizesAssumption DEF CBW, Least
<1> HIDE DEF len
<1>5. /\ gblCBW' \in CBW /\ gblCBW'.length = gblCBW.length - len
      /\ gblCBW'.op = gblCBW.op /\ gblCBW'.lba = gblCBW.lba /\ gblCBW'.count = gblCBW.count
  BY <1>1, <1>3, <1>4 DEF CBW
<1>6. UNCHANGED <<controlVars, cmd, moved, store, isReadOnly, msd_cbw, MSDHostNoData>>
  BY <1>1 DEF commandFrame, mediaVars, controlVars, hostVars
<1>7. Served'
  <2>1. gblCBW.length <= cmd.length
    BY <1>3 DEF Served
  <2>2. gblCBW'.length <= cmd.length
    BY <1>4, <1>5, <2>1
  <2> QED BY <1>3, <1>5, <1>6, <2>2 DEF Served
<1>8. usb' \in Pair /\ Carries(usb')
  BY <1>1, <1>2, <1>3, <1>4, TxCarries, Sizes
<1>9. TransferLength' \in Nat /\ msd_buffer' \in [Chunks -> Data \cup {Answer, Zeros}]
  <2>1. TransferLength' \in Nat
    BY <1>1, <1>3, <1>4
  <2>2. [msd_buffer EXCEPT ![0] = Zeros] \in [Chunks -> Data \cup {Answer, Zeros}]
    BY <1>3
  <2> QED BY <1>1, <1>3, <2>1, <2>2
<1>10. cmd.op \in Responses /\ Answering /\ ResponseSize[cmd.op] \in Nat \ {0}
       /\ ResponseSize[cmd.op] <= EP_SIZE /\ cmd.op # "READ_10" /\ cmd.op # "WRITE_10"
  BY <1>3, SizeOfResponse DEF WhenResponding, Answering
<1>11. /\ gblCBW.length = cmd.length => TransferLength = Offered /\ msd_buffer[0] = Answer
       /\ gblCBW.length # cmd.length => TransferLength = 0 /\ gblCBW.length > 0
       /\ msd_csw.residue = cmd.length - Offered /\ msd_csw.status = "PASSED"
       /\ Offered \in Nat /\ Offered <= EP_SIZE /\ (cmd.length > 0 => Offered > 0)
  BY <1>3, <1>4, <1>10 DEF WhenResponding, Offered, Least
<1>12. HostWaits /\ cmd.in => msd_buffer'[0] = Expected(moved)'
  <2> SUFFICES ASSUME HostWaits, cmd.in PROVE msd_buffer'[0] = Expected(moved)'
    OBVIOUS
  <2>1. moved = cmd.length - gblCBW.length
    BY <1>1, <1>2, <1>10, PlaceOfHost
  <2>2. CASE gblCBW.length = cmd.length
    <3>1. moved = 0
      BY <1>4, <2>1, <2>2
    <3>2. ~(TransferLength = 0 /\ len > 0)
      BY <1>4, <1>11, <2>2
    <3> QED BY <1>1, <1>6, <1>10, <1>11, <2>2, <3>1, <3>2 DEF Expected
  <2>3. CASE gblCBW.length # cmd.length
    <3>1. moved # 0
      BY <1>4, <2>1, <2>3
    <3>2. msd_buffer'[0] = Zeros
      BY <1>1, <1>3, <1>4, <1>11, <2>3, Sizes
    <3> QED BY <1>6, <1>10, <3>1, <3>2 DEF Expected
  <2> QED BY <2>2, <2>3
<1>13. MSD_State' \in MsdStates /\ MSD_State' # "WAIT"
  BY <1>1 DEF Finish, MsdStates, Serving, machineVars
<1>14. HostWaits => WhileHostWaits'
  BY <1>1, <1>2, <1>4, <1>5, <1>10, <1>12, <1>13, HostSeesPacket, Sizes
<1>15. CASE gblCBW.length = len
  <2>1. Finish(msd_csw) /\ gblCBW'.length = 0
    BY <1>1, <1>4, <1>5, <1>15
  <2> QED BY <1>1, <1>3, <1>5, <1>6, <1>7, <1>8, <1>9, <1>10, <1>11, <1>14, <2>1, FinishData
<1>16. CASE gblCBW.length # len
  <2>1. UNCHANGED <<machineVars, msd_csw>> /\ gblCBW.length > len /\ len = EP_SIZE
        /\ gblCBW'.length > 0 /\ gblCBW'.length # cmd.length
    <3>1. gblCBW.length <= cmd.length
      BY <1>3 DEF Served
    <3> QED BY <1>1, <1>4, <1>5, <1>16, <3>1
  <2>2. TransferLength' = 0
    BY <1>1, <1>3, <1>4, <1>11, <2>1
  <2>3. WhenResponding'
    BY <1>6, <1>10, <1>11, <2>1, <2>2 DEF WhenResponding, Offered
  <2>4. Values'
    <3>1. Values /\ store' \in [Sectors -> [Chunks -> Data]]
      BY <1>3, <1>6 DEF DataInv
    <3> QED BY <1>1, <1>3, <1>5, <1>6, <1>8, <1>9, <2>1, <3>1, TasksValues
  <2>5. ~Started' /\ MSDReadState' = "WAIT" /\ MSDWriteState' = "WAIT"
        /\ MSD_State' # "SEND_CSW"
    BY <1>1, <1>2, <2>1 DEF Started, machineVars, Serving
  <2> QED BY <1>1, <1>6, <1>7, <1>13, <1>14, <2>1, <2>3, <2>4, <2>5, WorkData
<1> QED BY <1>15, <1>16

----------------------------------------------------------------------------
(* MSDTasks: reads.                                                         *)

LEMMA PacketsOfSector ==
  ASSUME NEW j \in Int
  PROVE  /\ j * EP_SIZE \in Int /\ (j + 1) * EP_SIZE = j * EP_SIZE + EP_SIZE
         /\ (j + 1) * BLOCKLEN = j * BLOCKLEN + BLOCKLEN /\ j * BLOCKLEN \in Int
         /\ (j - 1) * BLOCKLEN = j * BLOCKLEN - BLOCKLEN
         /\ j < N => (j + 1) * EP_SIZE <= BLOCKLEN
         /\ (j * EP_SIZE = BLOCKLEN) <=> (j = N)
         /\ j <= N => j * EP_SIZE <= BLOCKLEN
         /\ j >= 0 => j * EP_SIZE >= 0 /\ j * BLOCKLEN >= 0
<1>1. EP_SIZE \in Nat \ {0} /\ BLOCKLEN \in Nat \ {0} /\ N \in Nat \ {0} /\ BLOCKLEN = N * EP_SIZE
  BY Sizes
<1>2. \A a, b \in Int : a <= b => a * EP_SIZE <= b * EP_SIZE
  <2> SUFFICES ASSUME NEW a \in Int, NEW b \in Int, a <= b PROVE a * EP_SIZE <= b * EP_SIZE
    OBVIOUS
  <2>1. b - a \in Nat /\ (b - a) * EP_SIZE >= 0
    BY <1>1
  <2>2. (b - a) * EP_SIZE = b * EP_SIZE - a * EP_SIZE
    BY <1>1
  <2> QED BY <1>1, <2>1, <2>2
<1>3. (j + 1) * EP_SIZE = j * EP_SIZE + EP_SIZE /\ j * EP_SIZE \in Int
  BY <1>1
<1>4. /\ (j + 1) * BLOCKLEN = j * BLOCKLEN + BLOCKLEN /\ j * BLOCKLEN \in Int
      /\ (j - 1) * BLOCKLEN = j * BLOCKLEN - BLOCKLEN
  BY <1>1
<1>5. /\ j < N => (j + 1) * EP_SIZE <= BLOCKLEN
      /\ j <= N => j * EP_SIZE <= BLOCKLEN
  BY <1>1, <1>2
<1>6. j > N => j * EP_SIZE > BLOCKLEN
  <2>1. j > N => (N + 1) * EP_SIZE <= j * EP_SIZE /\ (N + 1) * EP_SIZE = N * EP_SIZE + EP_SIZE
    BY <1>1, <1>2
  <2> QED BY <1>1, <1>3, <2>1
<1>7. (j * EP_SIZE = BLOCKLEN) <=> (j = N)
  <2>1. j < N => j * EP_SIZE < BLOCKLEN
    BY <1>1, <1>3, <1>5
  <2> QED BY <1>1, <1>3, <1>6, <2>1
<1>8. j >= 0 => j * EP_SIZE >= 0 /\ j * BLOCKLEN >= 0
  BY <1>1
<1> QED BY <1>3, <1>4, <1>5, <1>7, <1>8

\* What the drive holds while it reads.
LEMMA ServingData ==
  ASSUME IndInv, ControlInv, DataInv, configured, Serving
  PROVE  /\ usb \in Pair /\ Carries(usb) /\ Served
         /\ gblCBW \in CBW /\ msd_csw \in CSW /\ cmd \in CBW
         /\ TransferLength \in Nat /\ LBA \in Nat /\ ptrNextData \in Nat
         /\ gblCBW.length \in Nat /\ cmd.length \in Nat /\ cmd.lba \in Nat /\ cmd.count \in Nat
         /\ msd_csw.residue \in Nat /\ moved \in Nat
         /\ MSDRetryAttempt \in 0 .. MaxAttempts /\ sense \in SenseKeys
         /\ msd_buffer \in [Chunks -> Data \cup {Answer, Zeros}]
         /\ store \in [Sectors -> [Chunks -> Data]]
         /\ msd_csw.tag = cmd.tag
BY DEF IndInv, Types, DataInv, Values, InCommand, CBW, CSW

\* The packet with chunk k goes out: the k-th of the sector that is D sectors into the command.
LEMMA TransmitData ==
  ASSUME IndInv, ControlInv, DataInv, configured, Serving, UNCHANGED hostVars,
         MSDCommandState = "READ_10", UNCHANGED readFrame,
         cmd.op = "READ_10", cmd.in, cmd.length = cmd.count * BLOCKLEN, msd_csw.status = "PASSED",
         ~InBusy, NEW k \in Chunks, NEW left \in Nat, TransmitChunk(k, left),
         left = BLOCKLEN - k * EP_SIZE,
         NEW D \in Nat, D < cmd.count, gblCBW.length = (cmd.count - D - 1) * BLOCKLEN + left,
         cmd.lba + D \in Sectors, msd_buffer' = store[cmd.lba + D],
         LBA' = cmd.lba + D + 1, TransferLength' = cmd.count - D - 1,
         UNCHANGED <<MSDRetryAttempt, sense>>
  PROVE  DataInv'
<1>1. /\ usb' = Tx(usb, DataBuffer(k), EP_SIZE) /\ MSDReadState' = "TX_SECTOR"
      /\ gblCBW' = [gblCBW EXCEPT !.length = @ - EP_SIZE]
      /\ msd_csw' = [msd_csw EXCEPT !.residue = left - EP_SIZE]
      /\ ptrNextData' = k + 1
      /\ UNCHANGED <<commandFrame, MSD_State, MSDCommandState, MSDWriteState>>
  BY DEF TransmitChunk, readFrame
<1>2. /\ usb \in Pair /\ Carries(usb) /\ Served
      /\ gblCBW \in CBW /\ msd_csw \in CSW /\ cmd \in CBW
      /\ gblCBW.length \in Nat /\ cmd.length \in Nat /\ cmd.lba \in Nat /\ cmd.count \in Nat
      /\ moved \in Nat /\ MSDRetryAttempt \in 0 .. MaxAttempts /\ sense \in SenseKeys
      /\ store \in [Sectors -> [Chunks -> Data]] /\ msd_csw.tag = cmd.tag
  BY ServingData
<1>3. InIdle(usb) /\ MSDWriteState = "WAIT"
  BY ServingAtWork
<1>4. /\ EP_SIZE \in Nat \ {0} /\ BLOCKLEN \in Nat \ {0} /\ N \in Nat \ {0}
      /\ k \in 0 .. N - 1 /\ k \in Int
  BY Sizes
<1>5. /\ k * EP_SIZE \in Nat /\ (k + 1) * EP_SIZE = k * EP_SIZE + EP_SIZE
      /\ (k + 1) * EP_SIZE <= BLOCKLEN
  BY <1>4, PacketsOfSector
<1>6. left - EP_SIZE \in Nat /\ left - EP_SIZE = BLOCKLEN - (k + 1) * EP_SIZE
  BY <1>4, <1>5
<1>7. (cmd.count - D - 1) * BLOCKLEN \in Nat
  <2>1. cmd.count - D - 1 \in Int /\ cmd.count - D - 1 >= 0
    BY <1>2
  <2> QED BY <2>1, PacketsOfSector
<1>8. gblCBW.length - EP_SIZE \in Nat
      /\ gblCBW.length - EP_SIZE = (cmd.count - D - 1) * BLOCKLEN + (left - EP_SIZE)
  BY <1>4, <1>6, <1>7
<1>9. /\ gblCBW' \in CBW /\ gblCBW'.length = gblCBW.length - EP_SIZE
      /\ gblCBW'.op = gblCBW.op /\ gblCBW'.lba = gblCBW.lba /\ gblCBW'.count = gblCBW.count
  BY <1>1, <1>2, <1>8 DEF CBW
<1>10. /\ msd_csw' \in CSW /\ msd_csw'.tag = msd_csw.tag /\ msd_csw'.status = "PASSED"
       /\ msd_csw'.residue = left - EP_SIZE
  BY <1>1, <1>2, <1>6 DEF CSW
<1>11. UNCHANGED <<controlVars, cmd, moved, store, isReadOnly, msd_cbw, MSDHostNoData>>
  BY <1>1 DEF commandFrame, mediaVars, controlVars, hostVars
<1>12. Served'
  BY <1>2, <1>4, <1>9, <1>11 DEF Served
<1>13. Values'
  <2>1. store[cmd.lba + D] \in [Chunks -> Data]
    BY <1>2
  <2>2. msd_buffer' \in [Chunks -> Data \cup {Answer, Zeros}]
    BY <2>1
  <2>3. usb' \in Pair /\ Carries(usb')
    BY <1>1, <1>2, <1>4, TxCarries
  <2>4. TransferLength' \in Nat /\ LBA' \in Nat /\ ptrNextData' \in Nat
    BY <1>1, <1>2, <1>4
  <2>5. Values /\ store' \in [Sectors -> [Chunks -> Data]]
    BY <1>2, <1>11 DEF DataInv
  <2> QED BY <1>2, <1>9, <1>10, <1>11, <2>2, <2>3, <2>4, <2>5, TasksValues
<1>14. WhenReading'
  <2>1. LBA' - cmd.lba = D + 1 /\ LBA' - 1 = cmd.lba + D
    <3>1. \A a \in Nat : (a + D + 1) - a = D + 1 /\ (a + D + 1) - 1 = a + D
      OBVIOUS
    <3>2. LBA' = cmd.lba + D + 1 /\ cmd.lba \in Nat
      BY <1>2
    <3> QED BY <3>1, <3>2, Zenon
  <2>2. /\ D + 1 \in 1 .. cmd.count /\ TransferLength' = cmd.count - (D + 1)
        /\ gblCBW'.length = TransferLength' * BLOCKLEN + msd_csw'.residue
        /\ ptrNextData' \in 1 .. N /\ msd_csw'.residue = BLOCKLEN - ptrNextData' * EP_SIZE
    BY <1>1, <1>2, <1>4, <1>6, <1>8, <1>9, <1>10
  <2>3. LBA' - 1 \in Sectors /\ msd_buffer' = store[LBA' - 1]
    BY <2>1
  <2> QED BY <1>1, <1>10, <1>11, <2>1, <2>2, <2>3 DEF WhenReading, ReadAt, Done
<1>15. /\ MSD_State' \in MsdStates /\ MSD_State' # "WAIT" /\ Serving' /\ ~Started'
       /\ MSDWriteState' = "WAIT" /\ MSDCommandState' # "RESPONSE" /\ MSD_State' # "SEND_CSW"
  BY <1>1, <1>3 DEF Serving, MsdStates, Started
<1>16. HostWaits /\ cmd.in => msd_buffer'[k] = Expected(moved)'
  <2> SUFFICES ASSUME HostWaits PROVE msd_buffer'[k] = Expected(moved)'
    OBVIOUS
  <2>1. moved = cmd.length - gblCBW.length
    BY <1>2, <1>3, PlaceOfHost DEF Answering
  <2>2. moved = D * BLOCKLEN + k * EP_SIZE
    <3> DEFINE rest == cmd.count - D - 1
    <3>1. rest \in Int /\ cmd.count = rest + D + 1
      BY <1>2
    <3> HIDE DEF rest
    <3>2. (rest + D + 1) * BLOCKLEN = rest * BLOCKLEN + D * BLOCKLEN + BLOCKLEN
      BY <1>4, <3>1
    <3>3. cmd.length = rest * BLOCKLEN + D * BLOCKLEN + BLOCKLEN
      BY <3>1, <3>2
    <3>4. gblCBW.length = rest * BLOCKLEN + (BLOCKLEN - k * EP_SIZE)
      BY DEF rest
    <3>5. rest * BLOCKLEN \in Int /\ D * BLOCKLEN \in Int
      BY <1>4, <3>1
    <3> QED BY <1>2, <1>4, <1>5, <2>1, <3>3, <3>4, <3>5
  <2>3. moved \div BLOCKLEN = D /\ (moved % BLOCKLEN) \div EP_SIZE = k
    BY <2>2, Place
  <2>4. cmd'.lba + moved' \div BLOCKLEN = cmd.lba + D /\ (moved' % BLOCKLEN) \div EP_SIZE = k
        /\ cmd'.op = "READ_10" /\ store' = store
    BY <1>11, <2>3
  <2> QED BY <2>4 DEF Expected
<1>17. HostWaits => WhileHostWaits'
  BY <1>1, <1>2, <1>3, <1>4, <1>9, <1>15, <1>16, HostSeesPacket DEF Answering
<1> QED BY <1>1, <1>10, <1>11, <1>12, <1>13, <1>14, <1>15, <1>17, WorkData

\* Sector D of the command is fetched, waited for, tried again or given up.
LEMMA ReadSectorData ==
  ASSUME IndInv, ControlInv, DataInv, configured, Serving, UNCHANGED hostVars,
         MSDCommandState = "READ_10", MSDReadState \in {"WAIT", "BLOCK", "SECTOR"},
         cmd.op = "READ_10", cmd.in, cmd.length = cmd.count * BLOCKLEN, msd_csw.status = "PASSED",
         msd_csw.residue = 0, NEW D \in Nat, D < cmd.count,
         NEW lba, lba = cmd.lba + D, NEW remaining, remaining = cmd.count - D - 1,
         gblCBW.length = (cmd.count - D) * BLOCKLEN, ReadSector(lba, remaining)
  PROVE  DataInv'
<1>1. /\ usb \in Pair /\ Carries(usb) /\ Served
      /\ gblCBW \in CBW /\ msd_csw \in CSW /\ cmd \in CBW
      /\ gblCBW.length \in Nat /\ cmd.length \in Nat /\ cmd.lba \in Nat /\ cmd.count \in Nat
      /\ moved \in Nat /\ MSDRetryAttempt \in 0 .. MaxAttempts /\ sense \in SenseKeys
      /\ ptrNextData \in Nat /\ msd_buffer \in [Chunks -> Data \cup {Answer, Zeros}]
      /\ store \in [Sectors -> [Chunks -> Data]] /\ msd_csw.tag = cmd.tag
  BY ServingData
<1>2. InIdle(usb) \/ InBusy
  BY ServingAtWork
<1>3. MSDWriteState = "WAIT" /\ (~InBusy => InIdle(usb))
  BY ServingAtWork
<1>4. lba \in Nat /\ remaining \in Nat /\ lba - cmd.lba = D
  BY <1>1
<1>5. TransferLength' = remaining
  BY DEF ReadSector
<1>6. CASE AwaitBuffer(lba) \/ RetryRead(lba)
  <2>1. /\ MSDReadState' = "SECTOR" /\ LBA' = lba
        /\ UNCHANGED <<readFrame, usb, gblCBW, msd_csw, sense, msd_buffer, ptrNextData>>
        /\ MSDRetryAttempt' \in 0 .. MaxAttempts
    <3>1. MaxAttempts \in Nat
      BY SizesAssumption
    <3> QED BY <1>1, <1>6, <3>1 DEF AwaitBuffer, RetryRead
  <2>2. UNCHANGED <<controlVars, cmd, moved, store, isReadOnly, msd_cbw, MSDHostNoData,
                    MSD_State, MSDCommandState, MSDWriteState>>
    BY <2>1 DEF readFrame, commandFrame, mediaVars, controlVars, hostVars
  <2>3. Values'
    <3>1. Values /\ store' \in [Sectors -> [Chunks -> Data]]
      BY <1>1, <2>2 DEF DataInv
    <3> QED BY <1>1, <1>4, <1>5, <2>1, <2>2, <3>1, TasksValues
  <2>4. WhenReading'
    <3>1. D \in 0 .. cmd.count - 1 /\ remaining + 1 = cmd.count - D
      BY <1>1
    <3> QED BY <1>4, <1>5, <2>1, <2>2, <3>1 DEF WhenReading, ReadAt, Done
  <2>5. /\ MSD_State' \in MsdStates /\ MSD_State' # "WAIT" /\ Serving' /\ ~Started' /\ Served'
        /\ MSDWriteState' = "WAIT" /\ MSDCommandState' # "RESPONSE" /\ MSD_State' # "SEND_CSW"
    BY <1>1, <1>3, <2>1, <2>2 DEF Serving, MsdStates, Started, Served
  <2>6. HostWaits => WhileHostWaits'
    BY <1>1, <2>1, <2>2, <2>5, HostSeesTheSame
  <2> QED BY <2>1, <2>2, <2>3, <2>4, <2>5, <2>6, WorkData
<1>7. CASE FetchSector(lba)
  <2>1. /\ ~InBusy /\ lba \in Sectors /\ msd_buffer' = store[lba] /\ LBA' = lba + 1
        /\ TransmitChunk(0, BLOCKLEN)
        /\ UNCHANGED readFrame /\ UNCHANGED <<MSDRetryAttempt, sense>>
    BY <1>7 DEF FetchSector
  <2>2. /\ BLOCKLEN \in Nat /\ 0 \in Chunks /\ BLOCKLEN = BLOCKLEN - 0 * EP_SIZE
        /\ (cmd.count - D) * BLOCKLEN = (cmd.count - D - 1) * BLOCKLEN + BLOCKLEN
    <3>1. cmd.count - D - 1 \in Int /\ (cmd.count - D - 1) + 1 = cmd.count - D
      BY <1>1
    <3>2. \A j \in Int : (j + 1) * BLOCKLEN = j * BLOCKLEN + BLOCKLEN
      BY PacketsOfSector
    <3> QED BY <3>1, <3>2, Sizes
  <2>3. /\ gblCBW.length = (cmd.count - D - 1) * BLOCKLEN + BLOCKLEN
        /\ cmd.lba + D \in Sectors /\ msd_buffer' = store[cmd.lba + D]
        /\ LBA' = cmd.lba + D + 1 /\ TransferLength' = cmd.count - D - 1
    BY <1>5, <2>1, <2>2
  <2> QED BY <2>1, <2>2, <2>3, TransmitData
<1>8. CASE AbandonRead(lba)
  <2> DEFINE c == [msd_csw EXCEPT !.status = "PHASE_ERROR"]
  <2>1. /\ Finish(c) /\ usb' = Stall(usb, "in") /\ LBA' = lba /\ ~InBusy /\ sense' \in SenseKeys
        /\ UNCHANGED commandFrame /\ UNCHANGED <<gblCBW, MSDRetryAttempt, msd_buffer, ptrNextData>>
    BY <1>8 DEF AbandonRead, SenseKeys
  <2>2. c \in CSW /\ c.tag = msd_csw.tag /\ c.status # "PASSED"
    BY <1>1 DEF CSW
  <2> HIDE DEF c
  <2>3. usb' \in Pair /\ Carries(usb') /\ (InIdle(usb') \/ InStalled(usb'))
    BY <1>1, <1>3, <2>1, StallCarries DEF Directions
  <2>4. MSD_State' = "SEND_CSW"
    BY <2>1 DEF Finish
  <2>5. HostWaits => WhileHostWaits'
    BY <1>1, <1>3, <2>1, <2>3, <2>4, HostSeesTheSame DEF MsdStates
  <2>6. Served'
    BY <1>1, <2>1 DEF Served, hostVars
  <2> QED BY <1>1, <1>4, <1>5, <2>1, <2>2, <2>3, <2>5, <2>6, FinishData
<1> QED BY <1>6, <1>7, <1>8 DEF ReadSector

LEMMA ReadStartData ==
  ASSUME IndInv, ControlInv, DataInv, UNCHANGED hostVars, ReadStart
  PROVE  DataInv'
<1>1. /\ Starting("READ_10") /\ NoErrorCase /\ gblCBW.count > 0
      /\ ReadSector(gblCBW.lba, gblCBW.count - 1)
  BY DEF ReadStart
<1>2. /\ configured /\ Serving /\ MSDCommandState = "READ_10" /\ MSDReadState = "WAIT"
      /\ cmd.op = "READ_10" /\ gblCBW.length = cmd.length /\ Served /\ cmd \in CBW
      /\ (MSD_State = "DATA_OUT" <=> ~cmd.in) /\ msd_csw.residue = 0
      /\ msd_csw.status = "PASSED" /\ MSDHostNoData = (cmd.length = 0)
  BY <1>1, StartingData DEF Starting
<1>3. gblCBW.count = cmd.count /\ gblCBW.lba = cmd.lba /\ gblCBW.op = "READ_10"
      /\ cmd.count \in Nat /\ cmd.lba \in Nat /\ cmd.count > 0 /\ BLOCKLEN \in Nat \ {0}
  BY <1>1, <1>2, Sizes DEF Served, CBW
<1>4. DeviceBytes = cmd.count * BLOCKLEN /\ cmd.count * BLOCKLEN # 0
  BY <1>3 DEF DeviceBytes
<1>5. cmd.length = cmd.count * BLOCKLEN /\ cmd.in
  BY <1>1, <1>2, <1>3, <1>4 DEF NoErrorCase, CBW
<1>6. /\ 0 \in Nat /\ 0 < cmd.count /\ gblCBW.lba = cmd.lba + 0
      /\ gblCBW.count - 1 = cmd.count - 0 - 1 /\ gblCBW.length = (cmd.count - 0) * BLOCKLEN
  BY <1>2, <1>3, <1>5
<1> QED BY <1>1, <1>2, <1>5, <1>6, ReadSectorData

LEMMA ReadNextSectorData ==
  ASSUME IndInv, ControlInv, DataInv, UNCHANGED hostVars, ReadNextSector
  PROVE  DataInv'
<1>1. /\ configured /\ Serving /\ MSDCommandState = "READ_10" /\ MSDReadState \in {"BLOCK", "SECTOR"}
      /\ MSDReadState = "BLOCK" => TransferLength > 0 /\ ReadSector(LBA, TransferLength - 1)
      /\ MSDReadState = "SECTOR" => ReadSector(LBA, TransferLength)
  BY DEF ReadNextSector, Reading, Tasks, Serving
<1>2. /\ cmd.op = "READ_10" /\ cmd.in /\ cmd.length = cmd.count * BLOCKLEN
      /\ msd_csw.status = "PASSED" /\ msd_csw.residue = 0
      /\ MSDReadState = "SECTOR" =>
           /\ Done \in 0 .. cmd.count - 1 /\ TransferLength = cmd.count - Done - 1
           /\ gblCBW.length = (TransferLength + 1) * BLOCKLEN
      /\ MSDReadState = "BLOCK" =>
           /\ Done \in 1 .. cmd.count /\ TransferLength = cmd.count - Done
           /\ gblCBW.length = TransferLength * BLOCKLEN + msd_csw.residue
  BY <1>1 DEF DataInv, InCommand, WhenReading, ReadAt
<1>3. cmd.count \in Nat /\ cmd.lba \in Nat /\ LBA \in Nat /\ TransferLength \in Nat
      /\ TransferLength * BLOCKLEN \in Int
  BY <1>1, ServingData, PacketsOfSector
<1> DEFINE D == Done
<1>4. LBA = cmd.lba + D
  BY <1>3 DEF Done
<1>5. CASE MSDReadState = "SECTOR"
  <2>1. /\ D \in Nat /\ D < cmd.count /\ TransferLength = cmd.count - D - 1
        /\ TransferLength + 1 = cmd.count - D
    BY <1>2, <1>3, <1>5
  <2>2. gblCBW.length = (cmd.count - D) * BLOCKLEN
    BY <1>2, <1>5, <2>1
  <2> HIDE DEF D
  <2> QED BY <1>1, <1>2, <1>4, <1>5, <2>1, <2>2, ReadSectorData
<1>6. CASE MSDReadState = "BLOCK"
  <2>1. /\ D \in Nat /\ D < cmd.count /\ TransferLength = cmd.count - D
        /\ TransferLength - 1 = cmd.count - D - 1
    BY <1>1, <1>2, <1>3, <1>6
  <2>2. gblCBW.length = (cmd.count - D) * BLOCKLEN
    BY <1>2, <1>3, <1>6, <2>1
  <2> HIDE DEF D
  <2> QED BY <1>1, <1>2, <1>4, <1>6, <2>1, <2>2, ReadSectorData
<1> QED BY <1>1, <1>5, <1>6

LEMMA ReadEndData ==
  ASSUME IndInv, ControlInv, DataInv, UNCHANGED hostVars, ReadEnd
  PROVE  DataInv'
<1>1. /\ configured /\ Serving /\ MSDCommandState = "READ_10" /\ MSDReadState = "BLOCK"
      /\ TransferLength = 0 /\ Finish(msd_csw) /\ UNCHANGED commandFrame
      /\ UNCHANGED <<usb, gblCBW, TransferLength, LBA, MSDRetryAttempt, sense, msd_buffer,
                     ptrNextData>>
  BY DEF ReadEnd, Reading, Tasks, Serving, lengthVars
<1>2. /\ cmd.op = "READ_10" /\ cmd.length = cmd.count * BLOCKLEN /\ msd_csw.residue = 0
      /\ gblCBW.length = TransferLength * BLOCKLEN + msd_csw.residue
  BY <1>1 DEF DataInv, InCommand, WhenReading, ReadAt
<1>3. gblCBW.length = 0
  BY <1>1, <1>2, Sizes
<1>4. /\ usb \in Pair /\ Carries(usb) /\ Served /\ gblCBW \in CBW /\ msd_csw \in CSW
      /\ TransferLength \in Nat /\ LBA \in Nat /\ ptrNextData \in Nat
      /\ MSDRetryAttempt \in 0 .. MaxAttempts /\ sense \in SenseKeys
      /\ msd_buffer \in [Chunks -> Data \cup {Answer, Zeros}]
  BY <1>1, ServingData
<1>5. MSD_State' = "SEND_CSW" /\ UNCHANGED store
  BY <1>1 DEF Finish, commandFrame, mediaVars
<1>6. HostWaits => WhileHostWaits'
  BY <1>1, <1>4, <1>5, HostSeesTheSame DEF MsdStates
<1>7. Served'
  BY <1>1, <1>4 DEF Served, hostVars
<1>8. /\ cmd.op \in {"READ_10", "WRITE_10"} => cmd.length = cmd.count * BLOCKLEN
      /\ cmd.op # "WRITE_10" /\ cmd.op \notin Responses
      /\ gblCBW'.length = 0
  BY <1>1, <1>2, <1>3 DEF Responses, ResponseSize
<1> QED BY <1>1, <1>4, <1>6, <1>7, <1>8, FinishData

\* A step in the middle of a read that moves nothing.
LEMMA ReadOnData ==
  ASSUME IndInv, ControlInv, DataInv, configured, Serving, UNCHANGED hostVars, UNCHANGED readFrame,
         MSDCommandState = "READ_10", MSDReadState # "WAIT", MSDReadState' # "WAIT",
         UNCHANGED <<usb, gblCBW, msd_csw, lengthVars, sense, msd_buffer, ptrNextData>>,
         WhenReading'
  PROVE  DataInv'
<1>1. /\ UNCHANGED <<controlVars, cmd, moved, store, isReadOnly, msd_cbw, MSDHostNoData,
                     MSD_State, MSDCommandState, MSDWriteState, TransferLength, LBA,
                     MSDRetryAttempt>>
  BY DEF readFrame, commandFrame, mediaVars, controlVars, hostVars, lengthVars
<1>2. /\ usb \in Pair /\ Carries(usb) /\ Served
  BY ServingData
<1>3. MSDWriteState = "WAIT"
  BY ServingAtWork
<1>4. Values'
  <2>1. Values
    BY DEF DataInv
  <2> QED BY <1>1, <2>1, TasksValues DEF Values
<1>5. /\ MSD_State' \in MsdStates /\ MSD_State' # "WAIT" /\ Serving' /\ ~Started' /\ Served'
      /\ MSDWriteState' = "WAIT" /\ MSDCommandState' # "RESPONSE" /\ MSD_State' # "SEND_CSW"
  BY <1>1, <1>2, <1>3 DEF Serving, MsdStates, Started, Served
<1>6. HostWaits => WhileHostWaits'
  BY <1>1, <1>2, <1>5, HostSeesTheSame
<1> QED BY <1>1, <1>4, <1>5, <1>6, WorkData

LEMMA SectorTransmittedData ==
  ASSUME IndInv, ControlInv, DataInv, UNCHANGED hostVars, SectorTransmitted
  PROVE  DataInv'
<1>1. /\ configured /\ Serving /\ MSDCommandState = "READ_10" /\ MSDReadState = "TX_SECTOR"
      /\ MSDReadState' = "BLOCK" /\ msd_csw.residue = 0 /\ UNCHANGED readFrame
      /\ UNCHANGED <<usb, gblCBW, msd_csw, lengthVars, sense, msd_buffer, ptrNextData>>
  BY DEF SectorTransmitted, Reading, Tasks, Serving
<1>2. UNCHANGED <<cmd, TransferLength, LBA>>
  BY <1>1 DEF lengthVars, hostVars
<1>3. WhenReading
  BY <1>1 DEF DataInv, InCommand
<1>4. WhenReading'
  BY <1>1, <1>2, <1>3 DEF WhenReading, ReadAt, Done
<1> QED BY <1>1, <1>4, ReadOnData

LEMMA TransmitPacketData ==
  ASSUME IndInv, ControlInv, DataInv, UNCHANGED hostVars, TransmitPacket
  PROVE  DataInv'
<1>1. /\ configured /\ Serving /\ MSDCommandState = "READ_10"
      /\ MSDReadState \in {"TX_SECTOR", "TX_PACKET"}
      /\ MSDReadState = "TX_SECTOR" => msd_csw.residue # 0
      /\ UNCHANGED readFrame /\ UNCHANGED <<lengthVars, sense, msd_buffer>>
      /\ IF InBusy THEN MSDReadState' = "TX_PACKET" /\ UNCHANGED <<usb, gblCBW, msd_csw, ptrNextData>>
         ELSE TransmitChunk(ptrNextData, msd_csw.residue)
  BY DEF TransmitPacket, Reading, Tasks, Serving
<1>2. UNCHANGED <<cmd, store, TransferLength, LBA, MSDRetryAttempt>>
  BY <1>1 DEF lengthVars, hostVars, readFrame, commandFrame, mediaVars
<1>3. WhenReading
  BY <1>1 DEF DataInv, InCommand
<1>4. /\ cmd.op = "READ_10" /\ cmd.in /\ cmd.length = cmd.count * BLOCKLEN
      /\ msd_csw.status = "PASSED"
      /\ Done \in 1 .. cmd.count /\ TransferLength = cmd.count - Done
      /\ gblCBW.length = TransferLength * BLOCKLEN + msd_csw.residue
      /\ ptrNextData \in 1 .. N /\ msd_csw.residue = BLOCKLEN - ptrNextData * EP_SIZE
      /\ LBA - 1 \in Sectors /\ msd_buffer = store[LBA - 1]
      /\ MSDReadState = "TX_PACKET" => ptrNextData # N
  BY <1>1, <1>3 DEF WhenReading, ReadAt
<1>5. ptrNextData # N
  <2>1. N * EP_SIZE = BLOCKLEN /\ BLOCKLEN - BLOCKLEN = 0
    BY Sizes
  <2> QED BY <1>1, <1>4, <2>1
<1>6. CASE InBusy
  <2>1. WhenReading'
    BY <1>1, <1>2, <1>4, <1>5, <1>6 DEF WhenReading, ReadAt, Done
  <2> QED BY <1>1, <1>6, <2>1, ReadOnData
<1>7. CASE ~InBusy
  <2> DEFINE D == Done - 1
  <2>1. /\ cmd.count \in Nat /\ cmd.lba \in Nat /\ LBA \in Nat /\ msd_csw.residue \in Nat
    BY <1>1, ServingData
  <2>2. /\ D \in Nat /\ D < cmd.count /\ cmd.count - D - 1 = TransferLength
        /\ cmd.lba + D = LBA - 1 /\ LBA = cmd.lba + D + 1
    BY <1>4, <2>1 DEF Done
  <2>3. ptrNextData \in Chunks
    BY <1>4, <1>5, Sizes
  <2> HIDE DEF D
  <2>4. /\ cmd.lba + D \in Sectors /\ msd_buffer' = store[cmd.lba + D]
        /\ LBA' = cmd.lba + D + 1 /\ TransferLength' = cmd.count - D - 1
        /\ gblCBW.length = (cmd.count - D - 1) * BLOCKLEN + msd_csw.residue
    BY <1>1, <1>2, <1>4, <2>2
  <2> QED BY <1>1, <1>2, <1>4, <1>7, <2>1, <2>2, <2>3, <2>4, TransmitData
<1> QED BY <1>6, <1>7

\* All that is done in a read.
LEMMA ReadsData ==
  ASSUME IndInv, ControlInv, DataInv, UNCHANGED hostVars,
         ReadStart \/ ReadNextSector \/ ReadEnd \/ SectorTransmitted \/ TransmitPacket
  PROVE  DataInv'
BY ReadStartData, ReadNextSectorData, ReadEndData, SectorTransmittedData, TransmitPacketData

----------------------------------------------------------------------------
(* MSDTasks: writes.                                                        *)

\* What the drive holds while it writes.
LEMMA WritingData ==
  ASSUME IndInv, ControlInv, DataInv, NEW states, Writing(states), "WAIT" \notin states
  PROVE  /\ configured /\ Serving /\ MSDCommandState = "WRITE_10" /\ MSDWriteState \in states
         /\ MSDWriteState # "WAIT" /\ MSDReadState = "WAIT" /\ WhenWriting
         /\ cmd.op = "WRITE_10" /\ cmd.length = cmd.count * BLOCKLEN
         /\ InIdle(usb) /\ ~Answering
<1>1. /\ configured /\ Serving /\ MSDCommandState = "WRITE_10" /\ MSDWriteState \in states
      /\ MSDWriteState # "WAIT"
  BY DEF Writing, Tasks, Serving
<1>2. WhenWriting
  BY <1>1 DEF DataInv, InCommand
<1>3. MSDReadState = "WAIT" /\ InIdle(usb)
  BY <1>1, ServingAtWork
<1>4. cmd.op = "WRITE_10" /\ cmd.length = cmd.count * BLOCKLEN
  BY <1>2 DEF WhenWriting
<1>5. ~Answering
  BY <1>4 DEF Answering, Responses, ResponseSize
<1> QED BY <1>1, <1>2, <1>3, <1>4, <1>5

\* A step in a write that does not end it; the host does not see it.
LEMMA WriteOnData ==
  ASSUME IndInv, ControlInv, DataInv, configured, Serving, UNCHANGED hostVars,
         UNCHANGED writeFrame, MSDCommandState = "WRITE_10", MSDReadState = "WAIT",
         cmd.op = "WRITE_10", InIdle(usb),
         usb' \in Pair, Carries(usb'), usb'.in = usb.in, usb'.inHandle = usb.inHandle,
         MSD_State' \in {"DATA_IN", "DATA_OUT"},
         gblCBW' \in CBW, msd_csw' \in CSW, TransferLength' \in Nat, LBA' \in Nat,
         ptrNextData' \in Nat, MSDRetryAttempt' \in 0 .. MaxAttempts, sense' \in SenseKeys,
         msd_buffer' = msd_buffer, store' \in [Sectors -> [Chunks -> Data]],
         gblCBW'.op = gblCBW.op, gblCBW'.lba = gblCBW.lba, gblCBW'.count = gblCBW.count,
         gblCBW'.length <= gblCBW.length, msd_csw'.tag = msd_csw.tag,
         MSDWriteState' # "WAIT", WhenWriting'
  PROVE  DataInv'
<1>1. UNCHANGED <<controlVars, cmd, moved, isReadOnly, msd_cbw, MSDHostNoData, MSDCommandState,
                  MSDReadState>>
  BY DEF writeFrame, controlVars, hostVars
<1>2. Values'
  <2>1. Values /\ msd_buffer \in [Chunks -> Data \cup {Answer, Zeros}]
    BY DEF DataInv, Values
  <2> QED BY <1>1, <2>1, TasksValues
<1>3. InIdle(usb')
  BY InKept
<1>4. Served'
  <2>1. Served /\ gblCBW.length \in Nat /\ cmd.length \in Nat /\ gblCBW'.length \in Nat
    BY ServingData DEF CBW
  <2> QED BY <1>1, <2>1 DEF Served
<1>5. ~Answering
  BY DEF Answering, Responses, ResponseSize
<1>6. /\ MSD_State' \in MsdStates /\ MSD_State' # "WAIT" /\ Serving' /\ ~Started'
      /\ MSDReadState' = "WAIT" /\ MSDCommandState' # "RESPONSE" /\ MSD_State' # "SEND_CSW"
  BY <1>1 DEF Serving, MsdStates, Started
<1>7. HostWaits => WhileHostWaits'
  BY <1>3, <1>5, <1>6, HostSeesNothing
<1> QED BY <1>1, <1>2, <1>4, <1>6, <1>7, WorkData

\* A packet is asked for as soon as the last one is in; it is not there yet.
LEMMA ReceiveChunkData ==
  ASSUME IndInv, ControlInv, DataInv, configured, Serving, NEW k \in Chunks, ReceiveChunk(k)
  PROVE  /\ usb' \in Pair /\ Carries(usb') /\ usb'.in = usb.in /\ usb'.inHandle = usb.inHandle
         /\ MSDWriteState' \in {"RX_SECTOR", "RX_PACKET"} /\ ~Arrived'
<1>1. usb \in Pair /\ Carries(usb) /\ (~OutBusy => OutIdle(usb))
  BY ServingData, ServingAtWork
<1>2. CASE OutBusy
  BY <1>1, <1>2 DEF ReceiveChunk, Arrived
<1>3. CASE ~OutBusy
  <2>1. usb' = Rx(usb, DataBuffer(k)) /\ MSDWriteState' = "RX_PACKET"
    BY <1>3 DEF ReceiveChunk
  <2>2. /\ usb' \in Pair /\ Carries(usb') /\ usb'.in = usb.in /\ usb'.inHandle = usb.inHandle
        /\ OutArmed(usb')
    BY <1>1, <1>3, <2>1, RxCarries DEF OutIdle
  <2>3. ~OutIdle(usb')
    BY <2>2, ActiveShape
  <2> QED BY <2>1, <2>2, <2>3 DEF Arrived
<1> QED BY <1>2, <1>3

\* A new sector, D sectors into the command.
LEMMA ReceiveSectorData ==
  ASSUME IndInv, ControlInv, DataInv, configured, Serving, UNCHANGED hostVars,
         UNCHANGED writeFrame, UNCHANGED <<gblCBW, MSDRetryAttempt, sense, msd_buffer, store>>,
         MSDCommandState = "WRITE_10", MSDReadState = "WAIT", InIdle(usb),
         MSD_State' \in {"DATA_IN", "DATA_OUT"},
         cmd.op = "WRITE_10", ~cmd.in, cmd.length = cmd.count * BLOCKLEN,
         msd_csw.status \in {"PASSED", "FAILED"},
         NEW D \in Nat, D < cmd.count, LBA' = cmd.lba + D, TransferLength' = cmd.count - D,
         gblCBW.length = (cmd.count - D) * BLOCKLEN, moved = cmd.length - gblCBW.length,
         msd_csw.status = "PASSED" => Stored(cmd.lba + D), ReceiveSector
  PROVE  DataInv'
<1>1. /\ gblCBW \in CBW /\ msd_csw \in CSW /\ cmd.lba \in Nat /\ cmd.count \in Nat
      /\ cmd.length \in Nat /\ gblCBW.length \in Nat /\ moved \in Nat
      /\ MSDRetryAttempt \in 0 .. MaxAttempts /\ sense \in SenseKeys
      /\ store \in [Sectors -> [Chunks -> Data]]
  BY ServingData
<1>2. /\ ptrNextData' = 0 /\ msd_csw' = [msd_csw EXCEPT !.residue = BLOCKLEN] /\ ReceiveChunk(0)
      /\ 0 \in Chunks /\ BLOCKLEN \in Nat \ {0} /\ EP_SIZE \in Nat \ {0} /\ N \in Nat \ {0}
      /\ Chunks = 0 .. N - 1
  BY Sizes DEF ReceiveSector
<1>3. /\ usb' \in Pair /\ Carries(usb') /\ usb'.in = usb.in /\ usb'.inHandle = usb.inHandle
      /\ MSDWriteState' \in {"RX_SECTOR", "RX_PACKET"} /\ ~Arrived'
  BY <1>2, ReceiveChunkData
<1>4. /\ msd_csw' \in CSW /\ msd_csw'.tag = msd_csw.tag /\ msd_csw'.status = msd_csw.status
      /\ msd_csw'.residue = BLOCKLEN
  BY <1>1, <1>2 DEF CSW
<1>5. cmd' = cmd /\ moved' = moved
  BY DEF hostVars
<1>6. LBA' - cmd.lba = D /\ LBA' \in Nat /\ TransferLength' \in Nat
  <2>1. \A a \in Nat : (a + D) - a = D /\ a + D \in Nat
    OBVIOUS
  <2>2. cmd.count - D \in Nat
    BY <1>1
  <2> QED BY <1>1, <2>1, <2>2, Zenon
<1>7. (cmd.count - D) * BLOCKLEN = (TransferLength' - 1) * BLOCKLEN + BLOCKLEN
  <2>1. TransferLength' \in Int
    BY <1>6
  <2>2. (TransferLength' - 1) * BLOCKLEN = TransferLength' * BLOCKLEN - BLOCKLEN
        /\ TransferLength' * BLOCKLEN \in Int
    BY <2>1, PacketsOfSector
  <2> QED BY <1>2, <2>2
<1>8. WithinSector(Arrived)'
  <2>1. Done' = D
    BY <1>5, <1>6 DEF Done
  <2>2. msd_csw'.residue = BLOCKLEN - ptrNextData' * EP_SIZE
    BY <1>2, <1>4
  <2>3. \A i \in Chunks : ~(i < 0)
    BY <1>2
  <2> QED BY <1>2, <1>3, <1>4, <1>5, <1>7, <2>1, <2>2, <2>3 DEF WithinSector
<1>9. (msd_csw.status = "PASSED") => Stored(LBA)'
  BY <1>5 DEF Stored, SectorOf, Written
<1>10. WhenWriting'
  <2>1. Done' = D /\ D >= 0
    BY <1>5, <1>6 DEF Done
  <2>2. moved' = cmd'.length - gblCBW'.length + (IF Arrived' THEN EP_SIZE ELSE 0)
    BY <1>1, <1>3, <1>5
  <2> QED BY <1>2, <1>3, <1>4, <1>5, <1>8, <1>9, <2>1, <2>2 DEF WhenWriting
<1>11. gblCBW' = gblCBW /\ gblCBW'.length <= gblCBW.length
  BY <1>1
<1> QED BY <1>1, <1>2, <1>3, <1>4, <1>6, <1>10, <1>11, WriteOnData

LEMMA WriteStartData ==
  ASSUME IndInv, ControlInv, DataInv, UNCHANGED hostVars, WriteStart
  PROVE  DataInv'
<1>1. /\ Starting("WRITE_10") /\ NoErrorCase /\ gblCBW.count > 0
      /\ TransferLength' = gblCBW.count /\ LBA' = gblCBW.lba /\ MSD_State' = "DATA_IN"
      /\ ReceiveSector /\ UNCHANGED writeFrame
      /\ UNCHANGED <<gblCBW, MSDRetryAttempt, sense, msd_buffer, store>>
  BY DEF WriteStart
<1>2. /\ configured /\ Serving /\ MSDCommandState = "WRITE_10" /\ MSDReadState = "WAIT"
      /\ cmd.op = "WRITE_10" /\ gblCBW.length = cmd.length /\ Served /\ cmd \in CBW
      /\ (MSD_State = "DATA_OUT" <=> ~cmd.in) /\ moved = 0 /\ InIdle(usb)
      /\ msd_csw.status = "PASSED" /\ MSDHostNoData = (cmd.length = 0)
  BY <1>1, StartingData DEF Starting
<1>3. gblCBW.count = cmd.count /\ gblCBW.lba = cmd.lba /\ gblCBW.op = "WRITE_10"
      /\ cmd.count \in Nat /\ cmd.lba \in Nat /\ cmd.count > 0 /\ BLOCKLEN \in Nat \ {0}
      /\ cmd.length \in Nat
  BY <1>1, <1>2, Sizes DEF Served, CBW
<1>4. DeviceBytes = cmd.count * BLOCKLEN /\ cmd.count * BLOCKLEN # 0
  BY <1>3 DEF DeviceBytes
<1>5. cmd.length = cmd.count * BLOCKLEN /\ ~cmd.in
  BY <1>1, <1>2, <1>3, <1>4 DEF NoErrorCase, CBW
<1>6. /\ 0 \in Nat /\ 0 < cmd.count /\ LBA' = cmd.lba + 0 /\ TransferLength' = cmd.count - 0
      /\ gblCBW.length = (cmd.count - 0) * BLOCKLEN /\ moved = cmd.length - gblCBW.length
  BY <1>1, <1>2, <1>3, <1>5
<1>7. Stored(cmd.lba + 0)
  BY <1>3 DEF Stored
<1> QED BY <1>1, <1>2, <1>5, <1>6, <1>7, ReceiveSectorData

LEMMA WriteNextSectorData ==
  ASSUME IndInv, ControlInv, DataInv, UNCHANGED hostVars, WriteNextSector
  PROVE  DataInv'
<1>1. /\ Writing({"BLOCK"}) /\ TransferLength > 0 /\ ReceiveSector /\ UNCHANGED writeFrame
      /\ UNCHANGED <<MSD_State, gblCBW, TransferLength, LBA, MSDRetryAttempt, sense, msd_buffer,
                     store>>
  BY DEF WriteNextSector, lengthVars
<1>2. /\ configured /\ Serving /\ MSDCommandState = "WRITE_10" /\ MSDWriteState = "BLOCK"
      /\ MSDReadState = "WAIT" /\ WhenWriting /\ InIdle(usb)
  BY <1>1, WritingData
<1>3. /\ cmd.op = "WRITE_10" /\ ~cmd.in /\ cmd.length = cmd.count * BLOCKLEN
      /\ msd_csw.status \in {"PASSED", "FAILED"}
      /\ TransferLength = cmd.count - Done /\ Done >= 0 /\ Done <= cmd.count
      /\ gblCBW.length = TransferLength * BLOCKLEN /\ ~Arrived
      /\ moved = cmd.length - gblCBW.length + 0
      /\ msd_csw.status = "PASSED" => Stored(LBA)
  BY <1>2 DEF WhenWriting, Arrived
<1>4. /\ cmd.count \in Nat /\ cmd.lba \in Nat /\ LBA \in Nat /\ cmd.length \in Nat
      /\ gblCBW.length \in Nat
  BY <1>2, ServingData
<1> DEFINE D == Done
<1>5. /\ D \in Nat /\ D < cmd.count /\ LBA = cmd.lba + D /\ TransferLength = cmd.count - D
      /\ moved = cmd.length - gblCBW.length
  BY <1>1, <1>3, <1>4 DEF Done
<1> HIDE DEF D
<1>6. /\ LBA' = cmd.lba + D /\ TransferLength' = cmd.count - D
      /\ gblCBW.length = (cmd.count - D) * BLOCKLEN
      /\ msd_csw.status = "PASSED" => Stored(cmd.lba + D)
  BY <1>1, <1>3, <1>5
<1>7. MSD_State' \in {"DATA_IN", "DATA_OUT"}
  BY <1>1, <1>2 DEF Serving
<1> QED BY <1>1, <1>2, <1>3, <1>5, <1>6, <1>7, ReceiveSectorData

\* The counters in a sector that is coming in.
LEMMA InSector ==
  ASSUME IndInv, ControlInv, DataInv, NEW states, Writing(states),
         states \subseteq {"RX_SECTOR", "RX_PACKET", "SECTOR"}
  PROVE  /\ configured /\ Serving /\ MSDCommandState = "WRITE_10" /\ MSDWriteState \in states
         /\ MSDReadState = "WAIT" /\ InIdle(usb) /\ cmd.op = "WRITE_10" /\ ~cmd.in
         /\ cmd.length = cmd.count * BLOCKLEN
         /\ msd_csw.status \in {"PASSED", "FAILED"} /\ (msd_csw.status = "PASSED" => Stored(LBA))
         /\ TransferLength = cmd.count - Done /\ Done \in Nat /\ Done < cmd.count
         /\ ptrNextData \in 0 .. N /\ msd_csw.residue = BLOCKLEN - ptrNextData * EP_SIZE
         /\ gblCBW.length = (TransferLength - 1) * BLOCKLEN + msd_csw.residue
         /\ (TransferLength - 1) * BLOCKLEN \in Nat
         /\ \A i \in Chunks : i < ptrNextData \/ (i = ptrNextData /\ Arrived)
                              => msd_buffer[i] = Written(Done * N + i)
         /\ moved = cmd.length - gblCBW.length + (IF Arrived THEN EP_SIZE ELSE 0)
         /\ Arrived => usb.out.entry[usb.outHandle].cnt = EP_SIZE
         /\ MSDWriteState = "RX_PACKET" => ptrNextData # N
         /\ MSDWriteState = "SECTOR" => ptrNextData = N
         /\ (msd_csw.residue = 0) <=> (ptrNextData = N)
         /\ MSD_State \in {"DATA_IN", "DATA_OUT"}
<1>1. /\ configured /\ Serving /\ MSDCommandState = "WRITE_10" /\ MSDWriteState \in states
      /\ MSDReadState = "WAIT" /\ WhenWriting /\ InIdle(usb) /\ MSD_State \in {"DATA_IN", "DATA_OUT"}
  BY WritingData DEF Serving
<1>2. MSDWriteState # "BLOCK"
  BY <1>1
<1>3. cmd.count \in Nat /\ cmd.lba \in Nat /\ LBA \in Nat /\ EP_SIZE \in Nat \ {0}
      /\ BLOCKLEN \in Nat \ {0} /\ N \in Nat \ {0}
  BY <1>1, ServingData, Sizes
<1>4. /\ WithinSector(Arrived) /\ TransferLength = cmd.count - Done /\ Done >= 0
      /\ ptrNextData \in 0 .. N /\ Done < cmd.count
      /\ msd_csw.residue = BLOCKLEN - ptrNextData * EP_SIZE
  BY <1>1, <1>2 DEF WhenWriting, WithinSector
<1>5. Done \in Nat /\ TransferLength - 1 \in Int /\ TransferLength - 1 >= 0
  BY <1>3, <1>4 DEF Done
<1>6. (TransferLength - 1) * BLOCKLEN \in Nat
  BY <1>5, PacketsOfSector
<1>7. (msd_csw.residue = 0) <=> (ptrNextData = N)
  <2>1. ptrNextData \in Int
    BY <1>4
  <2>2. ptrNextData * EP_SIZE \in Int /\ ((ptrNextData * EP_SIZE = BLOCKLEN) <=> (ptrNextData = N))
    BY <2>1, PacketsOfSector
  <2> QED BY <1>3, <1>4, <2>2
<1> QED BY <1>1, <1>2, <1>4, <1>5, <1>6, <1>7 DEF WhenWriting, WithinSector

LEMMA AskForPacketData ==
  ASSUME IndInv, ControlInv, DataInv, UNCHANGED hostVars, AskForPacket
  PROVE  DataInv'
<1>1. /\ Writing({"RX_SECTOR"}) /\ msd_csw.residue > 0 /\ ReceiveChunk(ptrNextData)
      /\ UNCHANGED writeFrame
      /\ UNCHANGED <<MSD_State, gblCBW, msd_csw, TransferLength, LBA, MSDRetryAttempt, sense,
                     msd_buffer, ptrNextData, store>>
  BY DEF AskForPacket, lengthVars
<1>2. /\ configured /\ Serving /\ MSDCommandState = "WRITE_10" /\ MSDWriteState = "RX_SECTOR"
      /\ MSDReadState = "WAIT" /\ InIdle(usb) /\ cmd.op = "WRITE_10"
      /\ moved = cmd.length - gblCBW.length + (IF Arrived THEN EP_SIZE ELSE 0)
      /\ ptrNextData \in 0 .. N /\ ((msd_csw.residue = 0) <=> (ptrNextData = N))
      /\ MSD_State \in {"DATA_IN", "DATA_OUT"}
  BY <1>1, InSector
<1>3. ptrNextData \in Chunks /\ ptrNextData # N
  BY <1>1, <1>2, Sizes
<1>4. /\ usb' \in Pair /\ Carries(usb') /\ usb'.in = usb.in /\ usb'.inHandle = usb.inHandle
      /\ MSDWriteState' \in {"RX_SECTOR", "RX_PACKET"} /\ ~Arrived'
  BY <1>1, <1>2, <1>3, ReceiveChunkData
<1>5. /\ gblCBW \in CBW /\ msd_csw \in CSW /\ TransferLength \in Nat /\ LBA \in Nat
      /\ ptrNextData \in Nat /\ MSDRetryAttempt \in 0 .. MaxAttempts /\ sense \in SenseKeys
      /\ store \in [Sectors -> [Chunks -> Data]] /\ gblCBW.length \in Nat
  BY <1>2, ServingData
<1>6. cmd' = cmd /\ moved' = moved
  BY DEF hostVars
<1>7. WithinSector(Arrived)' /\ Done' = Done
  <2>1. WithinSector(Arrived) /\ ~Arrived
    BY <1>1, <1>2, WritingData DEF WhenWriting, Arrived
  <2> QED BY <1>1, <1>4, <1>6, <2>1 DEF WithinSector, Done, Written
<1>8. Stored(LBA)' = Stored(LBA)
  BY <1>1, <1>6 DEF Stored, SectorOf, Written
<1>9. WhenWriting'
  <2>1. WhenWriting /\ ~Arrived
    BY <1>1, <1>2, WritingData DEF Arrived
  <2> QED BY <1>1, <1>3, <1>4, <1>6, <1>7, <1>8, <2>1 DEF WhenWriting
<1> QED BY <1>1, <1>2, <1>4, <1>5, <1>9, WriteOnData

LEMMA PacketReceivedData ==
  ASSUME IndInv, ControlInv, DataInv, UNCHANGED hostVars, PacketReceived
  PROVE  DataInv'
<1>1. /\ Writing({"RX_PACKET"}) /\ ~OutBusy /\ UNCHANGED writeFrame
      /\ gblCBW' = [gblCBW EXCEPT !.length = @ - usb.out.entry[usb.outHandle].cnt]
      /\ msd_csw' = [msd_csw EXCEPT !.residue = @ - usb.out.entry[usb.outHandle].cnt]
      /\ ptrNextData' = ptrNextData + 1 /\ MSDWriteState' = "RX_SECTOR"
      /\ UNCHANGED <<usb, MSD_State, TransferLength, LBA, MSDRetryAttempt, sense, msd_buffer, store>>
  BY DEF PacketReceived, lengthVars
<1>2. /\ configured /\ Serving /\ MSDCommandState = "WRITE_10" /\ MSDWriteState = "RX_PACKET"
      /\ MSDReadState = "WAIT" /\ InIdle(usb) /\ cmd.op = "WRITE_10" /\ ~cmd.in
      /\ cmd.length = cmd.count * BLOCKLEN
      /\ msd_csw.status \in {"PASSED", "FAILED"} /\ (msd_csw.status = "PASSED" => Stored(LBA))
      /\ TransferLength = cmd.count - Done /\ Done \in Nat /\ Done < cmd.count
      /\ ptrNextData \in 0 .. N /\ ptrNextData # N
      /\ msd_csw.residue = BLOCKLEN - ptrNextData * EP_SIZE
      /\ gblCBW.length = (TransferLength - 1) * BLOCKLEN + msd_csw.residue
      /\ (TransferLength - 1) * BLOCKLEN \in Nat
      /\ \A i \in Chunks : i < ptrNextData \/ (i = ptrNextData /\ Arrived)
                           => msd_buffer[i] = Written(Done * N + i)
      /\ moved = cmd.length - gblCBW.length + (IF Arrived THEN EP_SIZE ELSE 0)
      /\ Arrived => usb.out.entry[usb.outHandle].cnt = EP_SIZE
      /\ MSD_State \in {"DATA_IN", "DATA_OUT"}
  BY <1>1, InSector
<1>3. Arrived /\ ~Arrived' /\ usb.out.entry[usb.outHandle].cnt = EP_SIZE
  <2>1. OutIdle(usb)
    BY <1>1, <1>2, ServingAtWork
  <2> QED BY <1>1, <1>2, <2>1 DEF Arrived
<1>4. /\ usb \in Pair /\ Carries(usb)
      /\ gblCBW \in CBW /\ msd_csw \in CSW /\ TransferLength \in Nat /\ LBA \in Nat
      /\ ptrNextData \in Nat /\ MSDRetryAttempt \in 0 .. MaxAttempts /\ sense \in SenseKeys
      /\ store \in [Sectors -> [Chunks -> Data]]
      /\ gblCBW.length \in Nat /\ cmd.length \in Nat /\ moved \in Nat
  BY <1>2, ServingData
<1>5. cmd' = cmd /\ moved' = moved /\ Done' = Done
  BY <1>1 DEF hostVars, Done
<1>6. /\ EP_SIZE \in Nat \ {0} /\ BLOCKLEN \in Nat \ {0} /\ N \in Nat \ {0}
      /\ ptrNextData * EP_SIZE \in Int
      /\ (ptrNextData + 1) * EP_SIZE = ptrNextData * EP_SIZE + EP_SIZE
      /\ (ptrNextData + 1) * EP_SIZE <= BLOCKLEN /\ ptrNextData + 1 \in 0 .. N
  <2>1. EP_SIZE \in Nat \ {0} /\ BLOCKLEN \in Nat \ {0} /\ N \in Nat \ {0}
    BY Sizes
  <2>2. ptrNextData \in Int /\ ptrNextData < N /\ ptrNextData + 1 \in 0 .. N
    BY <1>2, <2>1
  <2> QED BY <2>1, <2>2, PacketsOfSector
<1>7. msd_csw.residue - EP_SIZE \in Nat
      /\ msd_csw.residue - EP_SIZE = BLOCKLEN - (ptrNextData + 1) * EP_SIZE
  BY <1>2, <1>6
<1>8. gblCBW.length - EP_SIZE \in Nat
      /\ gblCBW.length - EP_SIZE = (TransferLength - 1) * BLOCKLEN + (msd_csw.residue - EP_SIZE)
  BY <1>2, <1>6, <1>7
<1>9. /\ gblCBW' \in CBW /\ gblCBW'.length = gblCBW.length - EP_SIZE
      /\ gblCBW'.op = gblCBW.op /\ gblCBW'.lba = gblCBW.lba /\ gblCBW'.count = gblCBW.count
  BY <1>1, <1>3, <1>4, <1>8 DEF CBW
<1>10. /\ msd_csw' \in CSW /\ msd_csw'.tag = msd_csw.tag /\ msd_csw'.status = msd_csw.status
       /\ msd_csw'.residue = msd_csw.residue - EP_SIZE
  BY <1>1, <1>3, <1>4, <1>7 DEF CSW
<1>11. WithinSector(Arrived)'
  <2>1. \A i \in Chunks : i < ptrNextData + 1 => i < ptrNextData \/ i = ptrNextData
    BY <1>4, Sizes
  <2>2. \A i \in Chunks : i < ptrNextData' => msd_buffer'[i] = Written(Done * N + i)'
    BY <1>1, <1>2, <1>3, <1>5, <2>1 DEF Written
  <2>3. gblCBW'.length = (TransferLength' - 1) * BLOCKLEN + msd_csw'.residue
        /\ msd_csw'.residue = BLOCKLEN - ptrNextData' * EP_SIZE /\ ptrNextData' \in 0 .. N
    BY <1>1, <1>6, <1>7, <1>8, <1>9, <1>10
  <2> QED BY <1>2, <1>3, <1>5, <2>2, <2>3 DEF WithinSector
<1>12. Stored(LBA)' = Stored(LBA)
  BY <1>1, <1>5 DEF Stored, SectorOf, Written
<1>13. WhenWriting'
  <2>1. moved' = cmd'.length - gblCBW'.length + (IF Arrived' THEN EP_SIZE ELSE 0)
    BY <1>2, <1>3, <1>4, <1>5, <1>6, <1>9
  <2>2. Done >= 0
    BY <1>2
  <2> QED BY <1>1, <1>2, <1>3, <1>5, <1>10, <1>11, <1>12, <2>1, <2>2 DEF WhenWriting
<1>14. ptrNextData' \in Nat /\ gblCBW'.length <= gblCBW.length
  BY <1>1, <1>4, <1>6, <1>9
<1> QED BY <1>1, <1>2, <1>4, <1>9, <1>10, <1>13, <1>14, WriteOnData

LEMMA SectorReceivedData ==
  ASSUME IndInv, ControlInv, DataInv, UNCHANGED hostVars, SectorReceived
  PROVE  DataInv'
<1>1. /\ Writing({"RX_SECTOR"}) /\ msd_csw.residue = 0 /\ UNCHANGED writeFrame
      /\ msd_csw' = IF isReadOnly THEN [msd_csw EXCEPT !.status = "FAILED"] ELSE msd_csw
      /\ sense' = IF isReadOnly THEN "NOT_READY" ELSE sense
      /\ MSDWriteState' = "SECTOR"
      /\ UNCHANGED <<usb, MSD_State, gblCBW, TransferLength, LBA, MSDRetryAttempt, msd_buffer,
                     ptrNextData, store>>
  BY DEF SectorReceived, lengthVars
<1>2. /\ configured /\ Serving /\ MSDCommandState = "WRITE_10" /\ MSDWriteState = "RX_SECTOR"
      /\ MSDReadState = "WAIT" /\ InIdle(usb) /\ cmd.op = "WRITE_10"
      /\ ((msd_csw.residue = 0) <=> (ptrNextData = N))
      /\ MSD_State \in {"DATA_IN", "DATA_OUT"}
  BY <1>1, InSector
<1>3. ~Arrived /\ ~Arrived'
  BY <1>1, <1>2 DEF Arrived
<1>4. /\ usb \in Pair /\ Carries(usb)
      /\ gblCBW \in CBW /\ msd_csw \in CSW /\ TransferLength \in Nat /\ LBA \in Nat
      /\ ptrNextData \in Nat /\ MSDRetryAttempt \in 0 .. MaxAttempts /\ sense \in SenseKeys
      /\ store \in [Sectors -> [Chunks -> Data]] /\ gblCBW.length \in Nat
  BY <1>2, ServingData
<1>5. cmd' = cmd /\ moved' = moved /\ Done' = Done
  BY <1>1 DEF hostVars, Done
<1>6. /\ msd_csw' \in CSW /\ msd_csw'.tag = msd_csw.tag /\ msd_csw'.residue = msd_csw.residue
      /\ msd_csw'.status \in {msd_csw.status, "FAILED"}
  BY <1>1, <1>4 DEF CSW
<1>7. WithinSector(Arrived)'
  <2>1. WithinSector(Arrived)
    BY <1>1, <1>2, WritingData DEF WhenWriting
  <2> QED BY <1>1, <1>3, <1>5, <1>6, <2>1 DEF WithinSector, Written
<1>8. Stored(LBA)' = Stored(LBA)
  BY <1>1, <1>5 DEF Stored, SectorOf, Written
<1>9. WhenWriting'
  <2>1. WhenWriting
    BY <1>1, <1>2, WritingData
  <2> QED BY <1>1, <1>2, <1>3, <1>5, <1>6, <1>7, <1>8, <2>1 DEF WhenWriting
<1>10. sense' \in SenseKeys
  BY <1>1, <1>4 DEF SenseKeys
<1> QED BY <1>1, <1>2, <1>4, <1>6, <1>9, <1>10, WriteOnData

\* The drive is through with a sector, and what counts as written of the command is.
LEMMA SectorDoneData ==
  ASSUME IndInv, ControlInv, DataInv, UNCHANGED hostVars, Writing({"SECTOR"}), SectorDone,
         msd_csw' \in CSW, msd_csw'.tag = msd_csw.tag, msd_csw'.residue = msd_csw.residue,
         msd_csw'.status \in {"PASSED", "FAILED"},
         msd_csw'.status = "PASSED" => Stored(LBA)',
         sense' \in SenseKeys, store' \in [Sectors -> [Chunks -> Data]]
  PROVE  DataInv'
<1>1. /\ LBA' = LBA + 1 /\ TransferLength' = TransferLength - 1 /\ MSDWriteState' = "BLOCK"
      /\ UNCHANGED writeFrame
      /\ UNCHANGED <<usb, MSD_State, gblCBW, MSDRetryAttempt, msd_buffer, ptrNextData>>
  BY DEF SectorDone
<1>2. /\ configured /\ Serving /\ MSDCommandState = "WRITE_10" /\ MSDWriteState = "SECTOR"
      /\ MSDReadState = "WAIT" /\ InIdle(usb) /\ cmd.op = "WRITE_10" /\ ~cmd.in
      /\ cmd.length = cmd.count * BLOCKLEN
      /\ TransferLength = cmd.count - Done /\ Done \in Nat /\ Done < cmd.count
      /\ ptrNextData = N /\ (msd_csw.residue = 0 <=> ptrNextData = N)
      /\ gblCBW.length = (TransferLength - 1) * BLOCKLEN + msd_csw.residue
      /\ (TransferLength - 1) * BLOCKLEN \in Nat
      /\ moved = cmd.length - gblCBW.length + (IF Arrived THEN EP_SIZE ELSE 0)
      /\ MSD_State \in {"DATA_IN", "DATA_OUT"}
  BY <1>1, InSector
<1>3. /\ usb \in Pair /\ Carries(usb)
      /\ gblCBW \in CBW /\ TransferLength \in Nat /\ LBA \in Nat
      /\ ptrNextData \in Nat /\ MSDRetryAttempt \in 0 .. MaxAttempts
      /\ gblCBW.length \in Nat /\ cmd.length \in Nat /\ cmd.count \in Nat /\ cmd.lba \in Nat
  BY <1>2, ServingData
<1>4. cmd' = cmd /\ moved' = moved /\ ~Arrived /\ ~Arrived'
  BY <1>1, <1>2 DEF hostVars, Arrived
<1>5. (LBA + 1) - cmd.lba = Done + 1 /\ LBA' \in Nat
  BY <1>1, <1>3 DEF Done
<1>6. Done' = Done + 1 /\ Done' >= 0 /\ Done' <= cmd.count
      /\ TransferLength' = cmd.count - Done' /\ TransferLength' \in Nat
  <2>1. Done' = Done + 1
    <3> DEFINE D == Done
    <3>1. LBA' - cmd.lba = D + 1
      BY <1>1, <1>5
    <3> HIDE DEF D
    <3>2. Done' = D + 1
      BY <1>4, <3>1 DEF Done
    <3> QED BY <3>2 DEF D
  <2>2. \A a \in Nat, c \in Nat :
          a < c => a + 1 >= 0 /\ a + 1 <= c /\ (c - a) - 1 = c - (a + 1) /\ c - (a + 1) \in Nat
    OBVIOUS
  <2>3. /\ Done + 1 >= 0 /\ Done + 1 <= cmd.count /\ (cmd.count - Done) - 1 = cmd.count - (Done + 1)
        /\ cmd.count - (Done + 1) \in Nat
    BY <1>2, <1>3, <2>2, Zenon
  <2>4. TransferLength' = (cmd.count - Done) - 1
    BY <1>1, <1>2, Zenon
  <2> HIDE DEF Done
  <2> QED BY <2>1, <2>3, <2>4, Zenon
<1>7. msd_csw.residue = 0 /\ gblCBW.length = TransferLength' * BLOCKLEN
  BY <1>1, <1>2, <1>3
<1>8. WhenWriting'
  BY <1>1, <1>2, <1>4, <1>6, <1>7 DEF WhenWriting
<1>9. gblCBW.length <= gblCBW.length
  BY <1>3
<1> QED BY <1>1, <1>2, <1>3, <1>5, <1>6, <1>8, <1>9, WriteOnData

\* A sector is written when all its packets are there, and they are those of the host.
LEMMA SectorComplete ==
  ASSUME IndInv, ControlInv, DataInv, Writing({"SECTOR"})
  PROVE  /\ msd_buffer = SectorOf(LBA) /\ msd_buffer \in [Chunks -> Data]
         /\ LBA \in Span
<1>1. /\ configured /\ Serving /\ cmd.length = cmd.count * BLOCKLEN
      /\ Done \in Nat /\ Done < cmd.count /\ ptrNextData = N
      /\ \A i \in Chunks : i < ptrNextData => msd_buffer[i] = Written(Done * N + i)
  BY InSector
<1>2. msd_buffer \in [Chunks -> Data \cup {Answer, Zeros}] /\ cmd.count \in Nat /\ cmd.lba \in Nat
      /\ LBA \in Nat
  BY <1>1, ServingData
<1>3. /\ N \in Nat \ {0} /\ Chunks = 0 .. N - 1 /\ Cardinality(Chunks) = N
      /\ EP_SIZE \in Nat \ {0} /\ BLOCKLEN \in Nat \ {0} /\ BLOCKLEN = N * EP_SIZE
  BY Sizes
<1>4. \A i \in Chunks : msd_buffer[i] = Written(Done * N + i)
  BY <1>1, <1>3
<1>5. msd_buffer = SectorOf(LBA)
  BY <1>2, <1>3, <1>4 DEF SectorOf, Done
<1>6. \A i \in Chunks : Written(Done * N + i) \in Data
  <2> SUFFICES ASSUME NEW i \in Chunks PROVE Written(Done * N + i) \in Data
    OBVIOUS
  <2> DEFINE D == Done
             p == D * N + i
  <2>1. i \in Nat /\ i < N /\ D \in Nat /\ D + 1 <= cmd.count
    BY <1>1, <1>2, <1>3
  <2>2. p \in Nat
    BY <1>3, <2>1
  <2>3. p * EP_SIZE = D * BLOCKLEN + i * EP_SIZE
    BY <1>3, <2>1
  <2>4. i * EP_SIZE \in Int /\ i * EP_SIZE < BLOCKLEN
    <3>1. i \in Int
      BY <2>1
    <3>2. (i + 1) * EP_SIZE <= BLOCKLEN /\ (i + 1) * EP_SIZE = i * EP_SIZE + EP_SIZE
          /\ i * EP_SIZE \in Int
      BY <2>1, <3>1, PacketsOfSector
    <3> QED BY <1>3, <3>2
  <2>5. D * BLOCKLEN + BLOCKLEN <= cmd.length /\ D * BLOCKLEN \in Int /\ cmd.length \in Int
    <3>1. (cmd.count - (D + 1)) * BLOCKLEN >= 0
      <4>1. cmd.count - (D + 1) \in Int /\ cmd.count - (D + 1) >= 0
        BY <1>2, <2>1
      <4> QED BY <4>1, PacketsOfSector
    <3>2. (cmd.count - (D + 1)) * BLOCKLEN = cmd.count * BLOCKLEN - (D * BLOCKLEN + BLOCKLEN)
          /\ cmd.count * BLOCKLEN \in Int /\ D * BLOCKLEN \in Int
      <4>1. \A a \in Nat, c \in Nat, b \in Nat :
              (c - (a + 1)) * b = c * b - (a * b + b) /\ c * b \in Int /\ a * b \in Int
        OBVIOUS
      <4>2. cmd.count \in Nat /\ D \in Nat /\ BLOCKLEN \in Nat
        BY <1>2, <1>3, <2>1
      <4> HIDE DEF D
      <4> QED BY <4>1, <4>2
    <3> QED BY <1>1, <1>3, <3>1, <3>2
  <2> HIDE DEF p, D
  <2>6. p * EP_SIZE < cmd.length
    BY <1>3, <2>3, <2>4, <2>5
  <2>7. <<cmd.tag, p>> \in Data
    BY <2>2, <2>6 DEF DataInv, Values
  <2> QED BY <2>7 DEF Written, p, D
<1>7. msd_buffer \in [Chunks -> Data]
  BY <1>2, <1>4, <1>6
<1>8. LBA \in Span
  BY <1>1, <1>2 DEF Span, Done
<1> QED BY <1>5, <1>7, <1>8

LEMMA WriteSectorData ==
  ASSUME IndInv, ControlInv, DataInv, UNCHANGED hostVars, WriteSector
  PROVE  DataInv'
<1>1. /\ Writing({"SECTOR"}) /\ msd_csw.status = "PASSED" /\ LBA \in Sectors
      /\ store' = [store EXCEPT ![LBA] = msd_buffer] /\ SectorDone /\ UNCHANGED <<msd_csw, sense>>
  BY DEF WriteSector
<1>2. configured /\ Serving /\ Stored(LBA)
  BY <1>1, InSector
<1>3. /\ msd_csw \in CSW /\ sense \in SenseKeys /\ store \in [Sectors -> [Chunks -> Data]]
      /\ LBA \in Nat /\ cmd.lba \in Nat
  BY <1>2, ServingData
<1>4. msd_buffer = SectorOf(LBA) /\ msd_buffer \in [Chunks -> Data]
  BY <1>1, SectorComplete
<1>5. store' \in [Sectors -> [Chunks -> Data]]
  BY <1>1, <1>3, <1>4
<1>6. cmd' = cmd /\ LBA' = LBA + 1
  BY <1>1 DEF hostVars, SectorDone
<1>7. \A s \in cmd.lba .. LBA : s \in Sectors /\ store'[s] = SectorOf(s)
  <2> SUFFICES ASSUME NEW s \in cmd.lba .. LBA PROVE s \in Sectors /\ store'[s] = SectorOf(s)
    OBVIOUS
  <2>1. CASE s = LBA
    BY <1>1, <1>3, <1>4, <2>1
  <2>2. CASE s # LBA
    <3>1. s \in cmd.lba .. LBA - 1
      BY <1>3, <2>2
    <3> QED BY <1>1, <1>2, <1>3, <2>2, <3>1 DEF Stored
  <2> QED BY <2>1, <2>2
<1>8. Stored(LBA)'
  <2>1. LBA' - 1 = LBA
    BY <1>3, <1>6
  <2> QED BY <1>6, <1>7, <2>1 DEF Stored, SectorOf, Written
<1> QED BY <1>1, <1>3, <1>5, <1>8, SectorDoneData

LEMMA RetryWriteData ==
  ASSUME IndInv, ControlInv, DataInv, UNCHANGED hostVars, RetryWrite
  PROVE  DataInv'
<1>1. /\ Writing({"SECTOR"}) /\ MSDRetryAttempt < MaxAttempts
      /\ MSDRetryAttempt' = MSDRetryAttempt + 1 /\ UNCHANGED writeFrame
      /\ UNCHANGED <<usb, MSD_State, MSDWriteState, gblCBW, msd_csw, TransferLength, LBA, sense,
                     msd_buffer, ptrNextData, store>>
  BY DEF RetryWrite
<1>2. /\ configured /\ Serving /\ MSDCommandState = "WRITE_10" /\ MSDWriteState = "SECTOR"
      /\ MSDReadState = "WAIT" /\ InIdle(usb) /\ cmd.op = "WRITE_10"
      /\ MSD_State \in {"DATA_IN", "DATA_OUT"}
  BY <1>1, InSector
<1>3. /\ usb \in Pair /\ Carries(usb)
      /\ gblCBW \in CBW /\ msd_csw \in CSW /\ TransferLength \in Nat /\ LBA \in Nat
      /\ ptrNextData \in Nat /\ MSDRetryAttempt \in 0 .. MaxAttempts /\ sense \in SenseKeys
      /\ store \in [Sectors -> [Chunks -> Data]] /\ gblCBW.length \in Nat
  BY <1>2, ServingData
<1>4. cmd' = cmd /\ moved' = moved
  BY DEF hostVars
<1>5. WhenWriting' = WhenWriting
  BY <1>1, <1>4 DEF WhenWriting, WithinSector, Arrived, Stored, SectorOf, Written, Done
<1>6. WhenWriting
  BY <1>1, WritingData
<1>7. MSDRetryAttempt' \in 0 .. MaxAttempts /\ gblCBW.length <= gblCBW.length
  <2>1. MaxAttempts \in Nat
    BY SizesAssumption
  <2> QED BY <1>1, <1>3, <2>1
<1> QED BY <1>1, <1>2, <1>3, <1>5, <1>6, <1>7, WriteOnData

LEMMA SectorFailedData ==
  ASSUME IndInv, ControlInv, DataInv, UNCHANGED hostVars, AbandonWrite \/ SkipSector
  PROVE  DataInv'
<1>1. /\ Writing({"SECTOR"}) /\ SectorDone /\ store' = store
      /\ \/ msd_csw' = [msd_csw EXCEPT !.status = "FAILED"] /\ sense' = "MEDIUM_ERROR"
         \/ msd_csw' = msd_csw /\ sense' = sense /\ msd_csw.status # "PASSED"
  BY DEF AbandonWrite, SkipSector
<1>2. configured /\ Serving /\ msd_csw.status \in {"PASSED", "FAILED"}
  BY <1>1, InSector
<1>3. msd_csw \in CSW /\ sense \in SenseKeys /\ store \in [Sectors -> [Chunks -> Data]]
  BY <1>2, ServingData
<1>4. /\ msd_csw' \in CSW /\ msd_csw'.tag = msd_csw.tag /\ msd_csw'.residue = msd_csw.residue
      /\ msd_csw'.status = "FAILED"
  BY <1>1, <1>2, <1>3 DEF CSW
<1>5. sense' \in SenseKeys
  BY <1>1, <1>3 DEF SenseKeys
<1> QED BY <1>1, <1>3, <1>4, <1>5, SectorDoneData

LEMMA WriteEndData ==
  ASSUME IndInv, ControlInv, DataInv, UNCHANGED hostVars, WriteEnd
  PROVE  DataInv'
<1>1. /\ Writing({"BLOCK"}) /\ TransferLength = 0 /\ Finish(msd_csw) /\ UNCHANGED commandFrame
      /\ UNCHANGED <<usb, gblCBW, TransferLength, LBA, MSDRetryAttempt, sense, msd_buffer,
                     ptrNextData>>
  BY DEF WriteEnd, lengthVars
<1>2. /\ configured /\ Serving /\ MSDWriteState = "BLOCK" /\ WhenWriting /\ InIdle(usb)
      /\ ~Answering
  BY <1>1, WritingData
<1>3. /\ cmd.op = "WRITE_10" /\ cmd.length = cmd.count * BLOCKLEN
      /\ TransferLength = cmd.count - Done /\ gblCBW.length = TransferLength * BLOCKLEN
      /\ moved = cmd.length - gblCBW.length + 0
      /\ msd_csw.status = "PASSED" => Stored(LBA)
  BY <1>2 DEF WhenWriting, Arrived
<1>4. /\ usb \in Pair /\ Carries(usb) /\ Served /\ gblCBW \in CBW /\ msd_csw \in CSW
      /\ TransferLength \in Nat /\ LBA \in Nat /\ ptrNextData \in Nat
      /\ MSDRetryAttempt \in 0 .. MaxAttempts /\ sense \in SenseKeys
      /\ msd_buffer \in [Chunks -> Data \cup {Answer, Zeros}]
      /\ cmd.length \in Nat /\ cmd.lba \in Nat /\ cmd.count \in Nat /\ BLOCKLEN \in Nat
  BY <1>2, ServingData, Sizes
<1>5. gblCBW.length = 0 /\ moved = cmd.length /\ LBA = cmd.lba + cmd.count
  <2>1. gblCBW.length = 0
    BY <1>1, <1>3, <1>4
  <2>2. moved = cmd.length
    BY <1>3, <1>4, <2>1
  <2>3. \A l \in Nat, a \in Nat, c \in Nat : 0 = c - (l - a) => l = a + c
    OBVIOUS
  <2>4. 0 = cmd.count - (LBA - cmd.lba)
    BY <1>1, <1>3 DEF Done
  <2>5. LBA = cmd.lba + cmd.count
    BY <1>4, <2>3, <2>4, Zenon
  <2> QED BY <2>1, <2>2, <2>5
<1>6. MSD_State' = "SEND_CSW"
  BY <1>1 DEF Finish
<1>7. HostWaits => WhileHostWaits'
  BY <1>1, <1>2, <1>4, <1>6, HostSeesNothing
<1>8. Served'
  BY <1>1, <1>4 DEF Served, hostVars
<1>9. cmd.op \notin Responses \cup {"READ_10"} /\ cmd.op \notin Responses
  BY <1>3 DEF Responses, ResponseSize
<1>10. msd_csw.status = "PASSED" =>
         /\ cmd.op \in {"READ_10", "WRITE_10"} => cmd.length = cmd.count * BLOCKLEN
         /\ cmd.op = "WRITE_10" => moved = cmd.length /\ Stored(cmd.lba + cmd.count)
         /\ cmd.op \in Responses \cup {"READ_10"} => gblCBW'.length = 0
         /\ cmd.op \in Responses => msd_csw.residue = cmd.length - Offered
  BY <1>3, <1>5, <1>9
<1>11. /\ gblCBW' \in CBW /\ TransferLength' \in Nat /\ LBA' \in Nat /\ ptrNextData' \in Nat
       /\ MSDRetryAttempt' \in 0 .. MaxAttempts /\ sense' \in SenseKeys
       /\ msd_buffer' \in [Chunks -> Data \cup {Answer, Zeros}] /\ Carries(usb')
  BY <1>1, <1>4
<1> QED BY <1>1, <1>2, <1>4, <1>7, <1>8, <1>10, <1>11, FinishData

LEMMA WritesData ==
  ASSUME IndInv, ControlInv, DataInv, UNCHANGED hostVars,
         \/ WriteStart \/ WriteNextSector \/ WriteEnd \/ AskForPacket \/ PacketReceived
         \/ SectorReceived \/ WriteSector \/ RetryWrite \/ AbandonWrite \/ SkipSector
  PROVE  DataInv'
BY WriteStartData, WriteNextSectorData, WriteEndData, AskForPacketData, PacketReceivedData,
   SectorReceivedData, WriteSectorData, RetryWriteData, SectorFailedData

----------------------------------------------------------------------------
(* From a CBW to the command, and from the status to the next CBW.          *)

\* The drive waits for a CBW and has nothing for the host.
LEMMA AtRestData ==
  ASSUME DataInv, UNCHANGED hostVars, Values', MSD_State' = "WAIT", ~Fresh', usb' \in Pair,
         InIdle(usb') \/ InStalled(usb') \/ InHalted(usb')
  PROVE  DataInv'
<1>1. UNCHANGED <<host, cmd, moved>>
  BY DEF hostVars
<1>2. Counts'
  BY <1>1 DEF DataInv, Counts
<1>3. ~InData(usb') /\ ~InDataCsw(usb') /\ ~InCsw(usb')
  BY ActiveShape
<1>4. ~Serving' /\ ~Reporting' /\ ~Started'
  BY <1>3 DEF Serving, Reporting, CswOut, Started
<1>5. WhileHostWaits'
  BY <1>3, <1>4 DEF WhileHostWaits
<1>6. InCommand'
  BY <1>4, <1>5 DEF InCommand
<1> QED BY <1>2, <1>6 DEF DataInv

\* The status is decided, and perhaps the CSW goes out now; the host has not moved.
LEMMA OnTheWayData ==
  ASSUME DataInv, configured, UNCHANGED <<gblCBW, msd_csw, msd_buffer, store, cmd, moved, intact>>,
         Values', Counts', ~Serving', ~Fresh', Reporting' => Reporting,
         HostWaits' => /\ HostWaits /\ InFlight' = InFlight
                       /\ InData(usb') \/ InDataCsw(usb') =>
                            /\ InData(usb) \/ InDataCsw(usb)
                            /\ Active(usb'.in) = Active(usb.in) /\ Reporting'
  PROVE  DataInv'
<1>1. InCommand
  BY DEF DataInv
<1>2. Reporting' => Served' /\ msd_csw'.tag = cmd'.tag
  BY <1>1 DEF InCommand, Served
<1>3. Reporting' => WhenReporting'
  <2>1. /\ Stored(cmd.lba + cmd.count)' = Stored(cmd.lba + cmd.count) /\ Offered' = Offered
    BY DEF Stored, SectorOf, Written, Offered
  <2> QED BY <1>1, <2>1 DEF InCommand, WhenReporting
<1>4. HostWaits' => WhileHostWaits'
  <2> SUFFICES ASSUME HostWaits' PROVE WhileHostWaits'
    OBVIOUS
  <2>1. WhileHostWaits
    BY <1>1 DEF InCommand
  <2>2. (Answering' = Answering) /\ Expected(moved)' = Expected(moved)
    BY DEF Answering, Expected
  <2> QED BY <2>1, <2>2 DEF WhileHostWaits
<1>5. ~Started'
  BY DEF Started
<1> QED BY <1>2, <1>3, <1>4, <1>5 DEF DataInv, InCommand

LEMMA AcceptCBWData ==
  ASSUME IndInv, ControlInv, DataInv, UNCHANGED hostVars, AcceptCBW
  PROVE  DataInv'
<1>1. /\ configured /\ MSD_State = "WAIT" /\ ~OutBusy /\ msd_cbw.form = "meaningful"
      /\ gblCBW' = msd_cbw
      /\ msd_csw' = [tag |-> msd_cbw.tag, residue |-> 0, status |-> "PASSED"]
      /\ MSD_State' = IF msd_cbw.in THEN "DATA_IN" ELSE "DATA_OUT"
      /\ MSDCommandState' = msd_cbw.op /\ MSDReadState' = "WAIT" /\ MSDWriteState' = "WAIT"
      /\ MSDRetryAttempt' = 0
      /\ sense' = IF msd_cbw.op = "REQUEST_SENSE" THEN sense ELSE ResetSenseData
      /\ MSDHostNoData' = (msd_cbw.length = 0)
      /\ UNCHANGED <<usb, TransferLength, LBA, msd_cbw, msd_buffer, ptrNextData, store, isReadOnly>>
  BY DEF AcceptCBW, CBWReceived, Tasks, bufferVars, mediaVars
<1>2. UNCHANGED <<host, cmd, moved, intact, aborts>> /\ usb \in Pair
  BY DEF hostVars, IndInv, Types
<1>3. InIdle(usb) /\ msd_cbw = cmd
  BY <1>1 DEF ControlInv, Coupled, WhileWaiting
<1>4. Fresh /\ InCommand
  BY <1>1 DEF Fresh, DataInv
<1>5. moved = 0 /\ (HostWaits => intact)
  BY <1>4 DEF InCommand, WhileHostWaits
<1>6. Values
  BY DEF DataInv
<1>7. /\ msd_cbw \in CBW /\ cmd \in CBW /\ sense \in SenseKeys /\ MaxAttempts \in Nat
      /\ cmd.length \in Nat /\ cmd.op # "RESPONSE" /\ cmd.op # "WAIT"
  BY <1>6, SizesAssumption DEF Values, CBW, Operations, Responses, ResponseSize
<1>8. msd_csw' \in CSW /\ sense' \in SenseKeys /\ MSDRetryAttempt' \in 0 .. MaxAttempts
  <2>1. msd_csw' \in CSW
    BY <1>1, <1>7 DEF CBW, CSW
  <2>2. sense' \in SenseKeys
    BY <1>1, <1>7 DEF SenseKeys, ResetSenseData
  <2> QED BY <1>1, <1>7, <2>1, <2>2
<1>9. Values'
  BY <1>1, <1>2, <1>6, <1>7, <1>8 DEF Values
<1>10. Counts'
  BY <1>2 DEF DataInv, Counts
<1>11. /\ ~Fresh' /\ ~Reporting' /\ Serving' /\ Served' /\ msd_csw'.tag = cmd'.tag
  <2>1. MSD_State' \in {"DATA_IN", "DATA_OUT"}
    BY <1>1
  <2>2. Served' /\ msd_csw'.tag = cmd'.tag
    BY <1>1, <1>2, <1>3, <1>7 DEF Served
  <2> QED BY <2>1, <2>2 DEF Fresh, Reporting, Serving
<1>12. WhenStarted'
  BY <1>1, <1>2, <1>3, <1>5 DEF WhenStarted
<1>13. HostWaits' => WhileHostWaits'
  <2>1. ~InData(usb') /\ ~InDataCsw(usb')
    BY <1>1, <1>2, <1>3, ActiveShape
  <2>2. InFlight' = 0
    BY <2>1 DEF InFlight
  <2>3. (IF cmd'.in THEN moved' ELSE 0) + InFlight' = cmd'.length - gblCBW'.length
    BY <1>1, <1>2, <1>3, <1>5, <1>7, <2>2
  <2>4. HostWaits' = HostWaits
    BY <1>2 DEF HostWaits
  <2> QED BY <1>2, <1>5, <2>1, <2>3, <2>4 DEF WhileHostWaits
<1>14. MSDCommandState' # "RESPONSE"
  BY <1>1, <1>3, <1>7
<1> QED BY <1>1, <1>9, <1>10, <1>11, <1>12, <1>13, <1>14 DEF DataInv, InCommand

LEMMA RejectCBWData ==
  ASSUME IndInv, ControlInv, DataInv, UNCHANGED hostVars, RejectCBW
  PROVE  DataInv'
<1>1. /\ MSD_State = "WAIT" /\ MSD_State' = "WAIT" /\ gblCBW' = msd_cbw /\ usb' = StallBoth(usb)
      /\ UNCHANGED <<MSDHostNoData, msd_csw, TransferLength, LBA, MSDRetryAttempt, sense, msd_cbw,
                     msd_buffer, ptrNextData, store, isReadOnly>>
      /\ usb \in Pair
  BY DEF RejectCBW, CBWReceived, Tasks, machineVars, lengthVars, bufferVars, mediaVars, IndInv, Types
<1>2. Values
  BY DEF DataInv
<1>3. usb' \in Pair /\ InStalled(usb') /\ OutStalled(usb') /\ Carries(usb')
  BY <1>1, <1>2, StallBothStalls DEF Values
<1>4. ~Fresh'
  BY <1>3, OutBusyShape DEF OutBusy, Fresh
<1>5. Values'
  BY <1>1, <1>2, <1>3 DEF Values, hostVars
<1> QED BY <1>1, <1>3, <1>4, <1>5, AtRestData

LEMMA SendCSWData ==
  ASSUME IndInv, ControlInv, DataInv, UNCHANGED hostVars, SendCSW
  PROVE  DataInv'
<1> DEFINE sent == Tx(usb, CswBuffer, CSW_SIZE)
<1>1. /\ configured /\ MSD_State = "SEND_CSW" /\ ~NextHandleBusy(usb.in) /\ MSD_State' = "WAIT"
      /\ usb' = (IF OutBusy THEN sent ELSE Rx(sent, CbwBuffer))
      /\ UNCHANGED <<MSDHostNoData, gblCBW, msd_csw, TransferLength, LBA, MSDRetryAttempt, sense,
                     msd_cbw, msd_buffer, ptrNextData, store, isReadOnly>>
      /\ usb \in Pair
  BY DEF SendCSW, Tasks, controlVars, lengthVars, bufferVars, mediaVars, IndInv, Types
<1>2. UNCHANGED <<host, cmd, moved, intact, aborts>>
  BY DEF hostVars
<1>3. Values
  BY DEF DataInv
<1>4. InIdle(usb) \/ InData(usb)
  <2>1. InIdle(usb) \/ InData(usb) \/ InStalled(usb)
    BY <1>1 DEF ControlInv, Coupled, WhileReporting
  <2> QED BY <1>1, <2>1, InBusyShape
<1>5. /\ CswBuffer \in SieBuffers /\ CbwBuffer \in SieBuffers
      /\ CswBuffer \in Buffers /\ CbwBuffer \in Buffers
      /\ CSW_SIZE \in Nat
  BY BuffersOfDrive, SizesAssumption DEF SieBuffers
<1>6. /\ sent \in Pair /\ Carries(sent) /\ sent.out = usb.out /\ sent.outHandle = usb.outHandle
      /\ InIdle(usb) => InCsw(sent)
      /\ InData(usb) => InDataCsw(sent) /\ Active(sent.in) = Active(usb.in)
  BY <1>1, <1>3, <1>5, TxArms DEF Values
<1> HIDE DEF sent
<1>7. /\ usb' \in Pair /\ Carries(usb') /\ usb'.in = sent.in /\ usb'.inHandle = sent.inHandle
      /\ ~Fresh'
  <2>1. CASE OutBusy
    BY <1>1, <1>6, <2>1 DEF OutBusy, Fresh
  <2>2. CASE ~OutBusy
    <3>1. OutIdle(usb)
      BY <1>1, <2>2, BusyShape DEF ControlInv, Coupled, WhileReporting
    <3>2. usb' = Rx(sent, CbwBuffer) /\ Idle(sent.out)
      BY <1>1, <1>6, <2>2, <3>1 DEF OutIdle
    <3>3. usb' \in Pair /\ Carries(usb') /\ usb'.in = sent.in /\ usb'.inHandle = sent.inHandle
          /\ OutArmed(usb')
      BY <1>5, <1>6, <3>2, RxArms
    <3> QED BY <3>3, OutBusyShape DEF OutBusy, Fresh
  <2> QED BY <2>1, <2>2
<1>8. /\ InCsw(usb') = InCsw(sent) /\ InDataCsw(usb') = InDataCsw(sent)
      /\ InData(usb') = InData(sent)
  BY <1>7, InKept
<1>9. Values'
  BY <1>1, <1>2, <1>3, <1>7 DEF Values
<1>10. Counts'
  BY <1>2 DEF DataInv, Counts
<1>11. ~Serving' /\ Reporting' /\ Reporting
  BY <1>1, <1>4, <1>6, <1>8 DEF Serving, Reporting, CswOut
<1>12. CASE InIdle(usb)
  <2>1. InCsw(usb') /\ ~InData(usb') /\ ~InDataCsw(usb') /\ ~InData(usb) /\ ~InDataCsw(usb)
    <3>1. InCsw(usb')
      BY <1>6, <1>8, <1>12
    <3>2. ~InData(usb) /\ ~InDataCsw(usb)
      BY <1>1, <1>12, ActiveShape
    <3> QED BY <3>1, <3>2 DEF InCsw, InData, InDataCsw
  <2>2. InFlight' = InFlight /\ (HostWaits' = HostWaits)
    BY <1>2, <2>1 DEF InFlight, HostWaits
  <2> QED BY <1>1, <1>2, <1>7, <1>9, <1>10, <1>11, <2>1, <2>2, OnTheWayData
<1>13. CASE InData(usb)
  <2>1. InDataCsw(usb') /\ Active(usb'.in) = Active(usb.in)
    BY <1>6, <1>7, <1>8, <1>13
  <2>2. InFlight' = InFlight /\ (HostWaits' = HostWaits)
    BY <1>2, <1>13, <2>1 DEF InFlight, HostWaits
  <2> QED BY <1>1, <1>2, <1>7, <1>9, <1>10, <1>11, <1>13, <2>1, <2>2, OnTheWayData
<1> QED BY <1>4, <1>12, <1>13

LEMMA MSDTasksData ==
  ASSUME IndInv, ControlInv, DataInv, UNCHANGED hostVars, MSDTasks
  PROVE  DataInv'
BY AcceptCBWData, RejectCBWData, SendCSWData, CommandsData, PrepareResponseData, SendResponseData,
   ReadsData, WritesData
   DEF MSDTasks

----------------------------------------------------------------------------
(* Requests on endpoint 0.                                                  *)

\* A request leaves the values of the command alone.
LEMMA RequestValues ==
  ASSUME DataInv, UNCHANGED hostVars, Carries(usb'),
         UNCHANGED <<gblCBW, msd_csw, lengthVars, bufferVars, mediaVars>>,
         MSDHostNoData' \in BOOLEAN, sense' \in SenseKeys
  PROVE  /\ Values' /\ Counts'
         /\ UNCHANGED <<host, cmd, moved, intact, gblCBW, msd_csw, msd_buffer, store, msd_cbw>>
<1>1. /\ UNCHANGED <<host, cmd, moved, intact, aborts, gblCBW, msd_csw, msd_buffer, store, msd_cbw,
                     TransferLength, LBA, MSDRetryAttempt, ptrNextData, isReadOnly>>
  BY DEF hostVars, lengthVars, bufferVars, mediaVars
<1> QED BY <1>1 DEF DataInv, Values, Counts

\* IN is left alone, and no command is being worked on.
LEMMA SameInData ==
  ASSUME DataInv, configured, UNCHANGED <<gblCBW, msd_csw, msd_buffer, store, host, cmd, moved, intact>>,
         Values', Counts', ~Serving', ~Fresh', Reporting' => Reporting,
         ~HostWaits \/ ((Reporting => Reporting') /\ ~Serving),
         usb'.in = usb.in, usb'.inHandle = usb.inHandle
  PROVE  DataInv'
<1>1. InData(usb') = InData(usb) /\ InDataCsw(usb') = InDataCsw(usb)
  BY InKept
<1>2. InFlight' = InFlight /\ (HostWaits' = HostWaits)
  BY <1>1 DEF InFlight, HostWaits
<1>3. HostWaits => (InData(usb) \/ InDataCsw(usb) => Reporting \/ Serving)
  BY DEF DataInv, InCommand, WhileHostWaits
<1> QED BY <1>1, <1>2, <1>3, OnTheWayData

\* At rest there is no CBW to be taken.
LEMMA QuietShape ==
  ASSUME ControlInv, configured,
         host \in {"ready", "clear out"} \/ (host = "clear in" /\ setup # "MSD_RESET")
  PROVE  MSD_State = "WAIT" /\ ~Fresh
BY DEF ControlInv, Coupled, WithHost, Quiet, Fresh

LEMMA MassStorageResetData ==
  ASSUME IndInv, ControlInv, DataInv, UNCHANGED hostVars, MassStorageReset, ~Fresh'
  PROVE  DataInv'
<1>1. /\ setup = "MSD_RESET" /\ setup' = "none" /\ configured' = configured /\ MSD_State' = "WAIT"
      /\ usb' = IF NextHandleBusy(usb.out) THEN usb ELSE Rx(usb, CbwBuffer)
      /\ UNCHANGED <<MSDHostNoData, gblCBW, msd_csw, lengthVars, sense, bufferVars, mediaVars>>
      /\ usb \in Pair
  BY DEF MassStorageReset, IdleMachines, IndInv, Types
<1>2. host = "clear in" /\ configured
  BY <1>1 DEF ControlInv, ControlTypes, Requests
<1>3. /\ usb' \in Pair /\ usb'.in = usb.in /\ usb'.inHandle = usb.inHandle /\ Carries(usb')
  <2>1. CbwBuffer \in Buffers /\ CbwBuffer \in SieBuffers /\ Carries(usb)
    BY BuffersOfDrive DEF SieBuffers, DataInv, Values
  <2> QED BY <1>1, <2>1, RxArms
<1>4. Values /\ MSDHostNoData \in BOOLEAN /\ sense \in SenseKeys
  BY DEF DataInv, Values
<1>5. /\ Values' /\ Counts'
      /\ UNCHANGED <<host, cmd, moved, intact, gblCBW, msd_csw, msd_buffer, store>>
  BY <1>1, <1>3, <1>4, RequestValues
<1>7. InCsw(usb') = InCsw(usb) /\ InDataCsw(usb') = InDataCsw(usb)
  BY <1>3, InKept
<1>8. Reporting' => Reporting
  <2>1. Serving => ~CswOut
    <3> SUFFICES ASSUME Serving PROVE ~CswOut
      OBVIOUS
    <3>1. InIdle(usb) \/ InData(usb)
      BY <1>2, ServingAtWork
    <3>2. InIdle(usb) => ~CswOut
      BY <1>1, ActiveShape DEF CswOut
    <3>3. InData(usb) => ~CswOut
      BY <1>1, InBusyShape DEF CswOut, InData, InCsw
    <3> QED BY <3>1, <3>2, <3>3
  <2>2. MSD_State \in MsdStates
    BY DEF ControlInv, ControlTypes
  <2> QED BY <1>1, <1>7, <2>1, <2>2 DEF Reporting, CswOut, Serving, MsdStates
<1>9. ~Serving' /\ ~HostWaits
  BY <1>1, <1>2 DEF Serving, HostWaits
<1> QED BY <1>2, <1>3, <1>5, <1>8, <1>9, SameInData

LEMMA SetHaltData ==
  ASSUME IndInv, ControlInv, DataInv, UNCHANGED hostVars, SetHaltIn \/ SetHaltOut, ~Fresh'
  PROVE  DataInv'
<1>1. PICK d \in Directions :
        /\ SetHalt(d) /\ setup' = "none"
        /\ setup = IF d = "in" THEN "SET_HALT_IN" ELSE "SET_HALT_OUT"
  BY DEF SetHaltIn, SetHaltOut, Directions
<1>2. /\ configured /\ UNCHANGED <<configured, MSDCBWValid, MSDHostNoData, machineVars, gblCBW, msd_csw,
                     lengthVars, sense, bufferVars, mediaVars>>
      /\ usb \in Pair
  BY <1>1 DEF SetHalt, IndInv, Types
<1>3. host = IF d = "in" THEN "clear in" ELSE "clear out"
  BY <1>1 DEF ControlInv, Requests, Directions
<1>4. Quiet /\ (InIdle(usb) \/ ~MSDCBWValid)
  BY <1>1, <1>2, <1>3 DEF ControlInv, Coupled, WithHost, Directions
<1>6. InIdle(usb) \/ InStalled(usb)
  BY <1>2, <1>4, LockedShape DEF ControlInv, ControlTypes
<1>7. /\ usb' \in Pair /\ usb'.inHandle = usb.inHandle
      /\ Carries(usb) => Carries(usb')
      /\ \A b \in Directions \ {d} : usb'[b] = usb[b]
      /\ AllStalled(usb[d]) => AllStalled(usb'[d])
      /\ Idle(usb[d]) => Halted(usb'[d])
  BY <1>1, <1>2, SetHaltHalts
<1>8. InIdle(usb') \/ InStalled(usb') \/ InHalted(usb')
  <2>1. CASE d = "in"
    BY <1>2, <1>6, <1>7, <2>1, PairShape DEF InIdle, InStalled, InHalted
  <2>2. CASE d # "in"
    <3>1. usb'.in = usb.in
      BY <1>2, <1>7, <2>2, PairShape DEF Directions
    <3> QED BY <1>6, <1>7, <3>1, InKept
  <2> QED BY <2>1, <2>2
<1>9. MSD_State' = "WAIT"
  BY <1>2, <1>4 DEF Quiet, machineVars
<1>10. Values'
  <2>1. Carries(usb) /\ MSDHostNoData \in BOOLEAN /\ sense \in SenseKeys
    BY DEF DataInv, Values
  <2> QED BY <1>2, <1>7, <2>1, RequestValues
<1> QED BY <1>7, <1>8, <1>9, <1>10, AtRestData

LEMMA ConfigurationData ==
  ASSUME IndInv, ControlInv, DataInv, UNCHANGED hostVars, BusReset \/ SetConfiguration
  PROVE  DataInv'
<1>1. /\ usb \in Pair /\ Carries(usb) /\ MSDHostNoData \in BOOLEAN /\ sense \in SenseKeys
  BY DEF IndInv, Types, DataInv, Values
<1>2. CASE BusReset
  <2>1. /\ configured' = FALSE /\ usb' = ClearedPair(usb)
        /\ UNCHANGED <<MSDHostNoData, gblCBW, msd_csw, lengthVars, sense, bufferVars, mediaVars>>
    BY <1>2 DEF BusReset
  <2>2. Carries(usb')
    <3> DEFINE e == USBConfigureEndpoint
    <3>1. usb'["in"] = e /\ usb'["out"] = e
      BY <1>1, <2>1 DEF ClearedPair, Pair
    <3>2. \A i \in Entries : e.entry[i].data = NoBuffer /\ e.entry[i].cnt = 0
      BY DEF USBConfigureEndpoint
    <3> HIDE DEF e
    <3> QED BY <3>1, <3>2 DEF Carries, Directions, SieBuffers
  <2>3. Values' /\ Counts'
    BY <1>1, <2>1, <2>2, RequestValues
  <2> QED BY <2>1, <2>3 DEF DataInv
<1>3. CASE SetConfiguration
  <2>1. /\ MSD_State' = "WAIT" /\ usb' = APP_DeviceMSDInitialize(ClearedPair(usb))
        /\ MSDHostNoData' = FALSE /\ sense' = ResetSenseData
        /\ UNCHANGED <<gblCBW, msd_csw, lengthVars, bufferVars, mediaVars>>
    BY <1>3 DEF SetConfiguration, IdleMachines
  <2>2. usb' \in Pair /\ InIdle(usb') /\ OutArmed(usb') /\ Carries(usb')
    BY <1>1, <2>1, ConfigurationShape
  <2>3. ~Fresh'
    BY <2>2, OutBusyShape DEF OutBusy, Fresh
  <2>4. Values'
    BY <2>1, <2>2, RequestValues DEF SenseKeys, ResetSenseData
  <2> QED BY <2>1, <2>2, <2>3, <2>4, AtRestData
<1> QED BY <1>2, <1>3

LEMMA ClearHaltInData ==
  ASSUME IndInv, ControlInv, DataInv, UNCHANGED hostVars, ClearHaltIn, MSDCBWValid
  PROVE  DataInv'
<1>1. /\ configured /\ UNCHANGED <<MSDHostNoData, machineVars, gblCBW, msd_csw, lengthVars, sense,
                                   bufferVars, mediaVars>>
      /\ usb \in Pair /\ Carries(usb) /\ MSDHostNoData \in BOOLEAN /\ sense \in SenseKeys
      /\ setup = "CLEAR_HALT_IN" /\ ClearHalt("in") /\ Coupled
      /\ MSD_State \in MsdStates
  BY DEF ClearHaltIn, ClearHalt, IndInv, Types, DataInv, Values, ControlInv, ControlTypes
<1>2. /\ usb' \in Pair /\ InIdle(usb') /\ usb'.out = usb.out /\ usb'.outHandle = usb.outHandle
      /\ Carries(usb')
  BY <1>1, ClearHaltClears DEF Directions
<1>3. /\ Values' /\ Counts'
      /\ UNCHANGED <<host, cmd, moved, intact, gblCBW, msd_csw, msd_buffer, store, msd_cbw>>
  BY <1>1, <1>2, RequestValues
<1>4. MSD_State' = MSD_State
  BY <1>1 DEF machineVars
<1>5. /\ OutBusy' = OutBusy
      /\ ~InData(usb') /\ ~InCsw(usb') /\ ~InDataCsw(usb')
  BY <1>2, OutKept, ActiveShape DEF OutBusy
<1>6. /\ host # "clear out" => InStalled(usb)
      /\ host = "clear out" => Quiet
  BY <1>1 DEF Coupled, WithHost
<1>7. CASE MSD_State = "WAIT"
  <2>1. ~Fresh
    <3>1. CASE host # "clear out"
      <4>1. ~InIdle(usb)
        BY <1>1, <1>6, <3>1, ActiveShape
      <4> QED BY <1>1, <1>7, <4>1 DEF Coupled, WhileWaiting, Fresh
    <3>2. CASE host = "clear out"
      BY <1>6, <3>2 DEF Quiet, Fresh
    <3> QED BY <3>1, <3>2
  <2>2. ~Fresh'
    BY <1>3, <1>4, <1>5, <2>1 DEF Fresh
  <2> QED BY <1>2, <1>3, <1>4, <1>7, <2>2, AtRestData
<1>8. CASE MSD_State # "WAIT"
  <2>1. InStalled(usb)
    BY <1>6, <1>8 DEF Quiet
  <2>2. ~InData(usb) /\ ~InDataCsw(usb) /\ ~InIdle(usb)
    BY <1>1, <2>1, ActiveShape
  <2>3. ~Serving
    BY <1>1, <2>2, ServingAtWork
  <2>4. ~Serving' /\ ~Fresh' /\ (Reporting' => Reporting)
    BY <1>1, <1>4, <1>8, <2>3 DEF Serving, Fresh, Reporting, MsdStates
  <2>5. HostWaits' = HostWaits /\ InFlight' = InFlight
    BY <1>3, <1>5, <2>2 DEF HostWaits, InFlight
  <2> QED BY <1>1, <1>3, <1>5, <2>4, <2>5, OnTheWayData
<1> QED BY <1>7, <1>8

LEMMA ClearHaltOutData ==
  ASSUME IndInv, ControlInv, DataInv, UNCHANGED hostVars, ClearHaltOut, MSDCBWValid
  PROVE  DataInv'
<1>1. /\ configured /\ UNCHANGED <<MSDHostNoData, machineVars, gblCBW, msd_csw, lengthVars, sense,
                                   bufferVars, mediaVars>>
      /\ usb \in Pair /\ Carries(usb) /\ MSDHostNoData \in BOOLEAN /\ sense \in SenseKeys
      /\ setup = "CLEAR_HALT_OUT" /\ ClearHalt("out") /\ Coupled
      /\ host \in {"status", "ready"}
  BY DEF ClearHaltOut, ClearHalt, IndInv, Types, DataInv, Values, ControlInv, Requests
<1>2. /\ usb' \in Pair /\ usb'.in = usb.in /\ usb'.inHandle = usb.inHandle /\ Carries(usb')
      /\ Active(usb.out).own # "cpu" => OutArmed(usb')
  BY <1>1, ClearHaltClears DEF Directions
<1>3. /\ Values' /\ Counts'
      /\ UNCHANGED <<host, cmd, moved, intact, gblCBW, msd_csw, msd_buffer, store, msd_cbw>>
  BY <1>1, <1>2, RequestValues
<1>4. MSD_State' = MSD_State
  BY <1>1 DEF machineVars
<1>5. InCsw(usb') = InCsw(usb) /\ InDataCsw(usb') = InDataCsw(usb)
  BY <1>2, InKept
<1>6. Reporting' = Reporting
  BY <1>4, <1>5 DEF Reporting, CswOut
<1>7. /\ host = "status" => OutStalled(usb)
      /\ host = "ready" => Quiet
  BY <1>1 DEF Coupled, WithHost
<1>8. ~Serving
  <2>1. CASE host = "ready"
    BY <1>7, <2>1 DEF Quiet, Serving
  <2>2. CASE host = "status"
    BY <1>1, <1>7, <2>2, ServingAtWork, ActiveShape DEF OutAt
  <2> QED BY <1>1, <2>1, <2>2
<1>9. ~Fresh'
  <2>1. CASE Active(usb.out).own # "cpu"
    <3>1. OutBusy'
      BY <1>2, <2>1, OutBusyShape DEF OutBusy
    <3> QED BY <3>1 DEF Fresh
  <2>2. CASE Active(usb.out).own = "cpu"
    <3>1. host = "ready" /\ Quiet
      BY <1>1, <1>7, <2>2, ActiveShape
    <3>2. OutIdle(usb)
      BY <1>1, <2>2, <3>1, ActiveShape DEF Coupled, WhileWaiting, Quiet, OutAt
    <3>3. msd_cbw.form = "invalid"
      BY <1>1, <3>1, <3>2, BusyShape DEF Quiet
    <3> QED BY <1>3, <3>3 DEF Fresh
  <2> QED BY <2>1, <2>2
<1>10. ~Serving'
  BY <1>4, <1>8 DEF Serving
<1> QED BY <1>1, <1>2, <1>3, <1>6, <1>8, <1>9, <1>10, SameInData

LEMMA ClearHaltData ==
  ASSUME IndInv, ControlInv, DataInv, UNCHANGED hostVars, ClearHaltIn \/ ClearHaltOut
  PROVE  DataInv'
<1>1. CASE MSDCBWValid
  BY <1>1, ClearHaltInData, ClearHaltOutData
<1>2. CASE ~MSDCBWValid
  <2>1. PICK d \in Directions : ClearHalt(d)
    BY DEF ClearHaltIn, ClearHaltOut, Directions
  <2>2. /\ configured /\ UNCHANGED <<MSDHostNoData, machineVars, gblCBW, msd_csw, lengthVars, sense,
                                     bufferVars, mediaVars>>
        /\ usb \in Pair /\ Carries(usb) /\ MSDHostNoData \in BOOLEAN /\ sense \in SenseKeys
    BY <2>1 DEF ClearHalt, IndInv, Types, DataInv, Values
  <2>3. MSD_State = "WAIT" /\ InStalled(usb) /\ OutStalled(usb)
    BY <1>2, <2>2, LockedShape
  <2>4. usb' \in Pair /\ InStalled(usb') /\ OutStalled(usb') /\ Carries(usb')
    BY <1>2, <2>1, <2>2, <2>3, ClearHaltClears
  <2>5. Values'
    BY <2>2, <2>4, RequestValues
  <2>6. OutBusy'
    BY <2>4, OutBusyShape DEF OutBusy
  <2>7. MSD_State' = "WAIT" /\ ~Fresh'
    BY <2>2, <2>3, <2>6 DEF machineVars, Fresh
  <2> QED BY <2>4, <2>5, <2>7, AtRestData
<1> QED BY <1>1, <1>2

LEMMA USBDeviceTasksData ==
  ASSUME IndInv, ControlInv, DataInv, UNCHANGED hostVars, USBDeviceTasks
  PROVE  DataInv'
<1>1. (ControlInv /\ configured
        /\ (host \in {"ready", "clear out"} \/ (host = "clear in" /\ setup # "MSD_RESET"))
        => MSD_State = "WAIT" /\ ~Fresh)'
  BY QuietShape, PTL
<1>2. ControlInv'
  BY USBDeviceTasksControl
<1>3. CASE MassStorageReset
  <2>1. host = "clear in" /\ configured
    BY <1>3 DEF MassStorageReset, ControlInv, ControlTypes, Requests
  <2>2. host' = "clear in" /\ setup' = "none" /\ configured'
    BY <1>3, <2>1 DEF MassStorageReset, hostVars
  <2> QED BY <1>1, <1>2, <1>3, <2>2, MassStorageResetData
<1>4. CASE SetHaltIn \/ SetHaltOut
  <2>1. host \in {"clear in", "clear out"} /\ setup' = "none" /\ configured'
    BY <1>4 DEF SetHaltIn, SetHaltOut, SetHalt, ControlInv, Requests
  <2>2. host' \in {"clear in", "clear out"}
    BY <2>1 DEF hostVars
  <2> QED BY <1>1, <1>2, <1>4, <2>1, <2>2, SetHaltData
<1> QED BY <1>3, <1>4, ClearHaltData, ConfigurationData DEF USBDeviceTasks

----------------------------------------------------------------------------
(* The host.                                                                *)

\* What the drive knows of the command does not change while it does nothing but hand over a
\* packet; some of it also says how much has moved.
LEMMA DriveKeeps ==
  ASSUME UNCHANGED <<machineVars, gblCBW, msd_csw, lengthVars, MSDHostNoData, ptrNextData, store, cmd>>
  PROVE  /\ Served' = Served /\ Started' = Started /\ Serving' = Serving /\ Answering' = Answering
         /\ Done' = Done /\ (\A s : Stored(s)' = Stored(s))
         /\ WhenStarted /\ moved' = moved => WhenStarted'
         /\ WhenResponding /\ msd_buffer' = msd_buffer => WhenResponding'
         /\ WhenReading /\ msd_buffer' = msd_buffer => WhenReading'
         /\ WhenReporting /\ moved' = moved => WhenReporting'
<1>1. UNCHANGED <<MSD_State, MSDCommandState, MSDReadState, MSDWriteState, gblCBW, msd_csw,
                  TransferLength, LBA, MSDHostNoData, ptrNextData, store, cmd>>
  BY DEF machineVars, lengthVars
<1>2. /\ Served' = Served /\ Started' = Started /\ Serving' = Serving /\ Answering' = Answering
      /\ Done' = Done /\ Offered' = Offered
  BY <1>1 DEF Served, Started, Serving, Answering, Done, Offered
<1>3. \A s : Stored(s)' = Stored(s)
  BY <1>1 DEF Stored, SectorOf, Written
<1>4. WhenStarted /\ moved' = moved => WhenStarted'
  BY <1>1 DEF WhenStarted
<1>5. WhenResponding /\ msd_buffer' = msd_buffer => WhenResponding'
  BY <1>1, <1>2 DEF WhenResponding
<1>6. WhenReading /\ msd_buffer' = msd_buffer => WhenReading'
  BY <1>1, <1>2 DEF WhenReading, ReadAt
<1>7. WhenReporting /\ moved' = moved => WhenReporting'
  <2>1. Stored(cmd.lba + cmd.count)' = Stored(cmd.lba + cmd.count)
    BY <1>1 DEF Stored, SectorOf, Written
  <2> QED BY <1>1, <1>2, <2>1 DEF WhenReporting
<1> QED BY <1>2, <1>3, <1>4, <1>5, <1>6, <1>7

\* OUT and the sector buffer as they were too: the place of a write.
LEMMA WriteKept ==
  ASSUME UNCHANGED <<machineVars, gblCBW, msd_csw, lengthVars, ptrNextData, store, cmd, moved,
                     msd_buffer>>,
         usb'.out = usb.out, usb'.outHandle = usb.outHandle, WhenWriting
  PROVE  WhenWriting'
<1>1. UNCHANGED <<MSDWriteState, gblCBW, msd_csw, TransferLength, LBA, ptrNextData, store, cmd,
                  msd_buffer, moved>>
  BY DEF machineVars, lengthVars
<1>2. Done' = Done /\ Stored(LBA)' = Stored(LBA)
  BY <1>1 DEF Done, Stored, SectorOf, Written
<1>3. Arrived' = Arrived
  BY <1>1, OutKept DEF Arrived
<1>4. WithinSector(Arrived) => WithinSector(Arrived)'
  BY <1>1, <1>2, <1>3 DEF WithinSector, Written
<1> QED BY <1>1, <1>2, <1>3, <1>4 DEF WhenWriting

\* The values with another place of the host in its command.
LEMMA HostValues ==
  ASSUME Values, UNCHANGED <<gblCBW, msd_cbw, cmd, msd_csw, MSDHostNoData, lengthVars, ptrNextData,
                             sense, msd_buffer, store>>,
         Carries(usb'), isReadOnly' \in BOOLEAN, intact' \in BOOLEAN, moved' \in Nat,
         aborts' \in 0 .. MaxAborts
  PROVE  Values'
BY DEF Values, lengthVars

\* The host goes on, back or away without moving a byte.
LEMMA HostTurns ==
  ASSUME DataInv,
         UNCHANGED <<usb, configured, MSDHostNoData, machineVars, gblCBW, msd_csw, lengthVars, sense,
                     bufferVars, store, cmd, moved, intact>>,
         isReadOnly' \in BOOLEAN, aborts' \in 0 .. MaxAborts,
         HostWaits' => HostWaits, host' = "data" => host = "data"
  PROVE  DataInv'
<1>1. /\ UNCHANGED <<MSD_State, MSDCommandState, MSDReadState, MSDWriteState, msd_cbw, msd_buffer,
                     ptrNextData>>
      /\ Values /\ moved \in Nat /\ intact \in BOOLEAN
  BY DEF machineVars, bufferVars, DataInv, Values
<1>2. Carries(usb')
  BY <1>1 DEF Values, Carries
<1>3. Values'
  BY <1>1, <1>2, HostValues
<1>4. Counts'
  BY DEF DataInv, Counts
<1>5. /\ (Reporting' = Reporting) /\ (Fresh' = Fresh) /\ InFlight' = InFlight
      /\ Expected(moved)' = Expected(moved)
  <2>1. (CswOut' = CswOut) /\ InFlight' = InFlight
    BY DEF CswOut, InFlight
  <2>2. OutBusy' = OutBusy
    BY DEF OutBusy
  <2>3. Expected(moved)' = Expected(moved)
    BY DEF Expected
  <2> QED BY <1>1, <2>1, <2>2, <2>3 DEF Reporting, Fresh
<1>6. WhenWriting => WhenWriting'
  BY <1>1, WriteKept
<1>7. /\ (Served' = Served) /\ (Started' = Started) /\ (Serving' = Serving)
      /\ (Answering' = Answering)
      /\ WhenStarted => WhenStarted'
      /\ WhenResponding => WhenResponding'
      /\ WhenReading => WhenReading'
      /\ WhenReporting => WhenReporting'
  BY <1>1, DriveKeeps
<1>8. WhileHostWaits => WhileHostWaits'
  BY <1>1, <1>5, <1>7 DEF WhileHostWaits
<1>9. InCommand => InCommand'
  BY <1>1, <1>5, <1>6, <1>7, <1>8 DEF InCommand
<1> QED BY <1>3, <1>4, <1>9 DEF DataInv

LEMMA TurnsData ==
  ASSUME DataInv,
         \/ StallInData \/ StallInStatus \/ GiveUp \/ RecoverReset \/ RecoverClear \/ Timeout
         \/ HaltEndpoint \/ ResetBus \/ Configure \/ (SetReadOnly /\ UNCHANGED hostVars)
         \/ UNCHANGED vars
  PROVE  DataInv'
<1>1. aborts \in 0 .. MaxAborts /\ isReadOnly \in BOOLEAN /\ MaxAborts \in Nat
  BY HostAssumption DEF DataInv, Values
<1>2. /\ UNCHANGED <<usb, configured, MSDHostNoData, machineVars, gblCBW, msd_csw, lengthVars, sense,
                     bufferVars, store, cmd, moved, intact>>
      /\ isReadOnly' \in BOOLEAN
  BY <1>1 DEF StallInData, StallInStatus, GiveUp, RecoverReset, RecoverClear, Timeout, HaltEndpoint,
     ResetBus, Configure, SetReadOnly, Request, RequestClearHalt, deviceVars, controlVars, mediaVars,
     hostVars, vars
<1>3. aborts' \in 0 .. MaxAborts
  <2>1. aborts' = aborts \/ (aborts < MaxAborts /\ aborts' = aborts + 1)
    BY Zenon DEF StallInData, StallInStatus, GiveUp, RecoverReset, RecoverClear, Timeout, HaltEndpoint,
       ResetBus, Configure, hostVars, vars
  <2> QED BY <1>1, <2>1
<1>4. (HostWaits' => HostWaits) /\ (host' = "data" => host = "data")
  BY DEF StallInData, StallInStatus, GiveUp, RecoverReset, RecoverClear, Timeout, HaltEndpoint,
     ResetBus, Configure, hostVars, vars, HostWaits
<1> QED BY <1>2, <1>3, <1>4, HostTurns

\* A packet moves: the table of the SIE holds the same buffers, and the count of the packet.
LEMMA CompleteCarries ==
  ASSUME usb \in Pair, Carries(usb), usb' \in Pair, NEW cnt \in Nat,
         \/ usb'.out = Complete(usb.out, cnt) /\ usb'.in = usb.in
         \/ usb'.in = Complete(usb.in, cnt) /\ usb'.out = usb.out
  PROVE  Carries(usb')
<1>1. /\ usb.in \in Endpoint /\ usb.out \in Endpoint /\ usb["in"] = usb.in /\ usb["out"] = usb.out
      /\ usb'["in"] = usb'.in /\ usb'["out"] = usb'.out /\ cnt \in Int
  BY PairShape
<1>2. \A e \in Endpoint : \A i \in Entries :
        /\ Complete(e, cnt).entry[i].data = e.entry[i].data
        /\ Complete(e, cnt).entry[i].cnt \in {cnt, e.entry[i].cnt}
  BY <1>1, CompleteFrees
<1>3. \A i \in Entries : /\ usb.in.entry[i].data \in SieBuffers /\ usb.in.entry[i].cnt \in Nat
                         /\ usb.out.entry[i].data \in SieBuffers /\ usb.out.entry[i].cnt \in Nat
  BY <1>1 DEF Carries, Directions
<1>4. \A i \in Entries : /\ usb'.in.entry[i].data \in SieBuffers /\ usb'.in.entry[i].cnt \in Nat
                         /\ usb'.out.entry[i].data \in SieBuffers /\ usb'.out.entry[i].cnt \in Nat
  BY <1>1, <1>2, <1>3
<1> QED BY <1>1, <1>4 DEF Carries, Directions

\* The packets that the host may write are there in the data, whatever it has announced.
LEMMA HostMayWrite ==
  ASSUME NEW c \in Commands, NEW t \in Tags, NEW p \in Nat, p * EP_SIZE < c.length
  PROVE  <<t, p>> \in Data
<1>1. c.length \in Nat /\ EP_SIZE \in Nat \ {0}
  BY HostAssumption, SizesAssumption DEF CBW
<1>2. \A a \in Nat, b \in Nat \ {0} : a * b >= a
  OBVIOUS
<1>3. p * EP_SIZE >= p /\ p * EP_SIZE \in Nat
  BY <1>1, <1>2
<1>4. p \in 0 .. c.length
  BY <1>1, <1>3
<1> QED BY <1>4, DataAssumption

LEMMA SendCBWData ==
  ASSUME IndInv, ControlInv, DataInv, SendCBW
  PROVE  DataInv'
<1>1. PICK c \in Commands, t \in Tags :
        /\ cmd' = [c EXCEPT !.tag = t] /\ Send([c EXCEPT !.tag = t], Zeros, CBW_SIZE)
        /\ host' = IF [c EXCEPT !.tag = t].length = 0 THEN "status" ELSE "data"
        /\ moved' = 0 /\ intact' = TRUE /\ aborts' = aborts
  BY DEF SendCBW
<1>2. /\ cmd' \in CBW /\ cmd'.tag = t /\ cmd'.length = c.length /\ cmd'.length \in Nat
  BY <1>1, HostAssumption DEF CBW
<1>3. /\ configured /\ MSD_State = "WAIT" /\ InIdle(usb) /\ InIdle(usb') /\ usb \in Pair
      /\ usb' \in Pair /\ msd_cbw' = cmd' /\ Active(usb.out).data = CbwBuffer
      /\ usb'.in = usb.in /\ usb'.out = Complete(usb.out, CBW_SIZE)
      /\ UNCHANGED <<controlVars, machineVars>>
  BY SendCBWShape DEF OutAt
<1>4. UNCHANGED <<gblCBW, msd_csw, lengthVars, sense, ptrNextData, mediaVars, msd_buffer>>
  BY <1>1, <1>3 DEF Send
<1>5. Carries(usb')
  <2>1. CBW_SIZE \in Nat /\ Carries(usb)
    BY SizesAssumption DEF DataInv, Values
  <2> QED BY <1>3, <2>1, CompleteCarries
<1>6. \A p \in Nat : p * EP_SIZE < cmd'.length => <<cmd'.tag, p>> \in Data
  BY <1>2, HostMayWrite
<1>7. Values'
  BY <1>1, <1>2, <1>3, <1>4, <1>5, <1>6 DEF DataInv, Values, controlVars, lengthVars, mediaVars
<1>8. Counts'
  <2>1. moved' = 0 /\ cmd'.length \in Nat /\ (host' = "data" => cmd'.length # 0)
    BY <1>1, <1>2
  <2> QED BY <2>1 DEF Counts
<1>9. ~InData(usb') /\ ~InCsw(usb') /\ ~InDataCsw(usb')
  BY <1>3, ActiveShape
<1>10. ~Serving' /\ ~Reporting' /\ ~Started'
  BY <1>3, <1>9 DEF machineVars, Serving, Reporting, CswOut, Started
<1>11. WhileHostWaits'
  BY <1>1, <1>9, <1>10 DEF WhileHostWaits
<1>12. InCommand'
  BY <1>1, <1>10, <1>11 DEF InCommand
<1> QED BY <1>7, <1>8, <1>12 DEF DataInv

\* The packet that the host sends, counted in bytes and in packets.
LEMMA NextPacket ==
  ASSUME NEW m \in Nat, NEW l \in Nat, m < l
  PROVE  LET len == Least(EP_SIZE, l - m)
         IN /\ len \in Nat /\ m + len <= l /\ (l - m >= EP_SIZE => len = EP_SIZE)
            /\ m \div EP_SIZE \in Nat /\ (m \div EP_SIZE) * EP_SIZE < l
<1>1. EP_SIZE \in Nat \ {0}
  BY SizesAssumption
<1>2. \A a \in Nat, b \in Nat \ {0} : a \div b \in Nat /\ (a \div b) * b <= a
  OBVIOUS
<1>3. m \div EP_SIZE \in Nat /\ (m \div EP_SIZE) * EP_SIZE <= m
  BY <1>1, <1>2
<1>4. (m \div EP_SIZE) * EP_SIZE \in Nat
  BY <1>1, <1>3
<1>5. (m \div EP_SIZE) * EP_SIZE < l
  BY <1>3, <1>4
<1> QED BY <1>1, <1>3, <1>5 DEF Least

\* What holds of a packet of the host wherever it lands.
LEMMA SendDataMoves ==
  ASSUME IndInv, ControlInv, DataInv, SendData
  PROVE  LET len == Least(EP_SIZE, cmd.length - moved)
         IN /\ configured /\ setup = "none" /\ usb \in Pair /\ usb' \in Pair /\ Carries(usb')
            /\ ~cmd.in /\ moved \in Nat /\ cmd.length \in Nat /\ moved < cmd.length
            /\ moved' = moved + len /\ len \in Nat
            /\ (cmd.length - moved >= EP_SIZE => len = EP_SIZE)
            /\ Written(moved \div EP_SIZE) \in Data
            /\ HostWaits /\ Counts' /\ UNCHANGED <<cmd, intact, aborts>>
            /\ Send(NoCommand(cmd.tag), Written(moved \div EP_SIZE), len)
            /\ UNCHANGED <<gblCBW, msd_csw, lengthVars, sense, ptrNextData, mediaVars, configured,
                           machineVars, controlVars>>
<1> DEFINE len == Least(EP_SIZE, cmd.length - moved)
<1>1. /\ ~cmd.in /\ UNCHANGED <<cmd, intact, aborts>> /\ host = "data"
      /\ Send(NoCommand(cmd.tag), Written(moved \div EP_SIZE), len)
      /\ moved' = moved + len
      /\ host' = IF moved + len = cmd.length THEN "status" ELSE "data"
  BY DEF SendData
<1>2. /\ moved \in Nat /\ cmd.length \in Nat /\ moved < cmd.length
      /\ \A p \in Nat : p * EP_SIZE < cmd.length => <<cmd.tag, p>> \in Data
      /\ Carries(usb)
  BY <1>1 DEF DataInv, Values, Counts, CBW
<1>3. /\ len \in Nat /\ moved + len <= cmd.length
      /\ (cmd.length - moved >= EP_SIZE => len = EP_SIZE)
      /\ moved \div EP_SIZE \in Nat /\ (moved \div EP_SIZE) * EP_SIZE < cmd.length
  BY <1>2, NextPacket
<1>4. Written(moved \div EP_SIZE) \in Data
  BY <1>2, <1>3 DEF Written
<1>5. /\ configured /\ setup = "none" /\ usb \in Pair /\ usb' \in Pair
      /\ usb'.in = usb.in /\ usb'.out = Complete(usb.out, len)
  BY SendDataShape
<1> HIDE DEF len
<1>6. Carries(usb')
  BY <1>2, <1>3, <1>5, CompleteCarries
<1>7. HostWaits /\ Counts'
  BY <1>1, <1>2, <1>3 DEF HostWaits, Counts
<1>8. UNCHANGED <<gblCBW, msd_csw, lengthVars, sense, ptrNextData, mediaVars, configured,
                  machineVars, controlVars>>
  BY <1>1 DEF Send, controlVars
<1> QED BY <1>1, <1>2, <1>3, <1>4, <1>5, <1>6, <1>7, <1>8 DEF len

\* The drive has not asked for it: the packet takes the place of a CBW, and is none.
LEMMA SendPastData ==
  ASSUME IndInv, ControlInv, DataInv, SendData, ~Serving
  PROVE  DataInv'
<1> DEFINE len == Least(EP_SIZE, cmd.length - moved)
<1>1. /\ configured /\ usb \in Pair /\ usb' \in Pair /\ Carries(usb')
      /\ ~cmd.in /\ moved \in Nat /\ cmd.length \in Nat /\ moved < cmd.length
      /\ moved' = moved + len /\ len \in Nat /\ HostWaits /\ Counts'
      /\ UNCHANGED <<cmd, intact, aborts>>
      /\ Send(NoCommand(cmd.tag), Written(moved \div EP_SIZE), len)
      /\ UNCHANGED <<gblCBW, msd_csw, lengthVars, sense, ptrNextData, mediaVars, configured,
                     machineVars, controlVars>>
  BY SendDataMoves
<1>2. MSD_State \in {"WAIT", "SEND_CSW"}
  BY DEF ControlInv, ControlTypes, MsdStates, Serving
<1>3. /\ usb'.in = usb.in /\ usb'.inHandle = usb.inHandle /\ Active(usb.out).data = CbwBuffer
      /\ msd_cbw'.form = "invalid"
  BY <1>2, SendDataShape DEF OutAt
<1>4. msd_cbw' = NoCommand(cmd.tag) /\ msd_buffer' = msd_buffer
  BY <1>1, <1>3 DEF Send
<1>5. cmd \in CBW /\ intact \in BOOLEAN /\ isReadOnly \in BOOLEAN /\ aborts \in 0 .. MaxAborts
      /\ cmd.tag \in Tags
  BY DEF DataInv, Values, CBW
<1>6. msd_cbw' \in CBW
  BY <1>4, <1>5 DEF NoCommand, CBW, Operations
<1>7. Values'
  <2>1. moved' \in Nat
    BY <1>1
  <2> QED BY <1>1, <1>4, <1>6, <2>1 DEF DataInv, Values, lengthVars, mediaVars, controlVars
<1>8. /\ InData(usb') = InData(usb) /\ InCsw(usb') = InCsw(usb) /\ InDataCsw(usb') = InDataCsw(usb)
  BY <1>3, InKept
<1>9. UNCHANGED <<store, MSD_State, MSDHostNoData>>
  BY <1>1 DEF mediaVars, machineVars, controlVars
<1>10. /\ (Served' = Served) /\ (Started' = Started) /\ (Serving' = Serving)
       /\ (Answering' = Answering)
       /\ Stored(cmd.lba + cmd.count)' = Stored(cmd.lba + cmd.count)
  <2>1. Stored(cmd.lba + cmd.count)' = Stored(cmd.lba + cmd.count)
    BY <1>1, <1>9 DEF Stored, SectorOf, Written
  <2> QED BY <1>1, <1>9, <2>1, DriveKeeps
<1>11. ~Serving' /\ ~Started /\ ~Fresh' /\ (Reporting' = Reporting) /\ InFlight' = InFlight
  BY <1>3, <1>8, <1>9, <1>10 DEF Started, Fresh, Reporting, CswOut, InFlight
<1>12. WhenReporting /\ Reporting => WhenReporting'
  <2>1. Offered' = Offered
    BY <1>1 DEF Offered
  <2>2. moved # cmd.length
    BY <1>1
  <2> QED BY <1>1, <1>10, <2>1, <2>2 DEF WhenReporting
<1>13. WhileHostWaits => WhileHostWaits'
  BY <1>1, <1>4, <1>8, <1>10, <1>11, <1>3 DEF WhileHostWaits
<1>14. InCommand'
  BY <1>1, <1>10, <1>11, <1>12, <1>13 DEF DataInv, InCommand
<1> QED BY <1>1, <1>7, <1>14 DEF DataInv

\* The drive has asked for it: the packet is the next chunk of the sector.
LEMMA SendAskedData ==
  ASSUME IndInv, ControlInv, DataInv, SendData, Serving
  PROVE  DataInv'
<1> DEFINE len == Least(EP_SIZE, cmd.length - moved)
           chunk == Written(moved \div EP_SIZE)
<1>1. /\ configured /\ usb \in Pair /\ usb' \in Pair /\ Carries(usb')
      /\ ~cmd.in /\ moved \in Nat /\ cmd.length \in Nat /\ moved < cmd.length
      /\ moved' = moved + len /\ len \in Nat /\ HostWaits /\ Counts'
      /\ (cmd.length - moved >= EP_SIZE => len = EP_SIZE) /\ chunk \in Data
      /\ UNCHANGED <<cmd, intact, aborts>>
      /\ Send(NoCommand(cmd.tag), chunk, len)
      /\ UNCHANGED <<gblCBW, msd_csw, lengthVars, sense, ptrNextData, mediaVars, configured,
                     machineVars, controlVars>>
  BY SendDataMoves
<1>2. /\ OutAt(usb, DataBuffer(ptrNextData)) /\ MSDWriteState = "RX_PACKET"
      /\ msd_cbw' = msd_cbw /\ OutArmed(usb) /\ OutIdle(usb')
      /\ usb'.in = usb.in /\ usb'.inHandle = usb.inHandle
      /\ usb'.out = Complete(usb.out, len) /\ usb'.outHandle = usb.outHandle
  BY SendDataShape
<1>3. Writing({"RX_PACKET"})
  BY <1>1, <1>2, ServingAtWork DEF Writing, Tasks, Serving
<1>4. /\ MSDCommandState = "WRITE_10" /\ MSDReadState = "WAIT" /\ InIdle(usb)
      /\ cmd.op = "WRITE_10" /\ cmd.length = cmd.count * BLOCKLEN
      /\ TransferLength = cmd.count - Done /\ Done \in Nat /\ Done < cmd.count
      /\ ptrNextData \in 0 .. N /\ ptrNextData # N
      /\ msd_csw.residue = BLOCKLEN - ptrNextData * EP_SIZE
      /\ gblCBW.length = (TransferLength - 1) * BLOCKLEN + msd_csw.residue
      /\ (TransferLength - 1) * BLOCKLEN \in Nat
      /\ \A i \in Chunks : i < ptrNextData \/ (i = ptrNextData /\ Arrived)
                           => msd_buffer[i] = Written(Done * N + i)
      /\ moved = cmd.length - gblCBW.length + (IF Arrived THEN EP_SIZE ELSE 0)
  BY <1>1, <1>2, <1>3, InSector
<1>5. ptrNextData \in Chunks
  BY <1>4, Sizes
<1>6. ~Arrived /\ Arrived'
  <2>1. ~OutIdle(usb)
    BY <1>1, <1>2, ActiveShape
  <2> QED BY <1>1, <1>2, <2>1 DEF Arrived, machineVars
<1>7. /\ EP_SIZE \in Nat \ {0} /\ BLOCKLEN \in Nat \ {0} /\ N \in Nat \ {0}
      /\ ptrNextData * EP_SIZE \in Nat /\ ptrNextData * EP_SIZE + EP_SIZE <= BLOCKLEN
  <2>1. ptrNextData \in Int /\ ptrNextData < N /\ ptrNextData >= 0
    BY <1>4, Sizes
  <2> QED BY <2>1, PacketsOfSector, Sizes
<1>8. gblCBW.length \in Nat /\ cmd.count \in Nat
  BY <1>1, ServingData
<1>9. moved = Done * BLOCKLEN + ptrNextData * EP_SIZE
  <2>1. cmd.count - Done - 1 \in Int /\ TransferLength - 1 = cmd.count - Done - 1
    BY <1>4, <1>8
  <2>2. \A c, d, b \in Int : (c - d - 1) * b = c * b - d * b - b
    OBVIOUS
  <2>3. (TransferLength - 1) * BLOCKLEN = cmd.count * BLOCKLEN - Done * BLOCKLEN - BLOCKLEN
    <3>1. cmd.count \in Int /\ Done \in Int /\ BLOCKLEN \in Int
      BY <1>4, <1>7, <1>8
    <3> QED BY <2>1, <2>2, <3>1
  <2>4. cmd.count * BLOCKLEN \in Int /\ Done * BLOCKLEN \in Int
    BY <1>4, <1>7, <1>8
  <2>5. moved = cmd.length - gblCBW.length
    BY <1>4, <1>6, <1>8, <1>1
  <2> QED BY <1>1, <1>4, <1>7, <1>8, <2>3, <2>4, <2>5
<1>10. moved \div EP_SIZE = Done * N + ptrNextData
  BY <1>4, <1>5, <1>9, Place
<1>11. len = EP_SIZE
  <2>1. cmd.length - moved = gblCBW.length
    BY <1>1, <1>4, <1>6, <1>8
  <2>2. gblCBW.length >= EP_SIZE
    BY <1>4, <1>7, <1>8
  <2> QED BY <1>1, <2>1, <2>2
<1>12. msd_buffer \in [Chunks -> Data \cup {Answer, Zeros}]
  BY DEF DataInv, Values
<1>13. msd_buffer' = [msd_buffer EXCEPT ![ptrNextData] = chunk]
  <2>1. Active(usb.out).data = DataBuffer(ptrNextData) /\ DataBuffer(ptrNextData)[2] = ptrNextData
        /\ DataBuffer(ptrNextData) # CbwBuffer
    BY <1>2, ChunkPlace DEF OutAt, DataBuffer, CbwBuffer
  <2> QED BY <1>1, <2>1 DEF Send
<1>14. /\ msd_buffer' \in [Chunks -> Data \cup {Answer, Zeros}]
       /\ msd_buffer'[ptrNextData] = chunk
       /\ \A i \in Chunks : i # ptrNextData => msd_buffer'[i] = msd_buffer[i]
  BY <1>1, <1>5, <1>12, <1>13
<1>15. Values'
  <2>1. moved' \in Nat
    BY <1>1
  <2> QED BY <1>1, <1>2, <1>14, <2>1 DEF DataInv, Values, lengthVars, mediaVars, controlVars
<1>16. UNCHANGED <<store, MSD_State, MSDCommandState, MSDReadState, MSDWriteState, TransferLength,
                   LBA, MSDHostNoData>>
  BY <1>1 DEF mediaVars, machineVars, controlVars, lengthVars
<1>17. /\ (Served' = Served) /\ (Started' = Started) /\ (Serving' = Serving) /\ Done' = Done
       /\ Stored(LBA)' = Stored(LBA)
  <2>1. Stored(LBA)' = Stored(LBA)
    BY <1>1, <1>16 DEF Stored, SectorOf, Written
  <2> QED BY <1>1, <1>16, <2>1, DriveKeeps
<1>18. WithinSector(Arrived)'
  <2>1. \A i \in Chunks : i < ptrNextData \/ i = ptrNextData => msd_buffer'[i] = Written(Done * N + i)
    <3>1. chunk = Written(Done * N + ptrNextData)
      BY <1>10
    <3>2. \A i \in Chunks : i < ptrNextData => i # ptrNextData
      BY <1>5, Sizes
    <3> HIDE DEF chunk
    <3> QED BY <1>4, <1>14, <3>1, <3>2
  <2>2. \A i \in Chunks : i < ptrNextData' \/ i = ptrNextData'
          => msd_buffer'[i] = Written(Done * N + i)'
    BY <1>1, <1>16, <1>17, <2>1 DEF Written
  <2> QED BY <1>1, <1>4, <1>16, <1>17, <2>2 DEF WithinSector
<1>19. WhenWriting'
  <2>1. WhenWriting
    BY <1>3, WritingData
  <2>2. moved' = cmd'.length - gblCBW'.length + (IF Arrived' THEN EP_SIZE ELSE 0)
    BY <1>1, <1>4, <1>6, <1>7, <1>8, <1>11
  <2>3. usb'.out.entry[usb'.outHandle].cnt = EP_SIZE
    <3>1. len \in Int
      BY <1>7, <1>11
    <3> HIDE DEF len
    <3> QED BY <1>1, <1>2, <1>11, <3>1, OutTaken
  <2> QED BY <1>1, <1>2, <1>16, <1>17, <1>18, <2>1, <2>2, <2>3 DEF WhenWriting
<1>20. WhileHostWaits'
  <2>1. ~InData(usb') /\ ~InDataCsw(usb')
    BY <1>1, <1>2, <1>4, InKept, ActiveShape
  <2>2. intact' /\ ~Answering'
    BY <1>1, <1>4 DEF DataInv, InCommand, WhileHostWaits, Answering, Responses, ResponseSize
  <2> QED BY <2>1, <2>2 DEF WhileHostWaits
<1>21. InCommand'
  <2>1. ~Fresh' /\ ~Reporting' /\ ~Started /\ MSDCommandState' # "RESPONSE" /\ MSDReadState' = "WAIT"
    BY <1>2, <1>4, <1>16 DEF Fresh, Reporting, Started, Serving
  <2> QED BY <1>1, <1>17, <1>19, <1>20, <2>1 DEF DataInv, InCommand
<1> QED BY <1>1, <1>15, <1>21 DEF DataInv

\* A packet to the host leaves the memory of the drive as it is.
LEMMA ReceiveKeeps ==
  ASSUME IndInv, ControlInv, DataInv, ReceiveData \/ ReceiveStatus
  PROVE  /\ configured /\ usb \in Pair /\ usb' \in Pair /\ Carries(usb')
         /\ UNCHANGED <<configured, MSDHostNoData, machineVars, gblCBW, msd_csw, lengthVars, sense,
                        msd_cbw, msd_buffer, ptrNextData, store, isReadOnly, cmd, aborts>>
         /\ usb'.out = usb.out /\ usb'.outHandle = usb.outHandle
         /\ Active(usb.in).cnt \in Nat
         /\ (Serving' = Serving) /\ (Fresh' = Fresh) /\ ~Fresh
         /\ Serving \/ MSD_State = "SEND_CSW" => InData(usb)
         /\ MSD_State = "WAIT" => InCsw(usb) \/ InDataCsw(usb)
         /\ MSD_State = "WAIT" \/ MSD_State = "SEND_CSW" \/ Serving
<1>1. Receive /\ UNCHANGED <<cmd, aborts>>
  BY DEF ReceiveData, ReceiveStatus
<1>2. /\ configured /\ usb \in Pair /\ usb' \in Pair /\ InBusy
      /\ usb'.out = usb.out /\ usb'.outHandle = usb.outHandle
      /\ usb'.in = Complete(usb.in, Active(usb.in).cnt)
      /\ MSD_State \in {"DATA_IN", "DATA_OUT", "SEND_CSW"} => InData(usb)
      /\ MSD_State = "WAIT" => InCsw(usb) \/ InDataCsw(usb)
  BY ReceiveShape
<1>3. Active(usb.in).cnt \in Nat
  BY <1>2, PairShape DEF DataInv, Values, Carries, Active, Directions
<1>4. Carries(usb) /\ Active(usb.in).cnt \in Nat
  BY <1>3 DEF DataInv, Values
<1>5. Carries(usb')
  BY <1>2, <1>4, CompleteCarries
<1>6. UNCHANGED <<configured, MSDHostNoData, machineVars, gblCBW, msd_csw, lengthVars, sense,
                  msd_cbw, msd_buffer, ptrNextData, store, isReadOnly>>
  BY <1>1 DEF Receive, controlVars, bufferVars, mediaVars
<1>7. ~Fresh
  <2>1. ~InIdle(usb)
    BY <1>2, BusyShape
  <2> QED BY <1>2, <2>1 DEF ControlInv, Coupled, WhileWaiting, Fresh
<1>8. OutBusy' = OutBusy
  BY <1>2, OutKept DEF OutBusy
<1>9. (Serving' = Serving) /\ (Fresh' = Fresh)
  BY <1>6, <1>8 DEF Serving, Fresh, machineVars
<1>10. MSD_State = "WAIT" \/ MSD_State = "SEND_CSW" \/ Serving
  BY DEF ControlInv, ControlTypes, MsdStates, Serving
<1> QED BY <1>1, <1>2, <1>3, <1>5, <1>6, <1>7, <1>9, <1>10 DEF Serving

\* What the command was to the drive it still is, once the host has a packet of it.
LEMMA ReceivedInCommand ==
  ASSUME IndInv, ControlInv, DataInv, ReceiveData \/ ReceiveStatus,
         moved' = moved \/ InData(usb) \/ InDataCsw(usb),
         InData(usb) \/ InDataCsw(usb) => Answering \/ moved' = moved,
         HostWaits' => WhileHostWaits'
  PROVE  InCommand'
<1>1. /\ configured /\ usb \in Pair /\ usb' \in Pair
      /\ UNCHANGED <<MSDHostNoData, machineVars, gblCBW, msd_csw, lengthVars, msd_buffer,
                     ptrNextData, store, cmd>>
      /\ usb'.out = usb.out /\ usb'.outHandle = usb.outHandle
      /\ (Serving' = Serving) /\ ~Fresh'
      /\ MSD_State = "WAIT" => InCsw(usb) \/ InDataCsw(usb)
      /\ Serving => InData(usb)
  BY ReceiveKeeps
<1>2. /\ UNCHANGED <<MSD_State, MSDCommandState, MSDReadState, MSDWriteState>> /\ InCommand
  BY <1>1 DEF machineVars, DataInv
<1>3. /\ (Served' = Served) /\ (Started' = Started) /\ (Serving' = Serving)
      /\ WhenResponding => WhenResponding'
      /\ WhenReading => WhenReading'
      /\ WhenReporting /\ moved' = moved => WhenReporting'
      /\ Offered' = Offered
      /\ Stored(cmd.lba + cmd.count)' = Stored(cmd.lba + cmd.count)
  <2>1. /\ Offered' = Offered
        /\ Stored(cmd.lba + cmd.count)' = Stored(cmd.lba + cmd.count)
    BY <1>1 DEF Stored, SectorOf, Written, Offered
  <2> QED BY <1>1, <2>1, DriveKeeps
<1>4. Reporting' => Reporting
  BY <1>1, <1>2 DEF Reporting, CswOut
<1>5. Reporting' => Served' /\ WhenReporting' /\ msd_csw'.tag = cmd'.tag
  <2> SUFFICES ASSUME Reporting' PROVE Served' /\ WhenReporting' /\ msd_csw'.tag = cmd'.tag
    OBVIOUS
  <2>1. Served /\ WhenReporting /\ msd_csw.tag = cmd.tag
    BY <1>2, <1>4 DEF InCommand
  <2>2. CASE moved' = moved
    BY <1>1, <1>3, <2>1, <2>2
  <2>3. CASE moved' # moved
    <3>1. cmd.op # "WRITE_10"
      BY <2>3 DEF Answering, Responses, ResponseSize
    <3> QED BY <1>1, <1>3, <2>1, <3>1 DEF WhenReporting
  <2> QED BY <2>2, <2>3
<1>6. Serving => ~Started /\ MSDWriteState = "WAIT"
  <2> SUFFICES ASSUME Serving PROVE ~Started /\ MSDWriteState = "WAIT"
    OBVIOUS
  <2>1. ~InIdle(usb)
    BY <1>1, ActiveShape
  <2> QED BY <1>1, <2>1, ServingAtWork DEF Started
<1>7. Serving => Served' /\ msd_csw'.tag = cmd'.tag
  BY <1>1, <1>2, <1>3 DEF InCommand
<1> QED BY <1>1, <1>2, <1>3, <1>5, <1>6, <1>7 DEF InCommand, Started

LEMMA ReceiveDataData ==
  ASSUME IndInv, ControlInv, DataInv, ReceiveData
  PROVE  DataInv'
<1> DEFINE packet == Active(usb.in)
           isData == packet.data # CswBuffer
<1>1. /\ host = "data" /\ cmd.in
      /\ moved' = IF isData THEN moved + packet.cnt ELSE moved
      /\ intact' = (intact /\ isData /\ packet.cnt <= cmd.length - moved
                           /\ msd_buffer[packet.data[2]] = Expected(moved))
      /\ host' = IF packet.cnt < EP_SIZE \/ moved + packet.cnt >= cmd.length
                 THEN "status" ELSE "data"
  BY DEF ReceiveData
<1>2. /\ configured /\ usb \in Pair /\ usb' \in Pair /\ Carries(usb')
      /\ UNCHANGED <<configured, MSDHostNoData, machineVars, gblCBW, msd_csw, lengthVars, sense,
                     msd_cbw, msd_buffer, ptrNextData, store, isReadOnly, cmd, aborts>>
      /\ packet.cnt \in Nat /\ (Serving' = Serving) /\ ~Fresh'
      /\ Serving \/ MSD_State = "SEND_CSW" => InData(usb)
      /\ MSD_State = "WAIT" => InCsw(usb) \/ InDataCsw(usb)
      /\ MSD_State = "WAIT" \/ MSD_State = "SEND_CSW" \/ Serving
  BY ReceiveKeeps
<1>3. /\ moved \in Nat /\ cmd.length \in Nat /\ gblCBW.length \in Nat /\ moved < cmd.length
      /\ Values /\ WhileHostWaits /\ isReadOnly \in BOOLEAN /\ aborts \in 0 .. MaxAborts
  BY <1>1, <1>2 DEF DataInv, Values, Counts, CBW, InCommand, HostWaits
<1>4. /\ InData(usb) \/ InCsw(usb) => InIdle(usb')
      /\ InDataCsw(usb) => InCsw(usb')
  BY ReceiveShape
<1>5. intact' \in BOOLEAN
  <2>1. intact \in BOOLEAN
    BY <1>3 DEF Values
  <2> QED BY <1>1, <2>1
<1>6. MSD_State' = MSD_State
  BY <1>2 DEF machineVars
<1>7. CASE InData(usb) \/ InDataCsw(usb)
  <2>1. isData
    BY <1>7 DEF InData, InDataCsw
  <2>2. /\ Answering /\ (Serving \/ Reporting) /\ intact
        /\ msd_buffer[packet.data[2]] = Expected(moved)
        /\ moved + packet.cnt = cmd.length - gblCBW.length
    BY <1>1, <1>3, <1>7 DEF WhileHostWaits, InFlight
  <2> HIDE DEF packet
  <2>3. /\ moved' = moved + packet.cnt /\ moved' <= cmd.length /\ intact' = TRUE
        /\ (host' = "data" => moved' < cmd.length)
        /\ packet.cnt <= cmd.length - moved /\ moved' \in Nat
    <3> DEFINE cnt == packet.cnt
    <3>1. cnt \in Nat /\ moved + cnt = cmd.length - gblCBW.length
      BY <1>2, <2>2
    <3>2. moved' = moved + cnt /\ (host' = "data" => ~(moved + cnt >= cmd.length))
      BY <1>1, <2>1
    <3> HIDE DEF cnt
    <3>3. cnt <= cmd.length - moved /\ moved + cnt <= cmd.length /\ moved + cnt \in Nat
      BY <1>3, <3>1
    <3>4. host' = "data" => moved' < cmd.length
      BY <1>3, <3>1, <3>2
    <3>5. intact' = TRUE
      BY <1>1, <2>1, <2>2, <3>3 DEF cnt
    <3> QED BY <3>2, <3>3, <3>4, <3>5 DEF cnt
  <2>4. Values' /\ Counts'
    BY <1>2, <1>3, <1>5, <2>3, HostValues DEF Counts
  <2>5. ~InData(usb') /\ ~InDataCsw(usb') /\ InFlight' = 0
    <3>1. ~InData(usb') /\ ~InDataCsw(usb')
      <4>1. CASE InData(usb)
        BY <1>2, <1>4, <4>1, ActiveShape
      <4>2. CASE InDataCsw(usb)
        <5>1. Active(usb'.in).data = CswBuffer
          BY <1>4, <4>2 DEF InCsw
        <5> QED BY <5>1 DEF InData, InDataCsw
      <4> QED BY <1>7, <4>1, <4>2
    <3> QED BY <3>1 DEF InFlight
  <2>6. WhileHostWaits'
    <3>1. (IF cmd'.in THEN moved' ELSE 0) + InFlight' = cmd'.length - gblCBW'.length
      BY <1>1, <1>2, <1>3, <2>2, <2>3, <2>5
    <3> QED BY <2>3, <2>5, <3>1 DEF WhileHostWaits
  <2>7. InCommand'
    BY <1>7, <2>2, <2>6, ReceivedInCommand
  <2> QED BY <2>4, <2>7 DEF DataInv
<1>8. CASE ~(InData(usb) \/ InDataCsw(usb))
  <2>1. MSD_State = "WAIT" /\ InCsw(usb) /\ ~Serving
    BY <1>2, <1>8
  <2>2. ~isData
    BY <2>1 DEF InCsw
  <2>3. moved' = moved
    BY <1>1, <2>2
  <2>4. Values'
    BY <1>2, <1>3, <1>5, <2>3, HostValues
  <2>5. Counts'
    <3> HIDE DEF packet
    <3>1. host' = "data" => moved + packet.cnt < cmd.length
      BY <1>1, <1>2, <1>3
    <3> QED BY <1>2, <1>3, <2>3, <3>1 DEF Counts
  <2>6. ~InData(usb') /\ ~InDataCsw(usb') /\ ~InCsw(usb')
    BY <1>2, <1>4, <2>1, ActiveShape
  <2>7. ~Reporting' /\ ~Serving'
    BY <1>2, <1>6, <2>1, <2>6 DEF Reporting, CswOut
  <2>8. WhileHostWaits'
    BY <1>2, <2>6, <2>7 DEF WhileHostWaits
  <2>9. InCommand'
    BY <2>3, <2>8, ReceivedInCommand
  <2> QED BY <2>4, <2>5, <2>9 DEF DataInv
<1> QED BY <1>7, <1>8

LEMMA ReceiveStatusData ==
  ASSUME IndInv, ControlInv, DataInv, ReceiveStatus
  PROVE  DataInv'
<1>1. moved' = moved /\ intact' = intact /\ cmd' = cmd /\ host' \in {"ready", "recover"}
  BY DEF ReceiveStatus
<1>2. ~HostWaits' /\ Counts'
  BY <1>1 DEF HostWaits, DataInv, Counts
<1>3. /\ Values /\ moved \in Nat /\ intact \in BOOLEAN /\ isReadOnly \in BOOLEAN
      /\ aborts \in 0 .. MaxAborts
  BY DEF DataInv, Values
<1>4. /\ Carries(usb')
      /\ UNCHANGED <<MSDHostNoData, gblCBW, msd_csw, lengthVars, sense, msd_cbw, msd_buffer,
                     ptrNextData, store, isReadOnly, cmd, aborts>>
  BY ReceiveKeeps
<1>5. Values'
  BY <1>1, <1>3, <1>4, HostValues
<1>6. InCommand'
  BY <1>1, <1>2, ReceivedInCommand
<1> QED BY <1>2, <1>5, <1>6 DEF DataInv

LEMMA HostData ==
  ASSUME IndInv, ControlInv, DataInv, HostStep \/ Timeout \/ HaltEndpoint \/ ResetBus
  PROVE  DataInv'
BY SendCBWData, SendPastData, SendAskedData, ReceiveDataData, ReceiveStatusData, TurnsData
   DEF HostStep

----------------------------------------------------------------------------
(* Theorems about the data.                                                 *)

LEMMA InitData == Init => DataInv
<1> SUFFICES ASSUME Init PROVE DataInv
  OBVIOUS
<1>1. PICK t \in Tags : MsdInit(t) /\ cmd = NoCommand(t)
  BY DEF Init
<1>2. usb \in Pair /\ InIdle(usb) /\ OutArmed(usb) /\ Carries(usb)
  BY <1>1, ConfiguredPair DEF MsdInit
<1>3. OutBusy /\ ~InData(usb) /\ ~InCsw(usb) /\ ~InDataCsw(usb)
  BY <1>2, BusyShape, ActiveShape
<1>4. /\ MSD_State = "WAIT" /\ host = "ready" /\ moved = 0 /\ intact = TRUE /\ aborts = 0
      /\ gblCBW = NoCommand(t) /\ msd_cbw = NoCommand(t)
      /\ msd_csw = [tag |-> t, residue |-> 0, status |-> "PASSED"]
      /\ TransferLength = 0 /\ LBA = 0 /\ MSDRetryAttempt = 0 /\ MSDHostNoData = FALSE
      /\ sense = ResetSenseData /\ ptrNextData = 0 /\ isReadOnly = FALSE
  BY <1>1 DEF Init, MsdInit
<1>5. NoCommand(t) \in CBW /\ NoCommand(t).length = 0
  BY DEF NoCommand, CBW, Operations
<1>6. msd_csw \in CSW /\ sense \in SenseKeys
  BY <1>4 DEF CSW, SenseKeys, ResetSenseData
<1>7. /\ msd_buffer \in [Chunks -> Data \cup {Answer, Zeros}]
      /\ store \in [Sectors -> [Chunks -> Data]]
  BY <1>1, DataAssumption DEF MsdInit
<1>8. \A p \in Nat : p * EP_SIZE < cmd.length => <<cmd.tag, p>> \in Data
  <2>1. \A p \in Nat, b \in Nat : ~(p * b < 0)
    OBVIOUS
  <2> QED BY <1>1, <1>5, <2>1, Sizes
<1>9. Values
  <2>1. MaxAttempts \in Nat /\ MaxAborts \in Nat
    BY SizesAssumption, HostAssumption
  <2>2. /\ TransferLength \in Nat /\ LBA \in Nat /\ ptrNextData \in Nat /\ moved \in Nat
        /\ MSDRetryAttempt \in 0 .. MaxAttempts /\ aborts \in 0 .. MaxAborts
    BY <1>4, <2>1
  <2>3. /\ gblCBW \in CBW /\ msd_cbw \in CBW /\ cmd \in CBW
        /\ MSDHostNoData \in BOOLEAN /\ isReadOnly \in BOOLEAN /\ intact \in BOOLEAN
    BY <1>1, <1>4, <1>5
  <2> QED BY <1>2, <1>6, <1>7, <1>8, <2>2, <2>3 DEF Values
<1>10. Counts
  BY <1>1, <1>4, <1>5 DEF Counts
<1>11. ~Serving /\ ~Reporting /\ ~Fresh /\ ~Started /\ ~HostWaits
  BY <1>3, <1>4 DEF Serving, Reporting, CswOut, Fresh, Started, HostWaits
<1>12. InCommand
  BY <1>11 DEF InCommand
<1> QED BY <1>9, <1>10, <1>12 DEF DataInv

LEMMA NextData == IndInv /\ ControlInv /\ DataInv /\ [Next]_vars => DataInv'
<1> SUFFICES ASSUME IndInv, ControlInv, DataInv, [Next]_vars PROVE DataInv'
  OBVIOUS
<1>1. CASE DriveStep
  BY <1>1, MSDTasksData, USBDeviceTasksData DEF DriveStep
<1>2. CASE HostStep \/ Timeout \/ HaltEndpoint \/ ResetBus
  BY <1>2, HostData
<1>3. CASE (SetReadOnly /\ UNCHANGED hostVars) \/ UNCHANGED vars
  BY <1>3, TurnsData
<1> QED BY <1>1, <1>2, <1>3 DEF Next

THEOREM CommandData == Spec => []DataInv
BY InitData, NextData, InductiveInvariant, CommandControl, PTL DEF Spec

\* Every variable of drive and host keeps its type, whatever commands come: no length, residue
\* or sector count of a command that is being counted down goes below zero, and no more than the
\* drive's sector buffer and medium can hold goes into them (usb_device_msd.c:1010, 1139).
THEOREM TypesHold == Spec => []TypeOK
<1>1. ASSUME IndInv, ControlInv, DataInv PROVE TypeOK
  <2>1. /\ usb \in Pair /\ Carries(usb) /\ toggle \in [Directions -> {0, 1}]
    BY <1>1 DEF IndInv, Types, DataInv, Values
  <2>2. \A d \in Directions :
          usb[d] \in EndpointType({CbwBuffer, CswBuffer} \cup {DataBuffer(k) : k \in Chunks})
    <3> DEFINE B == {CbwBuffer, CswBuffer} \cup {DataBuffer(k) : k \in Chunks}
    <3> SUFFICES ASSUME NEW d \in Directions PROVE usb[d] \in EndpointType(B)
      OBVIOUS
    <3>1. usb[d] \in Endpoint
      BY <2>1, PairShape DEF Directions
    <3>2. \A i \in Entries : /\ usb[d].entry[i].data \in B \cup {NoBuffer}
                             /\ usb[d].entry[i].cnt \in Nat
      BY <2>1 DEF Carries, SieBuffers
    <3> HIDE DEF B
    <3>3. usb[d].entry \in [Entries -> [own : {"cpu", "armed", "stall"}, toggle : {0, 1},
                                        data : B \cup {NoBuffer}, cnt : Nat]]
      BY <3>1, <3>2 DEF Endpoint, Entry
    <3> QED BY <3>1, <3>3 DEF Endpoint, EndpointType
  <2>3. usb.inHandle \in Entries /\ usb.outHandle \in Entries
    BY <2>1 DEF Pair
  <2>4. MsdTypeOK
    BY <1>1, <2>2, <2>3 DEF MsdTypeOK, ControlInv, ControlTypes, DataInv, Values
  <2> QED BY <1>1, <2>1, <2>4 DEF TypeOK, ControlInv, ControlTypes, DataInv, Values
<1> QED BY <1>1, InductiveInvariant, CommandControl, CommandData, PTL

\* Whatever was lost, aborted, stalled or reset before it: when the host is about to read that its
\* command has passed, the drive has done all of it.  The sectors of a write are on the medium
\* with the data of this command, those of a read have come in as they are on it, and the residue
\* of an answer is what was asked for and not there (usb_device_msd.c:1004, 1133, 1319).
THEOREM PassedCommandsAreDone == Spec => []PassedIsDone
<1>1. ASSUME IndInv, ControlInv, DataInv, StatusAtHand, msd_csw.status = "PASSED"
      PROVE  /\ intact
             /\ cmd.op = "WRITE_10" => Span \subseteq Sectors /\ \A s \in Span : store[s] = SectorOf(s)
             /\ cmd.op \in {"READ_10", "WRITE_10"} => moved = cmd.count * BLOCKLEN
             /\ cmd.op \in Responses =>
                  /\ moved = cmd.length
                  /\ msd_csw.residue = cmd.length - Least(ResponseSize[cmd.op], cmd.length)
  <2>1. /\ host \in {"status", "retry"} /\ setup = "none" /\ configured /\ usb \in Pair
        /\ Active(usb.in).own = "armed" /\ Active(usb.in).data = CswBuffer
    BY <1>1, PairShape DEF StatusAtHand, Answers, StatusArrives, IndInv, Types
  <2>2. ~InData(usb) /\ ~InDataCsw(usb)
    BY <2>1 DEF InData, InDataCsw
  <2>3. MSD_State = "WAIT" /\ InCsw(usb)
    <3>1. ~InIdle(usb) /\ ~InStalled(usb) /\ ~InHalted(usb)
      BY <2>1, ActiveShape
    <3>2. ~Serving
      BY <1>1, <2>1, <2>2, <3>1, ServingAtWork
    <3>3. MSD_State = "WAIT"
      BY <1>1, <2>1, <2>2, <3>1, <3>2
         DEF ControlInv, ControlTypes, MsdStates, Coupled, WhileReporting, Serving
    <3> QED BY <1>1, <2>1, <2>2, <3>1, <3>3 DEF ControlInv, Coupled, WhileWaiting
  <2>4. Reporting /\ HostWaits /\ InFlight = 0
    BY <2>1, <2>2, <2>3 DEF Reporting, CswOut, HostWaits, InFlight
  <2>5. WhenReporting /\ WhileHostWaits
    BY <1>1, <2>1, <2>4 DEF DataInv, InCommand
  <2>6. moved \in Nat /\ cmd.length \in Nat /\ gblCBW.length \in Nat /\ moved <= cmd.length
    BY <1>1 DEF DataInv, Values, Counts, CBW
  <2>7. Answering => moved = cmd.length
    <3> SUFFICES ASSUME Answering PROVE moved = cmd.length
      OBVIOUS
    <3>1. gblCBW.length = 0
      BY <1>1, <2>5 DEF WhenReporting, Answering
    <3>2. (IF cmd.in THEN moved ELSE 0) + 0 = cmd.length - 0
      BY <2>4, <2>5, <3>1 DEF WhileHostWaits
    <3> QED BY <2>6, <3>2
  <2>8. intact
    BY <2>4, <2>5 DEF WhileHostWaits
  <2>9. cmd.op = "WRITE_10" => /\ Span \subseteq Sectors /\ \A s \in Span : store[s] = SectorOf(s)
                               /\ moved = cmd.count * BLOCKLEN
    <3> SUFFICES ASSUME cmd.op = "WRITE_10"
                 PROVE  /\ Span \subseteq Sectors /\ \A s \in Span : store[s] = SectorOf(s)
                        /\ moved = cmd.count * BLOCKLEN
      OBVIOUS
    <3>1. Stored(cmd.lba + cmd.count) /\ moved = cmd.length /\ cmd.length = cmd.count * BLOCKLEN
      BY <1>1, <2>5 DEF WhenReporting
    <3>2. \A s \in Span : s \in Sectors /\ store[s] = SectorOf(s)
      <4>1. cmd.lba \in Nat /\ cmd.count \in Nat
        BY <1>1 DEF DataInv, Values, CBW
      <4>2. Span = cmd.lba .. (cmd.lba + cmd.count) - 1
        BY <4>1 DEF Span
      <4> QED BY <3>1, <4>2 DEF Stored
    <3> QED BY <3>1, <3>2
  <2>10. cmd.op = "READ_10" => moved = cmd.count * BLOCKLEN
    BY <1>1, <2>5, <2>7 DEF WhenReporting, Answering
  <2>11. cmd.op \in Responses =>
           /\ moved = cmd.length
           /\ msd_csw.residue = cmd.length - Least(ResponseSize[cmd.op], cmd.length)
    BY <1>1, <2>5, <2>7 DEF WhenReporting, Answering, Offered
  <2> QED BY <2>8, <2>9, <2>10, <2>11
<1>2. IndInv /\ ControlInv /\ DataInv => PassedIsDone
  BY <1>1 DEF PassedIsDone
<1> QED BY <1>2, InductiveInvariant, CommandControl, CommandData, PTL

\* The medium changes in one place only.
LEMMA MediumChanges ==
  ASSUME [Next]_vars
  PROVE  \/ store' = store
         \/ Writing({"SECTOR"}) /\ LBA \in Sectors /\ store' = [store EXCEPT ![LBA] = msd_buffer]
<1>1. CASE DriveStep /\ MSDTasks
  <2>1. CASE WriteSector
    BY <2>1 DEF WriteSector
  <2>2. CASE \/ AcceptCBW \/ RejectCBW \/ SendCSW \/ FailCheckedCommand
             \/ FailUnsupported \/ NoAnswerWanted   \/ PreventAllowMediumRemoval
             \/ TestUnitReady   \/ VerifyOrStopStart \/ PrepareResponse  \/ SendResponse
    BY <2>2 DEF AcceptCBW, RejectCBW, SendCSW, FailCheckedCommand, FailUnsupported, NoAnswerWanted,
       PreventAllowMediumRemoval, TestUnitReady, VerifyOrStopStart, PrepareResponse, SendResponse,
       Conclude, commandFrame, mediaVars
  <2>3. CASE \/ ReadStart \/ ReadNextSector \/ ReadNothing \/ ReadEnd \/ SectorTransmitted
             \/ TransmitPacket
    BY <2>3 DEF ReadStart, ReadNextSector, ReadNothing, ReadEnd, SectorTransmitted, TransmitPacket,
       ReadSector, AwaitBuffer, FetchSector, RetryRead, AbandonRead, Conclude,
       commandFrame, readFrame, mediaVars
  <2>4. CASE \/ WriteProtected \/ WriteStart \/ WriteNothing \/ WriteNextSector \/ WriteEnd
             \/ AskForPacket \/ PacketReceived \/ SectorReceived \/ RetryWrite \/ AbandonWrite
             \/ SkipSector
    BY <2>4 DEF WriteProtected, WriteStart, WriteNothing, WriteNextSector, WriteEnd, AskForPacket,
       PacketReceived, SectorReceived, RetryWrite, AbandonWrite, SkipSector, SectorDone, Conclude,
       commandFrame, mediaVars
  <2> QED BY <1>1, <2>1, <2>2, <2>3, <2>4 DEF MSDTasks
<1>2. CASE DriveStep /\ USBDeviceTasks
  BY <1>2 DEF USBDeviceTasks, MassStorageReset, SetHaltIn, SetHaltOut, SetHalt, ClearHaltIn,
     ClearHaltOut, ClearHalt, BusReset, SetConfiguration, mediaVars
<1>3. CASE SendCBW \/ SendData \/ ReceiveData \/ ReceiveStatus
  BY <1>3 DEF SendCBW, SendData, Send, ReceiveData, ReceiveStatus, Receive, mediaVars
<1>4. CASE \/ StallInData \/ StallInStatus \/ GiveUp \/ RecoverReset \/ RecoverClear \/ Timeout
           \/ HaltEndpoint \/ ResetBus \/ Configure
  BY <1>4 DEF StallInData, StallInStatus, GiveUp, RecoverReset, RecoverClear, Timeout,
     HaltEndpoint, ResetBus, Configure, Request, RequestClearHalt, deviceVars, mediaVars
<1>5. CASE (SetReadOnly /\ UNCHANGED hostVars) \/ UNCHANGED vars
  BY <1>5 DEF SetReadOnly, vars, deviceVars, mediaVars
<1> QED BY <1>1, <1>2, <1>3, <1>4, <1>5 DEF Next, DriveStep, HostStep

\* A write that was aborted never goes on with the packets of the next command: a sector is
\* only ever written with the data of the command that the host is in, at its place in it
\* (usb_device_msd.c:1313).
THEOREM OnlyTheHostWrites == Spec => WritesAreTheHosts
<1>1. ASSUME IndInv, ControlInv, DataInv, [Next]_vars, NEW s \in Sectors, store'[s] # store[s]
      PROVE  cmd.op = "WRITE_10" /\ s \in Span /\ store'[s] = SectorOf(s) /\ host # "ready"
  <2>1. Writing({"SECTOR"}) /\ LBA \in Sectors /\ store' = [store EXCEPT ![LBA] = msd_buffer]
    BY <1>1, MediumChanges
  <2>2. store \in [Sectors -> [Chunks -> Data]]
    BY <1>1 DEF DataInv, Values
  <2>3. s = LBA /\ store'[s] = msd_buffer
    BY <1>1, <2>1, <2>2
  <2>4. msd_buffer = SectorOf(LBA) /\ LBA \in Span
    BY <1>1, <2>1, SectorComplete
  <2>5. configured /\ Serving /\ cmd.op = "WRITE_10"
    BY <1>1, <2>1, WritingData
  <2>6. host # "ready"
    BY <1>1, <2>5, ServingAtWork DEF AtWork
  <2> QED BY <2>3, <2>4, <2>5, <2>6
<1>2. IndInv /\ ControlInv /\ DataInv /\ [Next]_vars =>
        [\A s \in Sectors : store'[s] # store[s] =>
           cmd.op = "WRITE_10" /\ s \in Span /\ store'[s] = SectorOf(s) /\ host # "ready"]_vars
  BY <1>1
<1> QED BY <1>2, InductiveInvariant, CommandControl, CommandData, PTL DEF Spec, WritesAreTheHosts
=============================================================================
