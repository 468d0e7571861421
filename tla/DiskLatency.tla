---------------------------- MODULE DiskLatency ----------------------------
(***************************************************************************)
(* The timing of the simulated disk, machine/disk.cc: how long a request   *)
(* takes from where the head is, and what the track buffer holds.          *)
(*                                                                         *)
(* At time T the head is over sector number (T \div RotationTime) %        *)
(* SectorsPerTrack of its track.  Requests come one at a time, as          *)
(* SynchDisk guarantees.                                                   *)
(***************************************************************************)
EXTENDS Integers

CONSTANTS SectorsPerTrack, NumTracks,      \* disk.h
          SeekTime, RotationTime,          \* stats.h
          MaxTicks                         \* bound on the clock

VARIABLES totalTicks, lastSector, bufferInit,
          request      \* history: the request in progress, or last completed

NumSectors == SectorsPerTrack * NumTracks
Abs(n) == IF n < 0 THEN -n ELSE n

\* TimeToSeek: the seek, and the rest of the sector the head arrives in.
Seek(newSector) ==
  Abs((newSector \div SectorsPerTrack) - (lastSector \div SectorsPerTrack)) * SeekTime

\* Mutant: no rounding up to the next sector boundary.
RotationAfter_None(seek) == 0

RotationAfter(seek) ==
  LET over == (totalTicks + seek) % RotationTime
  IN IF over > 0 THEN RotationTime - over ELSE 0

ModuloDiff(to, from) ==
  (((to % SectorsPerTrack) - (from % SectorsPerTrack)) + SectorsPerTrack)
    % SectorsPerTrack

TimeAfter(newSector) ==
  totalTicks + Seek(newSector) + RotationAfter(Seek(newSector))

\* The test of ComputeLatency for a read that the track buffer satisfies.
InTrackBuffer(newSector, writing) ==
  /\ ~ writing /\ Seek(newSector) = 0
  /\ (TimeAfter(newSector) - bufferInit) \div RotationTime
       > ModuloDiff(newSector, bufferInit \div RotationTime)

ComputeLatency(newSector, writing) ==
  IF InTrackBuffer(newSector, writing) THEN RotationTime
  ELSE LET rotation == RotationAfter(Seek(newSector))
             + ModuloDiff(newSector, TimeAfter(newSector) \div RotationTime) * RotationTime
       IN Seek(newSector) + rotation + RotationTime

-----------------------------------------------------------------------------
Init ==
  /\ totalTicks = 0 /\ lastSector = 0 /\ bufferInit = 0
  /\ request = [sector |-> 0, start |-> 0, latency |-> 0, buffered |-> FALSE, since |-> 0]

Idle == totalTicks >= request.start + request.latency

\* Mutant: UpdateLast keeps the old track buffer after a seek.
Request_KeepsBuffer(s, writing) ==
  /\ Idle
  /\ request' = [sector |-> s, start |-> totalTicks,
                 latency |-> ComputeLatency(s, writing),
                 buffered |-> InTrackBuffer(s, writing),
                 since |-> IF Seek(s) # 0 THEN TimeAfter(s) ELSE request.since]
  /\ lastSector' = s
  /\ UNCHANGED <<totalTicks, bufferInit>>

\* ReadRequest or WriteRequest: ComputeLatency, then UpdateLast.  since is the
\* time the head has been on its track, kept apart from bufferInit.
Request(s, writing) ==
  /\ Idle
  /\ request' = [sector |-> s, start |-> totalTicks,
                 latency |-> ComputeLatency(s, writing),
                 buffered |-> InTrackBuffer(s, writing),
                 since |-> IF Seek(s) # 0 THEN TimeAfter(s) ELSE request.since]
  /\ bufferInit' = IF Seek(s) # 0 THEN TimeAfter(s) ELSE bufferInit
  /\ lastSector' = s
  /\ UNCHANGED totalTicks

\* The clock runs; the interrupt comes latency ticks after the request.
Tick ==
  /\ totalTicks < MaxTicks
  /\ totalTicks' = totalTicks + 1
  /\ UNCHANGED <<lastSector, bufferInit, request>>

Step == Tick \/ \E s \in 0 .. NumSectors - 1, w \in BOOLEAN : Request(s, w)

-----------------------------------------------------------------------------
(* Properties *)

\* The sector that has just gone by under the head at time T.
JustPassed(T) == ((T \div RotationTime) - 1) % SectorsPerTrack

\* A request that goes to the surface ends exactly when its sector has rotated
\* completely past the head, and costs no more than the seek, the rest of a
\* sector and one turn.
EndsAtSector ==
  LET end == request.start + request.latency
  IN request.latency > 0 /\ ~ request.buffered =>
       /\ end % RotationTime = 0
       /\ JustPassed(end) = request.sector % SectorsPerTrack
       /\ request.latency <= (NumTracks - 1) * SeekTime
                              + (SectorsPerTrack + 1) * RotationTime

\* A read is answered from the track buffer only if the sector has gone by under
\* the head in full since the head came to the track, the sector it was in the
\* middle of when the request came included.
BufferHolds ==
  request.buffered =>
    \E T \in request.since + RotationTime .. request.start + RotationTime - 1 :
      /\ T % RotationTime = 0
      /\ JustPassed(T) = request.sector % SectorsPerTrack
=============================================================================
