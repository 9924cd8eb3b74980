------------------------------- MODULE Meter -------------------------------
(***************************************************************************)
(* CPUCollector's power reading: the average power between two readings of *)
(* the RAPL energy counter, which counts modulo Range and may fail to be   *)
(* read.  The true energy and time since the last good reading are kept    *)
(* for comparison.                                                         *)
(***************************************************************************)
EXTENDS Naturals

CONSTANTS
  Range,      \* the counter's range in units of energy (max_energy_range_uj + 1)
  Word,       \* the range of uint64 in these units
  MaxEnergy,  \* bound: energy between two good readings
  MaxTime     \* bound: time between two good readings

ASSUME MeterAssumption ==
  Range \in Nat \ {0} /\ Word \in Nat /\ Range <= Word /\ MaxEnergy \in Nat /\ MaxTime \in Nat

VARIABLES
  energy,     \* the counter, energy_uj
  lastEnergy, \* CPUCollector.lastEnergy
  age,        \* time since CPUCollector.lastTime, Never while that is zero
  since,      \* true energy and time since the last good reading
  sample      \* what the last collection reported: energy and time of a quotient, and the truth

meter == <<energy, lastEnergy, age, since, sample>>

Never    == MaxTime + 1
Fresh    == [energy |-> 0, time |-> 0]
NoSample == [energy |-> 0, time |-> 0, truth |-> Fresh]

MeterInit ==
  /\ energy = 0 /\ lastEnergy = 0 /\ age = Never
  /\ since = Fresh /\ sample = NoSample

\* NewCPUCollector; without a first reading lastTime stays zero for good.
NewCPUCollector ==
  /\ \/ lastEnergy' = energy /\ age' = 0
     \/ lastEnergy' = 0 /\ age' = Never
  /\ since' = Fresh /\ sample' = NoSample
  /\ UNCHANGED energy

\* Time passes and the processor uses energy.
Passes(t, e) ==
  /\ since.time + t <= MaxTime /\ since.energy + e <= MaxEnergy
  /\ since' = [time |-> since.time + t, energy |-> since.energy + e]
  /\ energy' = (energy + e) % Range
  /\ age' = IF age = Never THEN Never ELSE age + t
  /\ UNCHANGED <<lastEnergy, sample>>

\* Deviation: a wrapped counter is not told apart.
DeltaUnsigned(new, old, elapsed) == IF elapsed > 0 THEN (new + Word - old) % Word ELSE 0

\* deltaUJ, or 0 W.
Delta(new, old, elapsed) == IF elapsed > 0 /\ new >= old THEN new - old ELSE 0

\* A failed reading, or none since there was no first one, is 0 W and moves nothing.
SampleFails ==
  /\ sample' = NoSample
  /\ UNCHANGED <<energy, lastEnergy, age, since>>

SampleReads ==
  /\ age # Never
  /\ sample' = [energy |-> Delta(energy, lastEnergy, age), time |-> age, truth |-> since]
  /\ lastEnergy' = energy
  /\ age' = 0
  /\ since' = Fresh
  /\ UNCHANGED energy

Sample == SampleReads \/ SampleFails

\* What is reported is never more than the true average since the last good
\* reading, and 0 W or exactly that average if the counter wrapped at most once:
\* a wrap, a failed reading or a restart never turns into a spike (cpu.go:60-70).
PowerTrue ==
  /\ sample.time = sample.truth.time
  /\ sample.energy <= sample.truth.energy
  /\ sample.truth.energy < Range => sample.energy \in {0, sample.truth.energy}
=============================================================================
