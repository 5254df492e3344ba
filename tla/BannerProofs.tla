---------------------------- MODULE BannerProofs ----------------------------
(* What is sent of the banner was written, for all sizes and all parts but a *)
(* device that does not fit.                                                 *)
EXTENDS Banner, Sums

\* While parts are printed, the last one fitted: the buffer is written up to
\* and including its null byte.
Printed ==
  /\ parts \in UNION {[1..n -> PartLengths] : n \in 2..5}
  /\ next \in Nat \ {0} /\ done \in BOOLEAN
  /\ remaining \in 1..Bufsize
  /\ ~done => /\ len \in 0..(remaining - 1)
              /\ next = 1 => len = 0 /\ written = 0
              /\ next > 1 => written = Bufsize - remaining + len + 1

\* Nothing is printed after a device that does not fit.
Fitted ==
  /\ written \in 0..Bufsize
  /\ next = 1 => remaining = Bufsize
  /\ next > 1 /\ ~done => parts[1] < Bufsize

BannerInv == Printed /\ Fitted /\ OnlyBannerSent

LEMMA PartLength ==
  ASSUME Printed, NEW n \in 1..Len(parts)
  PROVE  parts[n] \in Nat
<1>1. PICK m \in 2..5 : parts \in [1..m -> PartLengths]
  BY DEF Printed
<1>2. Len(parts) = m
  BY <1>1
<1>3. parts[n] \in PartLengths
  BY <1>1, <1>2
<1> QED
  BY <1>3, BannerAssumption

LEMMA PrintedBytes ==
  ASSUME NEW room \in 1..Bufsize, NEW part \in Nat, Snprintf(room, part)
  PROVE  /\ len' = part
         /\ written' = IF part >= room THEN Bufsize
                                       ELSE Bufsize - room + part + 1
BY BannerAssumption DEF Snprintf, Min2

LEMMA FirstPart == Printed => parts[1] \in Nat
<1> SUFFICES ASSUME Printed PROVE parts[1] \in Nat
  OBVIOUS
<1>1. PICK m \in 2..5 : parts \in [1..m -> PartLengths]
  BY DEF Printed
<1>2. 1 \in 1..m
  OBVIOUS
<1> QED
  BY <1>1, <1>2, BannerAssumption

LEMMA BannerInvNext == BannerInv /\ [Next]_bvars => BannerInv'
<1> SUFFICES ASSUME BannerInv, [Next]_bvars PROVE BannerInv'
  OBVIOUS
<1>1. CASE PrintDevice
  <2>1. remaining \in 1..Bufsize /\ parts[1] \in Nat /\ UNCHANGED remaining
    BY <1>1, FirstPart DEF BannerInv, Printed, PrintDevice
  <2>2. /\ len' = parts[1]
        /\ written' = IF parts[1] >= remaining THEN Bufsize
                                     ELSE Bufsize - remaining + parts[1] + 1
    BY <1>1, <2>1, PrintedBytes DEF PrintDevice
  <2>3. /\ done' = (parts[1] >= remaining) /\ (done' => result' = -1)
        /\ next' = 2 /\ UNCHANGED parts
    BY <1>1 DEF PrintDevice, ReturnIf
  <2>4. Printed'
    <3>1. CASE parts[1] >= remaining
      <4>1. done' = TRUE
        <5>1. (parts[1] >= remaining) = TRUE
          BY <3>1, <2>1
        <5> QED
          BY <2>3, <5>1, Zenon
      <4>3. next' \in Nat \ {0}
        BY <2>3
      <4>2. /\ parts' \in UNION {[1..n -> PartLengths] : n \in 2..5}
            /\ remaining' \in 1..Bufsize
        BY <2>1, <2>3 DEF BannerInv, Printed
      <4> QED
        BY <4>1, <4>2, <4>3 DEF Printed
    <3>2. CASE ~(parts[1] >= remaining)
      <4>1. len' \in 0..(remaining - 1)
            /\ written' = Bufsize - remaining + len' + 1
        BY <2>1, <2>2, <3>2
      <4> QED
        BY <2>1, <2>3, <4>1 DEF BannerInv, Printed
    <3> QED
      BY <3>1, <3>2
  <2>5. remaining = Bufsize /\ written' \in 0..Bufsize
    <3>1. remaining = Bufsize
      BY <1>1 DEF BannerInv, Fitted, PrintDevice
    <3> QED BY <2>1, <2>2, <3>1, BannerAssumption
  <2>6. Fitted'
    <3>1. next' = 2 /\ written' \in 0..Bufsize
      BY <2>3, <2>5
    <3>2. ~done' => parts'[1] < Bufsize
      <4>1. ~(parts[1] >= remaining) => parts[1] < Bufsize
        BY <2>1, <2>5, BannerAssumption
      <4> QED BY <2>3, <4>1
    <3> QED BY <3>1, <3>2 DEF Fitted
  <2>7. OnlyBannerSent'
    <3>1. CASE parts[1] >= remaining
      <4>1. result' = -1
        BY <1>1, <3>1 DEF PrintDevice, ReturnIf
      <4>2. DataLength' = Words - 1
        BY <4>1, BannerAssumption DEF DataLength
      <4>3. DataLength' > Bufsize /\ ~(parts[1] < Bufsize)
        BY <2>1, <2>5, <3>1, <4>2, BannerAssumption
      <4> QED BY <2>3, <2>5, <4>3 DEF OnlyBannerSent
    <3>2. CASE ~(parts[1] >= remaining)
      BY <2>3, <3>2 DEF OnlyBannerSent
    <3> QED BY <3>1, <3>2
  <2> QED
    BY <2>4, <2>6, <2>7 DEF BannerInv
<1>2. CASE PrintNext
  <2> DEFINE room == remaining - len
  <2>1. /\ remaining \in 1..Bufsize /\ len \in 0..(remaining - 1)
        /\ next \in 1..Len(parts)
    BY <1>2 DEF BannerInv, Printed, PrintNext
  <2>2. room \in 1..Bufsize /\ parts[next] \in Nat /\ remaining' = room
    BY <1>2, <2>1, PartLength, BannerAssumption DEF BannerInv, PrintNext
  <2>3. /\ len' = parts[next]
        /\ written' = IF parts[next] >= room THEN Bufsize
                                     ELSE Bufsize - room + parts[next] + 1
    BY <1>2, <2>2, PrintedBytes DEF PrintNext
  <2>4. /\ done' = (parts[next] >= room) /\ (done' => result' = Bufsize)
        /\ next' = next + 1 /\ UNCHANGED parts
    BY <1>2 DEF PrintNext, ReturnIf
  <2>5. Printed'
    <3>1. next' \in Nat \ {0} /\ next' > 1
      BY <2>1, <2>4 DEF BannerInv, Printed
    <3>2. CASE parts[next] >= room
      BY <2>2, <2>4, <3>1, <3>2 DEF BannerInv, Printed
    <3>3. CASE ~(parts[next] >= room)
      <4>1. len' \in 0..(room - 1) /\ written' = Bufsize - room + len' + 1
        BY <2>2, <2>3, <3>3
      <4> QED
        BY <2>2, <2>4, <3>1, <4>1 DEF BannerInv, Printed
    <3> QED
      BY <3>2, <3>3
  <2>6. parts[1] < Bufsize
    BY <1>2 DEF BannerInv, Fitted, PrintNext
  <2>7. OnlyBannerSent'
    <3>1. SUFFICES ASSUME done' PROVE OnlyBannerSent'
      BY DEF OnlyBannerSent
    <3>2. result' = Bufsize /\ written' = Bufsize
      BY <2>3, <2>4, <3>1
    <3>3. DataLength' = Bufsize
      BY <3>2, BannerAssumption DEF DataLength
    <3> QED
      BY <2>4, <2>6, <3>2, <3>3, BannerAssumption DEF OnlyBannerSent
  <2>8. Fitted'
    <3>1. written' \in 0..Bufsize
      BY <2>2, <2>3, BannerAssumption
    <3>2. next' > 1
      BY <2>1, <2>4 DEF BannerInv, Printed
    <3> QED BY <2>4, <2>6, <3>1, <3>2 DEF Fitted
  <2> QED
    BY <2>5, <2>7, <2>8 DEF BannerInv
<1>3. CASE Return
  <2>1. /\ remaining \in 1..Bufsize /\ len \in 0..(remaining - 1) /\ next > 1
        /\ written = Bufsize - remaining + len + 1
    <3>1. Len(parts) \in Nat /\ Len(parts) >= 2
      <4>1. PICK m \in 2..5 : parts \in [1..m -> PartLengths]
        BY DEF BannerInv, Printed
      <4> QED
        BY <4>1
    <3>2. next > 1
      BY <1>3, <3>1 DEF Return, BannerInv, Printed
    <3> QED
      BY <1>3, <3>2 DEF Return, BannerInv, Printed
  <2>2. done' = TRUE /\ result' = Bufsize - remaining + len
    BY <1>3 DEF Return, ReturnIf
  <2>3. Printed'
    BY <1>3, <2>2 DEF BannerInv, Printed, Return
  <2>4. UNCHANGED <<written, parts, next, remaining>>
    BY <1>3 DEF Return
  <2>5. parts[1] < Bufsize /\ written \in 0..Bufsize
    BY <1>3, <2>1 DEF Return, BannerInv, Fitted
  <2>6. DataLength' = Bufsize - remaining + len
    BY <2>1, <2>2, BannerAssumption DEF DataLength
  <2>7. DataLength' <= written
    BY <2>1, <2>6, BannerAssumption
  <2>8. OnlyBannerSent'
    BY <2>4, <2>5, <2>7 DEF OnlyBannerSent
  <2>9. Fitted'
    BY <2>2, <2>4, <2>5 DEF Fitted, BannerInv
  <2> QED
    BY <2>3, <2>8, <2>9 DEF BannerInv
<1>4. CASE UNCHANGED bvars
  BY <1>4 DEF bvars, BannerInv, Printed, Fitted, OnlyBannerSent, DataLength
<1> QED
  BY <1>1, <1>2, <1>3, <1>4 DEF Next

LEMMA BannerInvInit == Init => BannerInv
<1> SUFFICES ASSUME Init PROVE BannerInv
  OBVIOUS
<1>1. /\ parts \in UNION {[1..n -> PartLengths] : n \in 2..5}
      /\ next = 1 /\ remaining = Bufsize /\ len = 0 /\ written = 0
      /\ done = FALSE
  BY DEF Init
<1>2. remaining \in 1..Bufsize /\ len \in 0..(remaining - 1) /\ ~(next > 1)
  BY <1>1, BannerAssumption
<1>3. next \in Nat \ {0} /\ done \in BOOLEAN
  <2>1. done \in BOOLEAN
    BY <1>1, Zenon
  <2>2. next \in Nat \ {0}
    BY <1>1
  <2> QED
    BY <2>1, <2>2
<1>4. len = 0 /\ written = 0
  BY <1>1
<1>5. Printed
  BY <1>1, <1>2, <1>3, <1>4 DEF Printed
<1>6. Fitted
  BY <1>1, BannerAssumption DEF Fitted
<1> QED
  BY <1>1, <1>5, <1>6 DEF BannerInv, OnlyBannerSent

(* send_cnxn_frame(): no byte of the frame that holds the banner is sent     *)
(* without having been written, unless the device does not fit; then bytes   *)
(* outside its memory are sent.                                              *)
THEOREM BannerSent == Spec => []OnlyBannerSent
<1>1. BannerInv => OnlyBannerSent
  BY DEF BannerInv
<1> QED
  BY <1>1, BannerInvInit, BannerInvNext, PTL DEF Spec

-----------------------------------------------------------------------------
(* The banner is all of its parts, or as much as there is room for.          *)

\* Total is the running sum of the parts, and never decreases.
LEMMA TotalFacts ==
  ASSUME Printed
  PROVE  /\ Len(parts) \in 2..5
         /\ \A n \in 1..Len(parts) : parts[n] \in Nat
         /\ RunningSum(Total, parts, Len(parts))
         /\ \A m, n \in 0..Len(parts) : m <= n => Total[m] <= Total[n]
<1>1. Len(parts) \in 2..5
  <2>1. PICK m \in 2..5 : parts \in [1..m -> PartLengths]
    BY DEF Printed
  <2> QED BY <2>1
<1>2. \A n \in 1..Len(parts) : parts[n] \in Nat
  BY PartLength
<1>3. Len(parts) \in Nat
  BY <1>1
<1> DEFINE Sum(f) == f = [k \in 0..Len(parts) |-> IF k = 0 THEN 0
                                                  ELSE f[k - 1] + parts[k]]
<1>4. \E f : Sum(f)
  BY <1>2, <1>3, SumExists, SumDefined
<1>5. Total = CHOOSE f : Sum(f)
  BY DEF Total
<1> HIDE DEF Sum
<1>6. Sum(Total)
  BY <1>4, <1>5
<1>7. RunningSum(Total, parts, Len(parts))
  BY <1>2, <1>3, <1>6, SumDefined DEF Sum
<1> QED BY <1>1, <1>2, <1>3, <1>7, SumMonotone

LEMMA TotalStays ==
  ASSUME UNCHANGED parts
  PROVE  UNCHANGED Total
BY DEF Total

\* What was printed so far is the sum of the parts so far, and fits.
Summed ==
  /\ next <= Len(parts) + 1
  /\ next = 1 => remaining = Bufsize
  /\ ~done /\ next > 1 => /\ parts[1] < Bufsize
                          /\ Bufsize - remaining + len = Total[next - 1]

CompleteInv == Printed /\ Summed /\ BannerComplete

LEMMA CompleteNext ==
  CompleteInv /\ Printed' /\ [Next]_bvars => CompleteInv'
<1> SUFFICES ASSUME CompleteInv, Printed', [Next]_bvars PROVE CompleteInv'
  OBVIOUS
<1> DEFINE N == Len(parts)
<1>1. /\ N \in 2..5 /\ \A n \in 1..N : parts[n] \in Nat
      /\ Total[0] = 0
      /\ \A n \in 0..N : Total[n] \in Nat
      /\ \A n \in 1..N : Total[n] = Total[n - 1] + parts[n]
      /\ \A n \in 0..N : Total[n] <= Total[N]
  <2>1. Printed
    BY DEF CompleteInv
  <2>2. N \in 2..5 /\ RunningSum(Total, parts, N)
    BY <2>1, TotalFacts
  <2>3. N \in 0..N
    BY <2>2
  <2>4. \A n \in 0..N : Total[n] <= Total[N]
    BY <2>1, <2>3, TotalFacts
  <2>5. \A n \in 1..N : parts[n] \in Nat
    BY <2>1, TotalFacts
  <2> HIDE DEF N
  <2> QED BY <2>2, <2>4, <2>5 DEF RunningSum
<1>2. /\ remaining \in 1..Bufsize /\ next \in Nat \ {0} /\ Bufsize \in Nat
      /\ (~done => len \in 0..(remaining - 1))
  BY BannerAssumption DEF CompleteInv, Printed
<1> HIDE DEF N
<1>3. CASE PrintDevice
  <2>1. /\ ~done /\ next = 1 /\ remaining = Bufsize /\ next' = 2
        /\ len' = parts[1] /\ UNCHANGED <<parts, remaining, Total>>
        /\ done' = (parts[1] >= Bufsize)
        /\ ~done' => ~(parts[1] >= Bufsize)
        /\ parts[1] >= Bufsize => result' = -1
    BY <1>3, TotalStays
    DEF PrintDevice, Snprintf, ReturnIf, CompleteInv, Summed
  <2>2. parts[1] \in Nat /\ Total[1] = parts[1]
    BY <1>1
  <2>3. Summed'
    <3>1. ~done' => parts[1] < Bufsize
      BY <1>2, <2>1, <2>2
    <3>2. Bufsize - remaining' + len' = Total'[next' - 1]
      BY <1>2, <2>1, <2>2
    <3> QED BY <1>1, <2>1, <3>1, <3>2 DEF Summed, N
  <2>4. BannerComplete'
    BY <2>1 DEF BannerComplete
  <2> QED BY <2>3, <2>4 DEF CompleteInv
<1>4. CASE PrintNext
  <2> DEFINE room == remaining - len
             part == parts[next]
  <2>1. /\ ~done /\ next > 1 /\ next <= N /\ next' = next + 1
        /\ remaining' = room /\ len' = part /\ UNCHANGED <<parts, Total>>
        /\ done' = (part >= room)
        /\ part >= room => result' = Bufsize
    BY <1>4, TotalStays DEF PrintNext, Snprintf, ReturnIf, N
  <2>2. /\ parts[1] < Bufsize /\ Bufsize - room = Total[next - 1]
        /\ room \in 1..Bufsize
    BY <1>2, <2>1 DEF CompleteInv, Summed
  <2>3. /\ next \in 1..N /\ part \in Nat /\ Total[next - 1] \in Nat
        /\ Total[next] = Total[next - 1] + part
        /\ Total[next] <= Total[N] /\ Total[N] \in Nat
    BY <1>1, <1>2, <2>1
  <2>4. Summed'
    <3>1. Bufsize - remaining' + len' = Total'[next' - 1]
      BY <1>2, <2>1, <2>2, <2>3
    <3>2. next' <= N + 1 /\ next' # 1
      BY <1>1, <1>2, <2>1
    <3> QED BY <2>1, <2>2, <3>1, <3>2 DEF Summed, N
  <2>5. BannerComplete'
    <3>1. SUFFICES ASSUME part >= room PROVE BannerComplete'
      BY <2>1 DEF BannerComplete
    <3>2. Total[N] >= Bufsize
      BY <1>2, <2>2, <2>3, <3>1
    <3>3. Min2(Total[N], Bufsize) = Bufsize
      BY <1>2, <2>3, <3>2 DEF Min2
    <3>4. ~(parts[1] >= Bufsize)
      BY <1>1, <1>2, <2>2
    <3> QED BY <2>1, <3>1, <3>3, <3>4 DEF BannerComplete, N
  <2> QED BY <2>4, <2>5 DEF CompleteInv
<1>5. CASE Return
  <2>1. /\ ~done /\ next > N /\ done' = TRUE
        /\ result' = Bufsize - remaining + len
        /\ UNCHANGED <<parts, next, remaining, len, Total>>
    BY <1>5, TotalStays DEF Return, ReturnIf, N
  <2>2. next = N + 1 /\ next > 1
    <3>1. next <= N + 1
      BY DEF CompleteInv, Summed, N
    <3> QED BY <1>1, <1>2, <2>1, <3>1
  <2>3. parts[1] < Bufsize /\ result' = Total[N]
    <3>1. next - 1 = N
      BY <1>1, <2>2
    <3> QED BY <2>1, <2>2, <3>1 DEF CompleteInv, Summed
  <2>4. Total[N] <= Bufsize
    BY <1>1, <1>2, <2>1, <2>3
  <2>5. Min2(Total[N], Bufsize) = Total[N] /\ ~(parts[1] >= Bufsize)
    BY <1>1, <1>2, <2>3, <2>4 DEF Min2
  <2>6. BannerComplete'
    BY <2>1, <2>3, <2>5 DEF BannerComplete, N
  <2>7. Summed'
    BY <1>1, <2>1, <2>2 DEF CompleteInv, Summed, N
  <2> QED BY <2>6, <2>7 DEF CompleteInv
<1>6. CASE UNCHANGED bvars
  <2>1. UNCHANGED <<parts, next, remaining, len, done, result, Total>>
    BY <1>6, TotalStays DEF bvars
  <2> QED BY <2>1 DEF CompleteInv, Summed, BannerComplete
<1> QED
  BY <1>3, <1>4, <1>5, <1>6 DEF Next

\* adb_fill_connect_data(): what the host gets is all the parts one after the
\* other, cut where the buffer ends; none is left out before one that is sent.
THEOREM BannerCompleteCorrect == Spec => []BannerComplete
<1>1. Init => CompleteInv
  <2> SUFFICES ASSUME Init PROVE CompleteInv
    OBVIOUS
  <2>1. Printed
    BY BannerInvInit DEF BannerInv
  <2>2. next = 1 /\ remaining = Bufsize /\ done = FALSE
    BY DEF Init
  <2>3. Len(parts) \in 2..5
    BY <2>1, TotalFacts
  <2> QED BY <2>1, <2>2, <2>3 DEF CompleteInv, Summed, BannerComplete
<1>2. BannerInv => Printed
  BY DEF BannerInv
<1>3. CompleteInv => BannerComplete
  BY DEF CompleteInv
<1> QED
  BY <1>1, <1>2, <1>3, BannerInvInit, BannerInvNext, CompleteNext, PTL DEF Spec
=============================================================================
