--------------------------- MODULE QrScans_proofs ---------------------------
(***************************************************************************)
(* Proofs about QrScans, for any number of scans and administration        *)
(* requests under way, any limits and any calendar. The inductive          *)
(* invariant IInv is stated in the module.                                 *)
(***************************************************************************)
EXTENDS GateScans, EventQrs, EventSchedules, HolderPhotos, FiniteSetTheorems, TLAPS

-----------------------------------------------------------------------------
(* The scans that are late *)

\* The late scans of a period are counted by a number that the scanners bound.
LEMMA LateBounded ==
    ASSUME NEW d
    PROVE  /\ IsFiniteSet(Late(d))
           /\ Cardinality(Late(d)) \in Nat
           /\ Cardinality(Scanner) \in Nat \ {0}
           /\ Cardinality(Late(d)) <= Cardinality(Scanner)
<1>1. Late(d) \subseteq Scanner
    BY DEF Late
<1>2. IsFiniteSet(Late(d)) /\ Cardinality(Late(d)) <= Cardinality(Scanner)
    BY <1>1, FS_Subset, QrConstantsOK
<1>3. Cardinality(Late(d)) \in Nat /\ Cardinality(Scanner) \in Nat
    BY <1>2, FS_CardinalityType, QrConstantsOK
<1>4. Cardinality(Scanner) # 0
    BY FS_EmptySet, QrConstantsOK
<1> QED BY <1>2, <1>3, <1>4

\* When a scan ends, no period has more late scans, and the one in which it was to
\* be judged has one less.
LEMMA ScanEnds ==
    ASSUME TypeOK, NEW s \in Scanner, scan[s] # NoScan,
           scan' = [scan EXCEPT ![s] = NoScan]
    PROVE  /\ scan[s] \in Periods
           /\ scan' \in [Scanner -> Periods \cup {NoScan}]
           /\ \A d \in Periods :
                /\ Late(d)' \subseteq Late(d)
                /\ Cardinality(Late(d)') \in Nat
                /\ Cardinality(Late(d)) \in Nat
                /\ Cardinality(Late(d)') <= Cardinality(Late(d))
                /\ scan[s] = d => Cardinality(Late(d)') = Cardinality(Late(d)) - 1
<1>1. scan[s] \in Periods /\ scan' \in [Scanner -> Periods \cup {NoScan}]
    BY DEF TypeOK
<1>2. SUFFICES ASSUME NEW d \in Periods
               PROVE  /\ Late(d)' \subseteq Late(d)
                      /\ Cardinality(Late(d)') \in Nat
                      /\ Cardinality(Late(d)) \in Nat
                      /\ Cardinality(Late(d)') <= Cardinality(Late(d))
                      /\ scan[s] = d =>
                            Cardinality(Late(d)') = Cardinality(Late(d)) - 1
    BY <1>1
<1>3. d # NoScan
    BY QrConstantsOK
<1>4. Late(d)' = Late(d) \ {s}
    BY <1>3 DEF Late, TypeOK
<1>5. IsFiniteSet(Late(d)) /\ Cardinality(Late(d)) \in Nat
    BY LateBounded
<1>6. IsFiniteSet(Late(d)') /\ Cardinality(Late(d)') <= Cardinality(Late(d))
    BY <1>4, <1>5, FS_Subset
<1>7. Cardinality(Late(d)') \in Nat
    BY <1>6, FS_CardinalityType
<1>8. ASSUME scan[s] = d
      PROVE  Cardinality(Late(d)') = Cardinality(Late(d)) - 1
  <2>1. s \in Late(d)
      BY <1>8 DEF Late
  <2> QED BY <2>1, <1>4, <1>5, FS_RemoveElement
<1> QED BY <1>4, <1>5, <1>6, <1>7, <1>8

\* The numbers that are compared in what is said about a period.
LEMMA PeriodTypes ==
    ASSUME TypeOK, NEW d \in Periods
    PROVE  /\ d \in Nat /\ period \in Nat
           /\ log[d] \in Nat /\ granted[d] \in Nat
           /\ PeriodLimit \in Nat \ {0}
<1>1. \A e \in Periods : e \in Nat
    BY QrConstantsOK DEF Periods
<1>2. period \in Periods /\ log \in [Periods -> Nat] /\ granted \in [Periods -> Nat]
    BY DEF TypeOK
<1> QED BY <1>1, <1>2, QrConstantsOK

\* Steps that leave the periods, the scans and the journal alone keep what is said
\* about every period.
LEMMA PeriodsUntouched ==
    ASSUME IInv, UNCHANGED <<period, scan, logVars>>
    PROVE  \A d \in Periods : PeriodConsistent(d)'
BY DEF IInv, PeriodConsistent, Late, logVars

-----------------------------------------------------------------------------
(* Initial states *)

LEMMA InitInvariant == Init => IInv
<1> SUFFICES ASSUME Init PROVE IInv
    OBVIOUS
<1>1. TypeOK
  <2>1. 0 \in Periods
      BY QrConstantsOK DEF Periods
  <2> QED BY <2>1, QrConstantsOK DEF Init, TypeOK
<1>2. UsageKept
    BY QrConstantsOK DEF Init, UsageKept, UsedUp
<1>3. RechargesLimited
    BY DEF Init, RechargesLimited
<1>4. ASSUME NEW d \in Periods
      PROVE  PeriodConsistent(d)
  <2>1. d \in Nat /\ ~(d < 0)
      BY QrConstantsOK DEF Periods
  <2>2. Late(d) = {}
      BY QrConstantsOK DEF Init, Late
  <2> QED BY <2>1, <2>2, QrConstantsOK DEF Init, PeriodConsistent
<1> QED BY <1>1, <1>2, <1>3, <1>4 DEF IInv

-----------------------------------------------------------------------------
(* The scans *)

LEMMA BeginScanKeeps ==
    ASSUME IInv, NEW s \in Scanner, BeginScan(s)
    PROVE  IInv'
<1> USE DEF IInv, BeginScan, rowVars, logVars
<1>1. TypeOK'
    BY DEF TypeOK
<1>2. UsageKept' /\ RechargesLimited'
    BY DEF UsageKept, UsedUp, RechargesLimited
<1>3. ASSUME NEW d \in Periods
      PROVE  PeriodConsistent(d)'
  <2>1. d \in Nat /\ period \in Nat
      BY QrConstantsOK DEF TypeOK, Periods
  <2>2. d # period => Late(d)' = Late(d)
    <3>1. d # NoScan
        BY QrConstantsOK
    <3> QED BY <3>1 DEF Late, TypeOK
  <2>3. PeriodConsistent(d)
      OBVIOUS
  <2> QED BY <2>1, <2>2, <2>3 DEF PeriodConsistent
<1> QED BY <1>1, <1>2, <1>3

LEMMA ScanGrantedKeeps ==
    ASSUME IInv, NEW s \in Scanner, ScanGranted(s)
    PROVE  IInv'
<1> USE DEF IInv, ScanGranted
<1>1. /\ scan[s] \in Periods
      /\ scan' \in [Scanner -> Periods \cup {NoScan}]
      /\ \A d \in Periods :
            /\ Late(d)' \subseteq Late(d)
            /\ Cardinality(Late(d)') \in Nat
            /\ Cardinality(Late(d)) \in Nat
            /\ Cardinality(Late(d)') <= Cardinality(Late(d))
            /\ scan[s] = d => Cardinality(Late(d)') = Cardinality(Late(d)) - 1
    BY ScanEnds
<1>2. TypeOK'
    BY <1>1 DEF TypeOK
<1>3. UsageKept'
    BY DEF TypeOK, UsageKept, UsedUp, Admissible
<1>4. RechargesLimited'
    BY DEF RechargesLimited
<1>5. ASSUME NEW d \in Periods
      PROVE  PeriodConsistent(d)'
  <2>1. /\ d \in Nat /\ period \in Nat /\ scan[s] \in Nat
        /\ log[d] \in Nat /\ granted[d] \in Nat /\ PeriodLimit \in Nat
        /\ Cardinality(Scanner) \in Nat \ {0}
    <3>1. scan[s] \in Nat
        BY <1>1, QrConstantsOK DEF Periods
    <3>2. Cardinality(Scanner) \in Nat \ {0}
        BY LateBounded
    <3> QED BY <3>1, <3>2, PeriodTypes
  <2>2. PeriodConsistent(d)
      OBVIOUS
  <2>3. scan[s] <= period
    <3>1. SUFFICES ASSUME scan[s] > period PROVE FALSE
        BY <2>1
    <3>2. Late(scan[s]) = {}
        BY <1>1, <3>1 DEF PeriodConsistent
    <3> QED BY <3>2 DEF Late
  <2>4. /\ log'[d] = IF d = period THEN log[d] + 1 ELSE log[d]
        /\ granted'[d] = IF d = scan[s] THEN granted[d] + 1 ELSE granted[d]
        /\ period' = period
      BY DEF TypeOK
  <2>5. CASE d > period
      BY <1>1, <2>1, <2>2, <2>3, <2>4, <2>5 DEF PeriodConsistent
  <2>6. CASE d = period
    <3>1. granted[d] <= log[d] /\ granted[d] <= PeriodLimit
        BY <2>1, <2>2, <2>6 DEF PeriodConsistent
    <3>2. d = scan[s] => log[d] < PeriodLimit
        BY DEF WithinPeriod
    <3> QED BY <2>1, <2>4, <2>6, <3>1, <3>2 DEF PeriodConsistent
  <2>7. CASE d < period
    <3>1. CASE d = scan[s]
      <4>1. log[d] < PeriodLimit
          BY <3>1 DEF WithinPeriod
      <4>2. granted[d] + Cardinality(Late(d))
              <= PeriodLimit - 1 + Cardinality(Scanner)
          BY <2>1, <2>2, <2>7, <4>1 DEF PeriodConsistent
      <4>3. granted'[d] + Cardinality(Late(d)')
              = granted[d] + Cardinality(Late(d))
          BY <1>1, <2>1, <2>4, <3>1
      <4> QED BY <2>1, <2>4, <2>7, <4>2, <4>3 DEF PeriodConsistent
    <3>2. CASE d # scan[s]
      <4>1. granted'[d] = granted[d] /\ log'[d] = log[d]
          BY <2>1, <2>4, <2>7, <3>2
      <4>2. /\ Cardinality(Late(d)') \in Nat /\ Cardinality(Late(d)) \in Nat
            /\ Cardinality(Late(d)') <= Cardinality(Late(d))
          BY <1>1
      <4> QED BY <2>1, <2>2, <2>4, <2>7, <4>1, <4>2 DEF PeriodConsistent
    <3> QED BY <3>1, <3>2
  <2> QED BY <2>1, <2>5, <2>6, <2>7
<1> QED BY <1>2, <1>3, <1>4, <1>5

LEMMA ScanRefusedKeeps ==
    ASSUME IInv, NEW s \in Scanner, ScanRefused(s)
    PROVE  IInv'
<1> USE DEF IInv, ScanRefused, rowVars, logVars
<1>1. /\ scan' \in [Scanner -> Periods \cup {NoScan}]
      /\ \A d \in Periods :
            /\ Late(d)' \subseteq Late(d)
            /\ Cardinality(Late(d)') \in Nat
            /\ Cardinality(Late(d)) \in Nat
            /\ Cardinality(Late(d)') <= Cardinality(Late(d))
    BY ScanEnds
<1>2. TypeOK'
    BY <1>1 DEF TypeOK
<1>3. UsageKept' /\ RechargesLimited'
    BY DEF UsageKept, UsedUp, RechargesLimited
<1>4. ASSUME NEW d \in Periods
      PROVE  PeriodConsistent(d)'
  <2>1. /\ d \in Nat /\ period \in Nat /\ granted[d] \in Nat /\ log[d] \in Nat
        /\ Cardinality(Scanner) \in Nat /\ PeriodLimit \in Nat
      BY LateBounded, PeriodTypes
  <2>2. PeriodConsistent(d)
      OBVIOUS
  <2>3. /\ Late(d)' \subseteq Late(d)
        /\ Cardinality(Late(d)') \in Nat /\ Cardinality(Late(d)) \in Nat
        /\ Cardinality(Late(d)') <= Cardinality(Late(d))
      BY <1>1
  <2>4. period' = period /\ granted' = granted /\ log' = log
      OBVIOUS
  <2>5. d > period => Late(d)' = {}
      BY <2>2, <2>3 DEF PeriodConsistent
  <2> QED BY <2>1, <2>2, <2>3, <2>4, <2>5 DEF PeriodConsistent
<1> QED BY <1>2, <1>3, <1>4

-----------------------------------------------------------------------------
(* The administrator and the calendar *)

LEMMA RequestKeeps ==
    ASSUME IInv, NEW a \in Admin, Request(a)
    PROVE  IInv'
<1> USE DEF IInv
<1>1. UNCHANGED <<period, scan, logVars>>
    BY DEF Request, BeginRestore, RestoreQr, BeginRecharge, RechargeQr, RequestStops,
           rowVars
<1>2. \A d \in Periods : PeriodConsistent(d)'
    BY <1>1, PeriodsUntouched
<1>3. CASE BeginRestore(a) \/ BeginRecharge(a) \/ RequestStops(a)
    BY <1>2, <1>3 DEF BeginRestore, BeginRecharge, RequestStops, TypeOK, UsageKept,
                      UsedUp, RechargesLimited, rowVars, logVars
<1>4. CASE RestoreQr(a)
    BY <1>2, <1>4 DEF RestoreQr, TypeOK, UsageKept, RechargesLimited, logVars
<1>5. CASE RechargeQr(a)
  <2>1. PICK c \in Credit : limit' = limit + c
      BY <1>5 DEF RechargeQr
  <2>2. limit \in Nat \ {0} /\ c \in Nat \ {0} /\ count \in Nat
      BY <1>5, QrConstantsOK DEF RechargeQr, RechargesLimited, TypeOK
  <2>3. UsageKept'
      BY <1>5, <2>1, <2>2 DEF RechargeQr, UsageKept
  <2>4. TypeOK' /\ RechargesLimited'
      BY <1>5, <2>1, <2>2 DEF RechargeQr, TypeOK, RechargesLimited, logVars
  <2> QED BY <1>2, <2>3, <2>4
<1> QED BY <1>3, <1>4, <1>5 DEF Request

LEMMA RevocationKeeps ==
    ASSUME IInv, RevokeQr \/ DeleteEvent
    PROVE  IInv'
<1> USE DEF IInv
<1>1. \A d \in Periods : PeriodConsistent(d)'
    BY PeriodsUntouched DEF RevokeQr, DeleteEvent
<1> QED BY <1>1 DEF RevokeQr, DeleteEvent, TypeOK, UsageKept, RechargesLimited, logVars

LEMMA PeriodEndsKeeps ==
    ASSUME IInv, PeriodEnds
    PROVE  IInv'
<1> USE DEF IInv, PeriodEnds, rowVars, logVars
<1>1. TypeOK'
    BY QrConstantsOK DEF TypeOK, Periods
<1>2. UsageKept' /\ RechargesLimited'
    BY DEF UsageKept, UsedUp, RechargesLimited
<1>3. ASSUME NEW d \in Periods
      PROVE  PeriodConsistent(d)'
  <2>1. /\ d \in Nat /\ period \in Nat /\ granted[d] \in Nat /\ log[d] \in Nat
        /\ PeriodLimit \in Nat
        /\ Cardinality(Scanner) \in Nat \ {0} /\ Cardinality(Late(d)) \in Nat
        /\ Cardinality(Late(d)) <= Cardinality(Scanner)
      BY LateBounded, PeriodTypes
  <2>2. PeriodConsistent(d)
      OBVIOUS
  <2>3. Late(d)' = Late(d)
      BY DEF Late
  <2>4. period' = period + 1 /\ granted' = granted /\ log' = log
      OBVIOUS
  <2> QED BY <2>1, <2>2, <2>3, <2>4 DEF PeriodConsistent
<1> QED BY <1>1, <1>2, <1>3

-----------------------------------------------------------------------------
(* Theorems *)

LEMMA NextInvariant == IInv /\ [Next]_vars => IInv'
<1> SUFFICES ASSUME IInv, [Next]_vars PROVE IInv'
    OBVIOUS
<1>1. ASSUME NEW s \in Scanner, Scan(s)
      PROVE  IInv'
    BY <1>1, BeginScanKeeps, ScanGrantedKeeps, ScanRefusedKeeps DEF Scan
<1>2. ASSUME NEW a \in Admin, Request(a)
      PROVE  IInv'
    BY <1>2, RequestKeeps
<1>3. CASE RevokeQr \/ DeleteEvent
    BY <1>3, RevocationKeeps
<1>4. CASE PeriodEnds
    BY <1>4, PeriodEndsKeeps
<1>5. CASE UNCHANGED vars
    BY <1>5 DEF vars, rowVars, logVars, IInv, TypeOK, UsageKept, UsedUp,
                RechargesLimited, PeriodConsistent, Late
<1> QED BY <1>1, <1>2, <1>3, <1>4, <1>5 DEF Next

\* Whatever scans and administration requests overlap, the row, the journal and the
\* scans under way stay consistent (verifyAndRecordScan, restoreQr, rechargeQr).
THEOREM InvariantHolds == Spec => []IInv
<1> QED BY InitInvariant, NextInvariant, PTL DEF Spec

\* A limited pass never opens more often than it was paid for, for any number of
\* scanners (verifyAndRecordScan under the lock of the row).
THEOREM PassesNotOverused == Spec => []UsageKept
<1>1. IInv => UsageKept
    BY DEF IInv
<1> QED BY <1>1, InvariantHolds, PTL

\* However the scans fall around the end of a period, at most one less than there
\* are of them at a time open beyond its limit (applyPeriodLimit).
THEOREM OverrunIsBounded == Spec => []OverrunBounded
<1>1. ASSUME IInv, NEW d \in Periods
      PROVE  granted[d] <= PeriodLimit - 1 + Cardinality(Scanner)
  <2>1. /\ d \in Nat /\ period \in Nat /\ granted[d] \in Nat /\ log[d] \in Nat
        /\ PeriodLimit \in Nat \ {0}
        /\ Cardinality(Scanner) \in Nat \ {0} /\ Cardinality(Late(d)) \in Nat
      BY <1>1, LateBounded, PeriodTypes DEF IInv
  <2>2. PeriodConsistent(d)
      BY <1>1 DEF IInv
  <2> QED BY <2>1, <2>2 DEF PeriodConsistent
<1>2. IInv => OverrunBounded
    BY <1>1 DEF OverrunBounded
<1> QED BY <1>2, InvariantHolds, PTL
-----------------------------------------------------------------------------
(* The screens around the gates *)

Green == {s \in Scanner : answer[s] = "GRANTED"}

LEMMA AgeTypes ==
    /\ AcceptedPastSteps = 1 /\ TooOld = 2 /\ Ages = 0 .. 2 /\ Ages \subseteq Nat
    /\ NoCode \notin Ages
BY GateConstantsOK DEF AcceptedPastSteps, TooOld, Ages

\* Codes grow older together: one that was not newer than another is not so now.
LEMMA OlderKeepsOrder ==
    ASSUME NEW c \in Codes, NEW d \in Codes, d # NoCode => c # NoCode /\ c <= d
    PROVE  /\ Older(c) \in Codes
           /\ Older(d) # NoCode => Older(c) # NoCode /\ Older(c) <= Older(d)
BY AgeTypes DEF Codes, Older

\* The answers that are on their way to a phone are counted by a number.
LEMMA GreenCount == ASSUME NEW S, S \subseteq Scanner
                    PROVE  IsFiniteSet(S) /\ Cardinality(S) \in Nat
BY FS_Subset, FS_CardinalityType, QrConstantsOK

\* An answer that leaves or is taken changes the number of those that say yes by one.
LEMMA AnswerCount ==
    ASSUME NEW s \in Scanner, NEW S, S \subseteq Scanner
    PROVE  /\ s \notin S => Cardinality(S \cup {s}) = Cardinality(S) + 1
           /\ s \in S => Cardinality(S \ {s}) = Cardinality(S) - 1
BY GreenCount, FS_AddElement, FS_RemoveElement

LEMMA GateInitInvariant == GateInit => GateIInv
<1> SUFFICES ASSUME GateInit PROVE GateIInv
    OBVIOUS
<1>1. IInv
    BY InitInvariant DEF GateInit
<1>2. GateTypeOK /\ AnsweredOnce /\ CodesComeFromServer
    BY AgeTypes, GateConstantsOK DEF GateInit, GateTypeOK, Codes, AnsweredOnce, CodesComeFromServer, NotNewer
<1>3. ScreensAccounted
  <2>1. {s \in Scanner : answer[s] = "GRANTED"} = {}
      BY DEF GateInit
  <2>2. count = 0 /\ green = 0 /\ unseen = 0
      BY DEF GateInit, Init
  <2> QED BY <2>1, <2>2, FS_EmptySet DEF ScreensAccounted
<1> QED BY <1>1, <1>2, <1>3 DEF GateIInv

\* Each step at the gates is one of the row, or leaves the row alone.
LEMMA GateStepsAreRowSteps == GateNext => [Next]_vars
<1> SUFFICES ASSUME GateNext PROVE [Next]_vars
    OBVIOUS
<1>1. ASSUME NEW p \in Phone, Phones(p) PROVE [Next]_vars
    BY <1>1 DEF Phones, StartScanner, Dismiss, TimerFires, Restart, StopScanner, ReadQr
<1>2. ASSUME NEW s \in Scanner, Requests(s) PROVE [Next]_vars
    BY <1>2 DEF Requests, Ask, AskFails, Verify, ShowAnswer, LoseAnswer, ShowResult, Next, Scan
<1>3. CASE BoxPage \/ StepEnds
    BY <1>3 DEF BoxPage, ShowPage, ReloadQr, ConcealQr, CaptureQr, Load, StepEnds
<1>4. CASE DayEnds \/ Administration
    BY <1>4 DEF DayEnds, Administration, Next
<1> QED BY <1>1, <1>2, <1>3, <1>4 DEF GateNext

\* The parts of the invariant that only the screens and the codes touch.
GateRest == GateTypeOK /\ AnsweredOnce /\ CodesComeFromServer /\ ScreensAccounted

\* The codes grow older, with the row as it is but for its period.
LEMMA AgeKeeps ==
    ASSUME GateRest, Age, count' = count, scan' = scan
    PROVE  GateRest'
<1>1. loaded \in Codes /\ Older(loaded) \in Codes
    BY AgeTypes DEF GateRest, GateTypeOK, Older, Codes
<1>2. ASSUME NEW c \in Codes, NotNewer(c)
      PROVE  /\ Older(c) \in Codes
             /\ Older(c) # NoCode => Older(loaded) # NoCode /\ Older(loaded) <= Older(c)
  <2>1. Older(c) \in Codes
      BY AgeTypes DEF Older, Codes
  <2> QED BY <1>2, <1>1, <2>1, OlderKeepsOrder DEF NotNewer
<1>3. /\ shown \in Codes /\ NotNewer(shown) /\ capture \in Codes /\ NotNewer(capture)
      /\ \A s \in Scanner : read[s] \in Codes /\ NotNewer(read[s])
    BY DEF GateRest, GateTypeOK, CodesComeFromServer
<1>4. GateTypeOK' /\ CodesComeFromServer'
    BY <1>2, <1>1, <1>3 DEF GateRest, GateTypeOK, CodesComeFromServer, NotNewer, Age, serverVars, screenVars
<1>5. \A s \in Scanner : read'[s] # NoCode => read[s] # NoCode
    BY AgeTypes DEF Age, Older
<1>6. AnsweredOnce' /\ ScreensAccounted'
    BY <1>5 DEF GateRest, AnsweredOnce, Awaited, ScreensAccounted, Age, serverVars
<1> QED BY <1>4, <1>6 DEF GateRest

LEMMA BoxPageKeeps ==
    ASSUME GateRest, BoxPage
    PROVE  GateRest'
<1>1. UNCHANGED <<vars, phoneVars, serverVars>>
    BY DEF BoxPage, ShowPage, ReloadQr, ConcealQr, CaptureQr, Load
<1>2. AnsweredOnce' /\ ScreensAccounted'
    BY <1>1 DEF GateRest, AnsweredOnce, Awaited, ScreensAccounted, serverVars, phoneVars, vars, rowVars
<1>3. GateTypeOK' /\ CodesComeFromServer'
  <2> USE AgeTypes DEF GateRest, GateTypeOK, CodesComeFromServer, NotNewer, Codes,
                       serverVars, phoneVars, screenVars
  <2>1. CASE shown' = 0 /\ loaded' = 0 /\ capture' = capture
      BY <1>1, <2>1
  <2>2. CASE UNCHANGED <<shown, loaded, capture>>
      BY <1>1, <2>2
  <2>3. CASE shown' = NoCode /\ UNCHANGED <<loaded, capture>>
      BY <1>1, <2>3
  <2>4. CASE capture' = shown /\ UNCHANGED <<shown, loaded>>
      BY <1>1, <2>4
  <2> QED BY <2>1, <2>2, <2>3, <2>4
          DEF BoxPage, ShowPage, ReloadQr, ConcealQr, CaptureQr, Load, RenderTicketQr
<1> QED BY <1>2, <1>3 DEF GateRest

\* A phone at its screen and its camera.
LEMMA PhoneKeeps ==
    ASSUME GateRest, NEW p \in Phone, Phones(p)
    PROVE  GateRest'
<1>1. UNCHANGED <<vars, green, codeVars, serverVars>>
    BY DEF Phones, StartScanner, Dismiss, TimerFires, Restart, StopScanner, ReadQr
<1>2. /\ flash' \in [Phone -> {"NONE", "GREEN", "PHOTO", "RED"}] /\ camera' \in [Phone -> BOOLEAN]
      /\ timers' \in [Phone -> Nat]
  <2>1. /\ flash \in [Phone -> {"NONE", "GREEN", "PHOTO", "RED"}] /\ camera \in [Phone -> BOOLEAN]
        /\ timers \in [Phone -> Nat]
      BY DEF GateRest, GateTypeOK
  <2>2. CASE TimerFires(p)
      BY <2>1, <2>2 DEF TimerFires, Restart
  <2>3. CASE StartScanner(p) \/ Dismiss(p) \/ StopScanner(p) \/ \E s \in Scanner : ReadQr(p, s)
      BY <2>1, <2>3 DEF StartScanner, Dismiss, Restart, StopScanner, ReadQr
  <2> QED BY <2>2, <2>3 DEF Phones
<1>3. CASE UNCHANGED <<asker, read>>
    BY <1>1, <1>2, <1>3 DEF GateRest, GateTypeOK, CodesComeFromServer, NotNewer, AnsweredOnce, Awaited,
                            ScreensAccounted, serverVars, codeVars, vars, rowVars
<1>4. ASSUME NEW s \in Scanner, NEW c \in {shown, capture} \ {NoCode}, Free(s),
             asker' = [asker EXCEPT ![s] = p], read' = [read EXCEPT ![s] = c]
      PROVE  GateRest'
  <2>1. GateTypeOK' /\ CodesComeFromServer'
      BY <1>1, <1>2, <1>4 DEF GateRest, GateTypeOK, CodesComeFromServer, NotNewer, serverVars, codeVars
  <2>2. p # NoPhone /\ scan[s] = NoScan /\ answer[s] = "NONE"
      BY <1>4, GateConstantsOK DEF Free, GateRest, AnsweredOnce, Awaited
  <2>3. AnsweredOnce'
      BY <1>1, <1>4, <2>2 DEF GateRest, GateTypeOK, AnsweredOnce, Awaited, serverVars, vars
  <2>4. ScreensAccounted'
      BY <1>1 DEF GateRest, ScreensAccounted, serverVars, vars, rowVars
  <2> QED BY <2>1, <2>3, <2>4 DEF GateRest
<1> QED BY <1>3, <1>4 DEF Phones, StartScanner, Dismiss, TimerFires, Restart, StopScanner, ReadQr

LEMMA AskKeeps ==
    ASSUME TypeOK, GateRest, NEW s \in Scanner, Ask(s)
    PROVE  GateRest'
<1>1. /\ answer' = answer /\ green' = green /\ unseen' = unseen
      /\ UNCHANGED <<codeVars, screenVars, asker>> /\ count' = count
      /\ read[s] # NoCode /\ scan' = [scan EXCEPT ![s] = period]
      /\ read' = [read EXCEPT ![s] = NoCode]
      /\ fresh' = [fresh EXCEPT ![s] = Accepted(read[s])]
    BY DEF Ask, BeginScan, rowVars
<1>2. ScreensAccounted'
    BY <1>1 DEF GateRest, ScreensAccounted
<1>3. AnsweredOnce'
    BY <1>1 DEF GateRest, GateTypeOK, AnsweredOnce, Awaited, TypeOK
<1>4. Accepted(read[s]) \in BOOLEAN
    BY DEF Accepted
<1>5. GateTypeOK'
    BY <1>1, <1>4 DEF GateRest, GateTypeOK, Codes, codeVars, screenVars
<1>6. CodesComeFromServer'
    BY <1>1 DEF GateRest, GateTypeOK, CodesComeFromServer, NotNewer, codeVars
<1> QED BY <1>2, <1>3, <1>5, <1>6 DEF GateRest

\* What counts when answers change: the codes are left alone.
LEMMA AnswersChange ==
    ASSUME TypeOK, TypeOK', GateRest, NEW s \in Scanner,
           NEW a \in {"NONE", "GRANTED", "REFUSED"},
           answer' = [answer EXCEPT ![s] = a],
           a # "NONE" => scan'[s] = NoScan /\ Awaited(s)',
           \A t \in Scanner \ {s} : scan'[t] = scan[t] /\ asker'[t] = asker[t],
           asker' \in [Scanner -> Phone \cup {NoPhone}],
           fresh' \in [Scanner -> BOOLEAN],
           flash' \in [Phone -> {"NONE", "GREEN", "PHOTO", "RED"}], timers' \in [Phone -> Nat],
           UNCHANGED <<codeVars, camera, read>>, read[s] = NoCode,
           {green', unseen'} \subseteq Nat,
           (count' - count) = (green' - green) + (unseen' - unseen)
              + (IF a = "GRANTED" THEN 1 ELSE 0) - (IF answer[s] = "GRANTED" THEN 1 ELSE 0)
    PROVE  GateRest'
<1>1. GateTypeOK' /\ CodesComeFromServer'
    BY DEF GateRest, GateTypeOK, CodesComeFromServer, NotNewer, codeVars
<1>2. AnsweredOnce'
    BY DEF GateRest, GateTypeOK, AnsweredOnce, Awaited
<1>3. ScreensAccounted'
  <2>1. /\ answer \in [Scanner -> {"NONE", "GRANTED", "REFUSED"}]
        /\ Green \in SUBSET Scanner
        /\ Green' = IF a = "GRANTED" THEN Green \cup {s} ELSE Green \ {s}
        /\ s \in Green <=> answer[s] = "GRANTED"
      BY DEF Green, GateRest, GateTypeOK
  <2>2. Cardinality(Green') = Cardinality(Green) + (IF a = "GRANTED" THEN 1 ELSE 0)
                                - (IF answer[s] = "GRANTED" THEN 1 ELSE 0)
    <3>1. Cardinality(Green) \in Nat
        BY <2>1, GreenCount
    <3>2. CASE a = "GRANTED" /\ s \in Green
      <4>1. Green' = Green
          BY <2>1, <3>2
      <4>2. answer[s] = "GRANTED"
          BY <2>1, <3>2
      <4> QED BY <3>1, <3>2, <4>1, <4>2
    <3>3. CASE a = "GRANTED" /\ s \notin Green
        BY <2>1, <3>1, <3>3, AnswerCount
    <3>4. CASE a # "GRANTED" /\ s \in Green
        BY <2>1, <3>1, <3>4, AnswerCount
    <3>5. CASE a # "GRANTED" /\ s \notin Green
      <4>1. Green' = Green
          BY <2>1, <3>5
      <4>2. answer[s] # "GRANTED"
          BY <2>1, <3>5
      <4> QED BY <3>1, <3>5, <4>1, <4>2
    <3> QED BY <3>2, <3>3, <3>4, <3>5
  <2>3. Cardinality(Green) \in Nat /\ Cardinality(Green') \in Nat
    <3>1. Green' \subseteq Scanner
        BY <2>1
    <3> QED BY <2>1, <3>1, GreenCount
  <2>4. count = green + unseen + Cardinality(Green)
      BY DEF GateRest, ScreensAccounted, Green
  <2>5. /\ count \in Nat /\ count' \in Nat /\ green \in Nat /\ unseen \in Nat
        /\ green' \in Nat /\ unseen' \in Nat
      BY DEF TypeOK, GateRest, GateTypeOK
  <2>6. count' = green' + unseen' + Cardinality(Green')
      BY <2>2, <2>3, <2>4, <2>5
  <2> QED BY <2>6 DEF ScreensAccounted, Green
<1> QED BY <1>1, <1>2, <1>3 DEF GateRest

LEMMA VerifyKeeps ==
    ASSUME TypeOK, TypeOK', GateRest, NEW s \in Scanner, Verify(s)
    PROVE  GateRest'
<1>1. /\ scan[s] # NoScan /\ scan' = [scan EXCEPT ![s] = NoScan] /\ answer[s] = "NONE" /\ read[s] = NoCode
      /\ scan'[s] = NoScan /\ \A t \in Scanner \ {s} : scan'[t] = scan[t] /\ asker'[t] = asker[t]
    BY DEF Verify, ScanGranted, ScanRefused, GateRest, AnsweredOnce, TypeOK, phoneVars
<1>2. /\ asker' = asker /\ green' = green /\ UNCHANGED <<codeVars, camera, read, flash, timers>>
      /\ fresh' = [fresh EXCEPT ![s] = FALSE] /\ Awaited(s)' = Awaited(s)
    BY DEF Verify, phoneVars, screenVars, Awaited
<1>3. /\ asker' \in [Scanner -> Phone \cup {NoPhone}] /\ fresh' \in [Scanner -> BOOLEAN]
      /\ flash' \in [Phone -> {"NONE", "GREEN", "PHOTO", "RED"}] /\ timers' \in [Phone -> Nat]
    BY <1>2 DEF GateRest, GateTypeOK
<1>4. count \in Nat /\ green \in Nat /\ unseen \in Nat
    BY DEF TypeOK, GateRest, GateTypeOK
<1>5. CASE ScanGranted(s) /\ Answer(s, "GRANTED")
  <2>1. count' = count + 1
      BY <1>5 DEF ScanGranted
  <2>2. CASE Awaited(s)
    <3>1. answer' = [answer EXCEPT ![s] = "GRANTED"] /\ unseen' = unseen + 0
        BY <1>5, <2>2 DEF Answer
    <3>2. /\ {green', unseen'} \subseteq Nat
          /\ (count' - count) = (green' - green) + (unseen' - unseen)
                + (IF "GRANTED" = "GRANTED" THEN 1 ELSE 0)
                - (IF answer[s] = "GRANTED" THEN 1 ELSE 0)
        BY <1>1, <1>2, <1>4, <2>1, <3>1
    <3> QED BY <1>1, <1>2, <1>3, <2>2, <3>1, <3>2, AnswersChange
  <2>3. CASE ~Awaited(s)
    <3>1. answer' = [answer EXCEPT ![s] = "NONE"] /\ unseen' = unseen + 1
        BY <1>5, <2>3 DEF Answer
    <3>2. /\ {green', unseen'} \subseteq Nat
          /\ (count' - count) = (green' - green) + (unseen' - unseen)
                + (IF "NONE" = "GRANTED" THEN 1 ELSE 0)
                - (IF answer[s] = "GRANTED" THEN 1 ELSE 0)
        BY <1>1, <1>2, <1>4, <2>1, <3>1
    <3> QED BY <1>1, <1>2, <1>3, <3>1, <3>2, AnswersChange
  <2> QED BY <2>2, <2>3
<1>6. CASE ScanRefused(s) /\ Answer(s, "REFUSED")
  <2>1. count' = count /\ unseen' = unseen + 0
      BY <1>6 DEF ScanRefused, rowVars, Answer
  <2>2. PICK a \in {"NONE", "REFUSED"} : answer' = [answer EXCEPT ![s] = a] /\ (a # "NONE" => Awaited(s))
      BY <1>6 DEF Answer
  <2>3. /\ {green', unseen'} \subseteq Nat
        /\ (count' - count) = (green' - green) + (unseen' - unseen)
              + (IF a = "GRANTED" THEN 1 ELSE 0) - (IF answer[s] = "GRANTED" THEN 1 ELSE 0)
      BY <1>1, <1>2, <1>4, <2>1
  <2> QED BY <1>1, <1>2, <1>3, <2>2, <2>3, AnswersChange
<1> QED BY <1>5, <1>6 DEF Verify

LEMMA AnswerTakenKeeps ==
    ASSUME TypeOK, TypeOK', GateRest, NEW s \in Scanner, AskFails(s) \/ ShowAnswer(s) \/ LoseAnswer(s)
    PROVE  GateRest'
<1>1. Awaited(s) /\ asker[s] \in Phone /\ timers \in [Phone -> Nat]
    BY DEF GateRest, GateTypeOK, AnsweredOnce, AskFails, ShowAnswer, LoseAnswer, Awaited
<1>2. PICK f \in {"GREEN", "PHOTO", "RED"} : ShowResult(s, f)
    BY DEF AskFails, ShowAnswer, LoseAnswer
<1>3. /\ scan' = scan /\ count' = count /\ fresh' = fresh /\ UNCHANGED <<codeVars, camera>>
      /\ asker' = [asker EXCEPT ![s] = NoPhone] /\ flash' = [flash EXCEPT ![asker[s]] = f]
    BY <1>2 DEF ShowResult, vars, rowVars
<1>4. /\ asker' \in [Scanner -> Phone \cup {NoPhone}] /\ fresh' \in [Scanner -> BOOLEAN]
      /\ flash' \in [Phone -> {"NONE", "GREEN", "PHOTO", "RED"}]
      /\ \A t \in Scanner \ {s} : asker'[t] = asker[t]
    BY <1>1, <1>3 DEF GateRest, GateTypeOK
<1>5. timers' \in [Phone -> Nat]
    BY <1>1 DEF AskFails, ShowAnswer, LoseAnswer
<1>6. CASE AskFails(s)
  <2>1. /\ read' = [read EXCEPT ![s] = NoCode] /\ UNCHANGED <<green, answer, unseen>>
        /\ answer[s] = "NONE"
      BY <1>6 DEF AskFails, GateRest, AnsweredOnce
  <2>2. ScreensAccounted'
      BY <1>3, <2>1 DEF GateRest, ScreensAccounted
  <2>3. AnsweredOnce'
      BY <1>3, <2>1 DEF GateRest, GateTypeOK, AnsweredOnce, Awaited
  <2>4. GateTypeOK' /\ CodesComeFromServer'
      BY <1>3, <1>4, <1>5, <2>1 DEF GateRest, GateTypeOK, CodesComeFromServer, NotNewer, Codes, codeVars
  <2> QED BY <2>2, <2>3, <2>4 DEF GateRest
<1>7. CASE ShowAnswer(s) \/ LoseAnswer(s)
  <2>1. /\ answer' = [answer EXCEPT ![s] = "NONE"] /\ read' = read /\ read[s] = NoCode
        /\ \/ green' = green + (IF answer[s] = "GRANTED" THEN 1 ELSE 0) /\ unseen' = unseen
           \/ green' = green /\ unseen' = unseen + (IF answer[s] = "GRANTED" THEN 1 ELSE 0)
      BY <1>7 DEF ShowAnswer, LoseAnswer, GateRest, AnsweredOnce
  <2>2. count \in Nat /\ green \in Nat /\ unseen \in Nat
      BY DEF TypeOK, GateRest, GateTypeOK
  <2>3. /\ {green', unseen'} \subseteq Nat
        /\ (count' - count) = (green' - green) + (unseen' - unseen)
              + (IF "NONE" = "GRANTED" THEN 1 ELSE 0) - (IF answer[s] = "GRANTED" THEN 1 ELSE 0)
      BY <1>3, <2>1, <2>2
  <2> QED BY <1>3, <1>4, <1>5, <2>1, <2>3, AnswersChange
<1> QED BY <1>6, <1>7

LEMMA GateNextInvariant == GateIInv /\ [GateNext]_<<vars, gateVars>> => GateIInv'
<1> SUFFICES ASSUME GateIInv, [GateNext]_<<vars, gateVars>> PROVE GateIInv'
    OBVIOUS
<1>1. IInv /\ [Next]_vars
    BY GateStepsAreRowSteps DEF GateIInv
<1>2. IInv'
    BY <1>1, NextInvariant
<1>3. TypeOK /\ TypeOK' /\ GateRest
    BY <1>1, <1>2 DEF IInv, GateIInv, GateRest
<1>4. GateRest'
  <2>1. ASSUME NEW p \in Phone, Phones(p) PROVE GateRest'
      BY <1>3, <2>1, PhoneKeeps
  <2>2. ASSUME NEW s \in Scanner, Requests(s) PROVE GateRest'
      BY <1>3, <2>2, AskKeeps, VerifyKeeps, AnswerTakenKeeps DEF Requests
  <2>3. CASE BoxPage
      BY <1>3, <2>3, BoxPageKeeps
  <2>4. CASE StepEnds \/ DayEnds
    <3>1. Age /\ count' = count /\ scan' = scan
        BY <2>4 DEF StepEnds, DayEnds, PeriodEnds, vars, rowVars
    <3> QED BY <1>3, <3>1, AgeKeeps
  <2>5. CASE Administration
    <3>1. count' = count /\ scan' = scan
        BY <2>5 DEF Administration, RevokeQr, DeleteEvent, Request, BeginRestore, RestoreQr,
                    BeginRecharge, RechargeQr, RequestStops, rowVars
    <3> QED BY <1>3, <2>5, <3>1 DEF Administration, GateRest, GateTypeOK, AnsweredOnce, Awaited,
              CodesComeFromServer, NotNewer, ScreensAccounted, gateVars, phoneVars, codeVars,
              serverVars, screenVars
  <2>6. CASE UNCHANGED <<vars, gateVars>>
      BY <1>3, <2>6 DEF GateRest, GateTypeOK, AnsweredOnce, Awaited, CodesComeFromServer, NotNewer,
                ScreensAccounted, gateVars, phoneVars, codeVars, serverVars, screenVars, vars, rowVars
  <2> QED BY <2>1, <2>2, <2>3, <2>4, <2>5, <2>6 DEF GateNext
<1> QED BY <1>2, <1>4 DEF GateIInv, GateRest

\* The row, the phones, the codes and the answers stay consistent.
THEOREM GateInvariantHolds == GateSpec => []GateIInv
<1> QED BY GateInitInvariant, GateNextInvariant, PTL DEF GateSpec

\* What a phone shows and waits for, when another acts.
LEMMA OthersLeaveCalm ==
    ASSUME NEW p \in Phone, Calm(p), flash'[p] = flash[p], camera'[p] = camera[p], timers'[p] = timers[p],
           \A t \in Scanner : asker'[t] = p <=> asker[t] = p
    PROVE  Calm(p)'
<1>1. Waiting(p)' = Waiting(p)
    BY DEF Waiting
<1> QED BY <1>1 DEF Calm

\* A phone that does one thing at a time, at its own screen.
LEMMA OwnStepIsCalm ==
    ASSUME GateTypeOK, NEW p \in Phone, Calm(p), Phones(p)
    PROVE  Calm(p)' \/ Hurries(p)
<1>1. CASE StartScanner(p)
  <2>1. flash'[p] = "NONE" /\ timers'[p] = 0 /\ Waiting(p)' = Waiting(p)
      BY <1>1 DEF StartScanner, Calm, Waiting
  <2> QED BY <1>1, <2>1 DEF Calm, Hurries
<1>2. CASE Dismiss(p) \/ TimerFires(p)
  <2>1. flash[p] # "NONE" /\ timers[p] \in Nat
      BY <1>2 DEF Dismiss, TimerFires, Calm, GateTypeOK
  <2>2. Waiting(p)' = {} /\ flash'[p] = "NONE" /\ timers'[p] = 0
      BY <1>2, <2>1 DEF Dismiss, TimerFires, Restart, Calm, Waiting, GateTypeOK
  <2> QED BY <2>2 DEF Calm
<1>3. CASE StopScanner(p)
  <2>1. flash'[p] = "NONE" /\ timers'[p] = 0 /\ Waiting(p)' = {} /\ ~camera'[p]
      BY <1>3 DEF StopScanner, Calm, Waiting, GateTypeOK
  <2> QED BY <2>1 DEF Calm
<1>4. ASSUME NEW s \in Scanner, ReadQr(p, s) PROVE Calm(p)'
  <2>1. flash'[p] = "NONE" /\ timers'[p] = 0 /\ Waiting(p) = {} /\ ~camera'[p]
      BY <1>4 DEF ReadQr, Calm, GateTypeOK
  <2>2. Waiting(p)' = {s}
      BY <1>4, <2>1 DEF ReadQr, Waiting, GateTypeOK
  <2> QED BY <2>1, <2>2 DEF Calm
<1> QED BY <1>1, <1>2, <1>3, <1>4 DEF Phones

\* The result of what it waited for is all that it shows.
LEMMA ResultIsCalm ==
    ASSUME GateTypeOK, NEW p \in Phone, Calm(p), NEW s \in Scanner, asker[s] = p,
           NEW f \in {"GREEN", "PHOTO", "RED"}, ShowResult(s, f),
           timers' = [timers EXCEPT ![p] = @ + (IF f = "GREEN" THEN 1 ELSE 0)]
    PROVE  Calm(p)'
<1>1. Waiting(p) = {s} /\ flash[p] = "NONE" /\ ~camera[p] /\ timers[p] = 0
    BY DEF Calm, Waiting
<1>2. Waiting(p)' = {}
    BY <1>1, GateConstantsOK DEF ShowResult, Waiting, GateTypeOK
<1>3. flash'[p] = f /\ ~camera'[p] /\ timers'[p] = IF f = "GREEN" THEN 1 ELSE 0
    BY <1>1 DEF ShowResult, GateTypeOK
<1> QED BY <1>2, <1>3 DEF Calm

LEMMA CalmKept ==
    ASSUME GateTypeOK, AnsweredOnce, NEW p \in Phone, Calm(p), [GateNext]_<<vars, gateVars>>
    PROVE  Calm(p)' \/ Hurries(p)
<1>1. ASSUME NEW q \in Phone, Phones(q) PROVE Calm(p)' \/ Hurries(p)
  <2>1. CASE q # p
    <3>1. flash'[p] = flash[p] /\ camera'[p] = camera[p] /\ timers'[p] = timers[p]
        BY <1>1, <2>1 DEF Phones, StartScanner, Dismiss, TimerFires, Restart, StopScanner, ReadQr, GateTypeOK
    <3>2. \A t \in Scanner : asker'[t] = p <=> asker[t] = p
        BY <1>1, <2>1, GateConstantsOK
           DEF Phones, StartScanner, Dismiss, TimerFires, Restart, StopScanner, ReadQr, Free, GateTypeOK
    <3> QED BY <3>1, <3>2, OthersLeaveCalm
  <2> QED BY <1>1, <2>1, OwnStepIsCalm
<1>2. ASSUME NEW s \in Scanner, AskFails(s) \/ ShowAnswer(s) \/ LoseAnswer(s) PROVE Calm(p)'
  <2>1. asker[s] \in Phone /\ timers \in [Phone -> Nat]
      BY <1>2 DEF AskFails, ShowAnswer, LoseAnswer, Awaited, AnsweredOnce, GateTypeOK
  <2>2. PICK f \in {"GREEN", "PHOTO", "RED"} :
            /\ ShowResult(s, f)
            /\ timers' = [timers EXCEPT ![asker[s]] = @ + (IF f = "GREEN" THEN 1 ELSE 0)]
    <3>1. CASE ShowAnswer(s)
        BY <3>1, <2>1 DEF ShowAnswer, Timed
    <3>2. CASE AskFails(s) \/ LoseAnswer(s)
      <4>1. ShowResult(s, "RED") /\ timers' = timers
          BY <3>2 DEF AskFails, LoseAnswer
      <4>2. timers = [timers EXCEPT ![asker[s]] = @ + 0]
          BY <2>1
      <4> QED BY <4>1, <4>2
    <3> QED BY <1>2, <3>1, <3>2
  <2>3. CASE asker[s] = p
      BY <2>2, <2>3, ResultIsCalm
  <2>4. CASE asker[s] # p
    <3>1. flash'[p] = flash[p] /\ camera'[p] = camera[p] /\ timers'[p] = timers[p]
        BY <2>1, <2>2, <2>4 DEF ShowResult, GateTypeOK
    <3>2. \A t \in Scanner : asker'[t] = p <=> asker[t] = p
        BY <2>2, <2>4, GateConstantsOK DEF ShowResult, GateTypeOK
    <3> QED BY <3>1, <3>2, OthersLeaveCalm
  <2> QED BY <2>3, <2>4
<1>3. CASE UNCHANGED <<screenVars, asker>>
    BY <1>3, OthersLeaveCalm DEF screenVars
<1>4. ASSUME NEW s \in Scanner, Ask(s) \/ Verify(s) PROVE UNCHANGED <<screenVars, asker>>
    BY <1>4 DEF Ask, Verify, phoneVars
<1>5. CASE BoxPage \/ StepEnds \/ DayEnds \/ Administration \/ UNCHANGED <<vars, gateVars>>
    BY <1>3, <1>5 DEF BoxPage, ShowPage, ReloadQr, ConcealQr, CaptureQr, Load, StepEnds, DayEnds, Age,
                      Administration, gateVars, phoneVars
<1> QED BY <1>1, <1>2, <1>3, <1>4, <1>5 DEF GateNext, Requests

\* With any number of phones and requests, lost answers, second scans and agents in a
\* hurry, each passage counted is shown once or lost, and a phone does one thing at a
\* time until its agent starts the camera while a check is under way (verifyToken,
\* startScanner).
THEOREM ScreensAreAccounted == GateSpec => ShownIsAccounted
<1>1. GateIInv => ScreensAccounted
    BY DEF GateIInv
<1>2. GateInit => \A p \in Phone : Calm(p)
    BY GateConstantsOK DEF GateInit, Calm, Waiting
<1>3. ASSUME GateIInv, [GateNext]_<<vars, gateVars>>
      PROVE  [\A p \in Phone : Calm(p) => Calm(p)' \/ Hurries(p)]_gateVars
    BY <1>3, CalmKept DEF GateIInv
<1> QED BY <1>1, <1>2, <1>3, GateInvariantHolds, PTL DEF GateSpec, ShownIsAccounted, OneAtATime

\* No request is accepted with a code when the last one the server made is older than a
\* step (verifyDynamicCode).
THEOREM OldCodesStayDead == GateSpec => OldCodesAreDead
<1>1. ASSUME GateIInv, [GateNext]_<<vars, gateVars>>
      PROVE  [\A s \in Scanner : fresh'[s] /\ ~fresh[s] =>
                loaded \in 0 .. AcceptedPastSteps]_gateVars
  <2> SUFFICES ASSUME NEW s \in Scanner, fresh'[s], ~fresh[s]
               PROVE  loaded \in 0 .. AcceptedPastSteps
      OBVIOUS
  <2>1. fresh \in [Scanner -> BOOLEAN]
      BY <1>1 DEF GateIInv, GateTypeOK
  <2>2. PICK t \in Scanner : Ask(t)
    <3>1. ASSUME NEW t \in Scanner, Verify(t) PROVE FALSE
        BY <2>1, <3>1 DEF Verify
    <3>2. fresh' # fresh
        OBVIOUS
    <3> QED BY <1>1, <3>1, <3>2
            DEF GateNext, Phones, StartScanner, Dismiss, TimerFires, Restart, StopScanner, ReadQr,
                Requests, AskFails, ShowAnswer, LoseAnswer, ShowResult, BoxPage, ShowPage, ReloadQr, ConcealQr, CaptureQr, Load, StepEnds,
                DayEnds, Age, Administration, gateVars, serverVars
  <2>3. read[t] # NoCode /\ Accepted(read[t])
      BY <2>1, <2>2 DEF Ask
  <2>4. /\ read[t] \in Ages /\ loaded \in Ages /\ loaded <= read[t]
      BY <1>1, <2>3 DEF GateIInv, GateTypeOK, Codes, CodesComeFromServer, NotNewer
  <2> QED BY <2>3, <2>4, AgeTypes DEF Accepted
<1> QED BY <1>1, GateInvariantHolds, PTL DEF GateSpec, OldCodesAreDead

-----------------------------------------------------------------------------
(* The QR codes of an event *)

\* The parts of a list hold every badge of it.
LEMMA PartsHoldAll ==
    ASSUME NEW n \in Nat
    PROVE  Parts(n) \in Nat /\ n <= Parts(n) * PartSize
<1>1. PartSize \in Nat \ {0}
    BY ConstantsOK
<1> QED BY <1>1 DEF Parts

LEMMA QuotaTypes ==
    ASSUME QrsTyped
    PROVE  /\ Quota \in Nat
           /\ Quota \in QrLimits \cup {PassQrLimit}
           /\ issued \in Nat /\ live \in Nat /\ live <= issued
BY ConstantsOK DEF QrsTyped, QrsTypeOK, Quota

LEMMA QrsInitInvariant == QrsInit => QrsIInv
<1> SUFFICES ASSUME QrsInit PROVE QrsIInv
    OBVIOUS
<1>1. 0 \in 0..PassQrLimit
    BY ConstantsOK
<1>2. \E n \in QrLimits \cup {PassQrLimit} : issued \in 0..n
    BY <1>1 DEF QrsInit
<1>3. QrsTypeOK
  <2>1. \A p \in Page : page[p] = Blank
      BY DEF QrsInit
  <2>2. job = NoJob /\ 0 \in 0..MaxAttempts
      BY ConstantsOK DEF QrsInit
  <2>3. /\ \A p \in Page : /\ page[p].at = "AWAY" /\ page[p].left = 0
                           /\ page[p].got = {}
        /\ job.tries = 0 /\ job.outcome = "NONE"
      BY <2>1, <2>2 DEF Blank, NoJob
  <2>4. attempt \in [Issuer -> {"IDLE", "FOUND"}]
      BY DEF QrsInit
  <2>5. live \in 0..issued /\ planLimit \in QrLimits
      BY DEF QrsInit
  <2>6. {pass, over, eventDeleted} \subseteq BOOLEAN
      BY Zenon DEF QrsInit
  <2> QED BY <1>2, <2>2, <2>3, <2>4, <2>5, <2>6 DEF QrsTypeOK
<1>4. QrsTyped
    BY <1>3 DEF QrsInit, QrsTyped, Blank, NoJob
<1> QED BY <1>4 DEF QrsInit, QrsIInv, DeletedEventHasNoQr, PageConsistent, Blank

\* What a step does to the QR codes: none, one more within the quota, or the end of the
\* event.
QrsGrow ==
    \/ UNCHANGED <<issued, live, eventDeleted>>
    \/ Issuable /\ AddQr /\ UNCHANGED eventDeleted
    \/ eventDeleted' /\ live' = 0 /\ UNCHANGED issued

LEMMA GrowthKeeps ==
    ASSUME QrsIInv, QrsGrow
    PROVE  /\ issued' \in Nat /\ live' \in 0..issued' /\ issued <= issued'
           /\ ~eventDeleted' => live <= live'
           /\ eventDeleted' \in BOOLEAN /\ DeletedEventHasNoQr'
           /\ \E n \in QrLimits \cup {PassQrLimit} : issued' \in 0..n
<1>1. QrsTyped /\ DeletedEventHasNoQr /\ eventDeleted \in BOOLEAN
    BY DEF QrsIInv, QrsTyped, QrsTypeOK
<1>2. \E n \in QrLimits \cup {PassQrLimit} : issued \in 0..n
    BY <1>1 DEF QrsTyped, QrsTypeOK
<1>3. CASE UNCHANGED <<issued, live, eventDeleted>>
    BY <1>1, <1>2, <1>3, QuotaTypes DEF DeletedEventHasNoQr
<1>4. CASE Issuable /\ AddQr /\ UNCHANGED eventDeleted
  <2>1. issued < Quota /\ ~eventDeleted
      BY <1>4 DEF Issuable, Usable, Room
  <2> QED BY <1>1, <1>4, <2>1, QuotaTypes DEF DeletedEventHasNoQr, AddQr
<1>5. CASE eventDeleted' /\ live' = 0 /\ UNCHANGED issued
    BY <1>1, <1>2, <1>5, QuotaTypes DEF DeletedEventHasNoQr
<1> QED BY <1>3, <1>4, <1>5 DEF QrsGrow

PageType == [at : {"AWAY", "EVENT", "DELETING", "FORM", "ADDING", "ISSUING", "PRINTING"},
             total : Nat, filtered : BOOLEAN, left : Nat, got : SUBSET Nat]

\* A step in which the pages stay, but for one that shows something consistent.
LEMMA PagesKeep ==
    ASSUME QrsIInv, QrsGrow, NEW p \in Page, NEW x \in PageType,
           page' = [page EXCEPT ![p] = x],
           x.got \subseteq 1..issued,
           PageConsistent(p)',
           pass' \in BOOLEAN, over' \in BOOLEAN, planLimit' \in QrLimits,
           job' \in [accepted : BOOLEAN, tries : 0..MaxAttempts, keyed : 0..1,
                     outcome : {"NONE", "ISSUED", "REFUSED"}],
           attempt' \in [Issuer -> {"IDLE", "FOUND"}]
    PROVE  QrsIInv'
<1>1. page \in [Page -> PageType] /\ page' \in [Page -> PageType] /\ page'[p] = x
    BY DEF QrsIInv, QrsTyped, PageType
<1>2. \A q \in Page : page'[q].got \subseteq 1..issued'
    BY <1>1, GrowthKeeps, QuotaTypes DEF QrsIInv, QrsTyped, QrsTypeOK
<1>3. MaxAttempts \in Nat
    BY ConstantsOK
<1>4. QrsTypeOK'
    BY <1>1, <1>2, GrowthKeeps DEF QrsTypeOK, PageType
<1>5. QrsTyped'
    BY <1>1, <1>3, <1>4, GrowthKeeps DEF QrsTyped, PageType
<1>6. ASSUME NEW q \in Page PROVE PageConsistent(q)'
  <2>1. CASE q = p
      BY <2>1
  <2>2. CASE q # p
    <3>1. page'[q] = page[q] /\ PageConsistent(q)
        BY <2>2, <1>1 DEF QrsIInv
    <3>2. ~eventDeleted' => ~eventDeleted
        BY DEF QrsGrow
    <3>3. page[q].total \in Nat /\ live \in Nat /\ live' \in Nat
        BY <1>1, GrowthKeeps, QuotaTypes DEF QrsIInv, PageType
    <3> QED BY <3>1, <3>2, <3>3, GrowthKeeps DEF PageConsistent
  <2> QED BY <2>1, <2>2
<1> QED BY <1>5, <1>6, GrowthKeeps DEF QrsIInv

\* A step that leaves the pages alone.
LEMMA PagesStay ==
    ASSUME QrsIInv, QrsGrow, page' = page,
           pass' \in BOOLEAN, over' \in BOOLEAN, planLimit' \in QrLimits,
           job' \in [accepted : BOOLEAN, tries : 0..MaxAttempts, keyed : 0..1,
                     outcome : {"NONE", "ISSUED", "REFUSED"}],
           attempt' \in [Issuer -> {"IDLE", "FOUND"}]
    PROVE  QrsIInv'
<1>1. \A q \in Page : page'[q].got \subseteq 1..issued'
    BY GrowthKeeps, QuotaTypes DEF QrsIInv, QrsTyped, QrsTypeOK
<1>2. MaxAttempts \in Nat
    BY ConstantsOK
<1>3. QrsTypeOK'
    BY <1>1, GrowthKeeps DEF QrsIInv, QrsTyped, QrsTypeOK
<1>4. QrsTyped'
    BY <1>2, <1>3, GrowthKeeps DEF QrsIInv, QrsTyped
<1>5. ASSUME NEW q \in Page PROVE PageConsistent(q)'
  <2>1. PageConsistent(q) /\ (~eventDeleted' => ~eventDeleted)
      BY DEF QrsIInv, QrsGrow
  <2>2. page[q].total \in Nat /\ live \in Nat /\ live' \in Nat
      BY GrowthKeeps, QuotaTypes DEF QrsIInv, QrsTyped
  <2> QED BY <2>1, <2>2, GrowthKeeps DEF PageConsistent
<1> QED BY <1>4, <1>5, GrowthKeeps DEF QrsIInv

\* The types of what a page leaves alone.
LEMMA RightsTyped ==
    ASSUME QrsIInv
    PROVE  /\ pass \in BOOLEAN /\ over \in BOOLEAN /\ planLimit \in QrLimits
           /\ job \in [accepted : BOOLEAN, tries : 0..MaxAttempts, keyed : 0..1,
                       outcome : {"NONE", "ISSUED", "REFUSED"}]
           /\ attempt \in [Issuer -> {"IDLE", "FOUND"}]
           /\ page \in [Page -> PageType]
           /\ Blank \in PageType
<1>1. job \in [accepted : BOOLEAN, tries : 0..MaxAttempts, keyed : 0..1,
               outcome : {"NONE", "ISSUED", "REFUSED"}]
    BY DEF QrsIInv, QrsTyped, QrsTypeOK
<1> QED BY <1>1 DEF QrsIInv, QrsTyped, QrsTypeOK, PageType, Blank

\* A step after which a page shows something other than a download.
LEMMA PageShows ==
    ASSUME QrsIInv, QrsGrow, UNCHANGED <<rightVars, jobVars>>, NEW p \in Page,
           NEW y \in PageType, page' = [page EXCEPT ![p] = y], y.got \subseteq 1..issued,
           y.at = "ISSUING" => y.left > 0, y.at # "PRINTING",
           ~y.filtered /\ ~eventDeleted' => y.total <= live'
    PROVE  QrsIInv'
<1>1. page'[p] = y
    BY RightsTyped
<1>2. PageConsistent(p)'
    BY <1>1 DEF PageConsistent
<1>3. /\ pass' \in BOOLEAN /\ over' \in BOOLEAN /\ planLimit' \in QrLimits
      /\ job' \in [accepted : BOOLEAN, tries : 0..MaxAttempts, keyed : 0..1,
                   outcome : {"NONE", "ISSUED", "REFUSED"}]
      /\ attempt' \in [Issuer -> {"IDLE", "FOUND"}]
    BY RightsTyped DEF rightVars, jobVars
<1> QED BY <1>2, <1>3, PagesKeep

\* A page that forgets its list, and may ask for something.
LEMMA PageForgets ==
    ASSUME QrsIInv, QrsGrow, UNCHANGED <<rightVars, jobVars>>, NEW p \in Page,
           NEW at \in {"AWAY", "DELETING", "FORM", "EVENT", "ISSUING", "ADDING"},
           NEW n \in Nat, at = "ISSUING" => n > 0,
           page' = [page EXCEPT ![p] = [Blank EXCEPT !.at = at, !.left = n]]
    PROVE  QrsIInv'
<1> DEFINE y == [Blank EXCEPT !.at = at, !.left = n]
<1>1. y \in PageType /\ y.got = {} /\ y.at = at /\ y.left = n /\ y.total = 0
    BY DEF PageType, Blank
<1>2. live' \in Nat
    BY GrowthKeeps
<1>3. y.got \subseteq 1..issued /\ y.at # "PRINTING" /\ (y.at = "ISSUING" => y.left > 0)
    BY <1>1
<1>4. ~y.filtered /\ ~eventDeleted' => y.total <= live'
    BY <1>1, <1>2
<1> HIDE DEF y
<1> QED BY <1>1, <1>3, <1>4, PageShows DEF y

\* A page that goes on with its rows.
LEMMA PageGoesOn ==
    ASSUME QrsIInv, QrsGrow, UNCHANGED <<rightVars, jobVars>>, NEW p \in Page,
           NEW at \in {"ISSUING", "ADDING"}, NEW n \in Nat, at = "ISSUING" => n > 0,
           page' = [page EXCEPT ![p] = [page[p] EXCEPT !.at = at, !.left = n]]
    PROVE  QrsIInv'
<1> DEFINE x == page[p]
           y == [x EXCEPT !.at = at, !.left = n]
<1>1. /\ x \in PageType /\ PageConsistent(p) /\ x.got \subseteq 1..issued
    BY RightsTyped DEF QrsIInv, QrsTyped, QrsTypeOK
<1>2. /\ y \in PageType /\ y.got = x.got /\ y.at = at /\ y.left = n /\ y.total = x.total
      /\ y.filtered = x.filtered /\ x.total \in Nat
    BY <1>1 DEF PageType
<1>3. ~x.filtered /\ ~eventDeleted' => x.total <= live'
  <2>1. live' \in Nat /\ live \in Nat /\ (~eventDeleted' => ~eventDeleted /\ live <= live')
      BY GrowthKeeps, QuotaTypes DEF QrsIInv, QrsGrow
  <2> QED BY <1>1, <1>2, <2>1 DEF PageConsistent
<1>4. y.got \subseteq 1..issued /\ y.at # "PRINTING" /\ (y.at = "ISSUING" => y.left > 0)
      /\ (~y.filtered /\ ~eventDeleted' => y.total <= live')
    BY <1>1, <1>2, <1>3
<1> HIDE DEF y
<1> QED BY <1>2, <1>4, PageShows DEF y

\* The requests of a page, other than the parts of a download.
LEMMA BrowseKeeps ==
    ASSUME QrsIInv, NEW p \in Page, Browse(p), ~DownloadPart(p), ~AskDownload(p)
    PROVE  QrsIInv'
<1> DEFINE x == page[p]
<1>1. x \in PageType /\ PageConsistent(p) /\ page \in [Page -> PageType]
    BY RightsTyped DEF QrsIInv
<1>2. UNCHANGED <<rightVars, jobVars>>
    BY DEF Browse, OpenEvent, Leave, AskDelete, RemoveEvent, AskQr, GenerateQr, AskImport,
           ImportRow, IssueRow, IssueEnds, DownloadEnds
<1>3. QrsGrow
    BY DEF QrsGrow, Browse, OpenEvent, Leave, AskDelete, RemoveEvent, AskQr, GenerateQr,
           AskImport, ImportRow, IssueRow, IssueEnds, DownloadEnds, qrVars
<1>4. CASE OpenEvent(p)
  <2>1. live \in Nat /\ live' = live
      BY <1>4, QuotaTypes DEF QrsIInv, OpenEvent, qrVars
  <2>2. PICK f \in BOOLEAN, n \in Nat :
          /\ page' = [page EXCEPT ![p] = [Blank EXCEPT !.at = "EVENT", !.total = n,
                                                       !.filtered = f]]
          /\ n \in Listed(f)
    <3>1. \A f \in BOOLEAN : Listed(f) \subseteq Nat
        BY <2>1 DEF Listed
    <3> QED BY <1>4, <3>1 DEF OpenEvent, Show
  <2>3. ~f => n = live
      BY <2>2 DEF Listed
  <2> DEFINE y == [Blank EXCEPT !.at = "EVENT", !.total = n, !.filtered = f]
  <2>4. y \in PageType /\ y.got = {} /\ y.at = "EVENT" /\ y.total = n /\ y.filtered = f
      BY DEF PageType, Blank
  <2>5. y.got \subseteq 1..issued /\ y.at # "PRINTING" /\ (y.at = "ISSUING" => y.left > 0)
        /\ (~y.filtered /\ ~eventDeleted' => y.total <= live')
      BY <2>1, <2>3, <2>4
  <2> HIDE DEF y
  <2> QED BY <1>2, <1>3, <2>2, <2>4, <2>5, PageShows DEF y
<1>5. CASE Leave(p) \/ RemoveEvent(p)
  <2>1. page' = [page EXCEPT ![p] = Blank]
      BY <1>5 DEF Leave, RemoveEvent, Show
  <2>2. Blank \in PageType /\ Blank.got = {} /\ Blank.at = "AWAY" /\ Blank.total = 0
      BY DEF Blank, PageType
  <2>3. live' \in Nat
      BY <1>3, GrowthKeeps
  <2>4. Blank.got \subseteq 1..issued /\ (~eventDeleted' => Blank.total <= live')
      BY <2>2, <2>3
  <2> QED BY <1>2, <1>3, <2>1, <2>2, <2>4, PageShows
<1>6. CASE AskDelete(p) \/ AskQr(p) \/ IssueEnds(p) \/ DownloadEnds(p)
    BY <1>2, <1>3, <1>6, PageForgets DEF AskDelete, AskQr, IssueEnds, DownloadEnds, Asks, Show
<1>7. CASE GenerateQr(p)
  <2>1. CASE eventDeleted
      BY <1>2, <1>3, <1>7, <2>1, PageForgets DEF GenerateQr, Asks, Show
  <2>2. CASE ~eventDeleted
    <3>1. page' = [page EXCEPT ![p] = [Blank EXCEPT !.at = "ISSUING", !.left = 1]]
        BY <1>7, <2>2 DEF GenerateQr, Asks, Show
    <3>2. 1 \in Nat /\ 1 > 0
        OBVIOUS
    <3> HIDE DEF x
    <3> QED BY <1>2, <1>3, <3>1, <3>2, PageForgets
  <2> QED BY <2>1, <2>2
<1>8. CASE AskImport(p)
  <2>1. PICK rows \in 1..MaxRows : Asks(p, "ADDING", rows)
      BY <1>8 DEF AskImport
  <2>2. rows \in Nat
      BY ConstantsOK
  <2>3. page' = [page EXCEPT ![p] = [Blank EXCEPT !.at = "ADDING", !.left = rows]]
      BY <2>1 DEF Asks, Show
  <2> QED BY <1>2, <1>3, <2>2, <2>3, PageForgets
<1>9. CASE ImportRow(p) \/ IssueRow(p)
  <2>1. x.left > 0 /\ x.left \in Nat /\ x.left - 1 \in Nat
      BY <1>1, <1>9 DEF ImportRow, IssueRow, PageConsistent, PageType
  <2>2. CASE ImportRow(p) /\ eventDeleted
    <3>1. page' = [page EXCEPT ![p].left = @ - 1] /\ x.at = "ADDING"
        BY <2>2 DEF ImportRow
    <3>2. page' = [page EXCEPT ![p] = [x EXCEPT !.at = "ADDING", !.left = x.left - 1]]
        BY <3>1, <1>1 DEF PageType
    <3> QED BY <1>2, <1>3, <2>1, <3>2, PageGoesOn
  <2>3. CASE ImportRow(p) /\ ~eventDeleted
    <3>1. page' = [page EXCEPT ![p].at = "ISSUING"]
        BY <2>3 DEF ImportRow
    <3>2. page' = [page EXCEPT ![p] = [x EXCEPT !.at = "ISSUING", !.left = x.left]]
        BY <3>1, <1>1 DEF PageType
    <3> QED BY <1>2, <1>3, <2>1, <3>2, PageGoesOn
  <2>4. CASE IssueRow(p)
    <3>1. page' = [page EXCEPT ![p].at = "ADDING", ![p].left = @ - 1]
        BY <2>4 DEF IssueRow
    <3>2. page' = [page EXCEPT ![p] = [x EXCEPT !.at = "ADDING", !.left = x.left - 1]]
        BY <3>1, <1>1 DEF PageType
    <3> QED BY <1>2, <1>3, <2>1, <3>2, PageGoesOn
  <2> QED BY <1>9, <2>2, <2>3, <2>4
<1> QED BY <1>4, <1>5, <1>6, <1>7, <1>8, <1>9 DEF Browse

\* A download asks for its next part, which the server reads from the rows that are
\* there: never fewer than the page listed, unless the event is deleted.
LEMMA DownloadKeeps ==
    ASSUME QrsIInv, NEW p \in Page, AskDownload(p) \/ DownloadPart(p)
    PROVE  QrsIInv'
<1> DEFINE x == page[p]
<1>1. /\ x \in PageType /\ PageConsistent(p) /\ x.got \subseteq 1..issued
      /\ page \in [Page -> PageType] /\ x.total \in Nat /\ x.left \in Nat
      /\ live \in Nat /\ issued \in Nat /\ live <= issued /\ PartSize \in Nat \ {0}
      /\ Parts(x.total) \in Nat
    BY RightsTyped, QuotaTypes, PartsHoldAll, ConstantsOK
       DEF QrsIInv, QrsTyped, QrsTypeOK, PageType
<1>2. UNCHANGED <<rightVars, eventDeleted, qrVars, jobVars>>
    BY DEF AskDownload, DownloadPart
<1>3. QrsGrow
    BY <1>2 DEF QrsGrow, qrVars
<1>4. /\ pass' \in BOOLEAN /\ over' \in BOOLEAN /\ planLimit' \in QrLimits
      /\ job' \in [accepted : BOOLEAN, tries : 0..MaxAttempts, keyed : 0..1,
                   outcome : {"NONE", "ISSUED", "REFUSED"}]
      /\ attempt' \in [Issuer -> {"IDLE", "FOUND"}]
    BY <1>2, RightsTyped DEF rightVars, jobVars
<1>5. CASE AskDownload(p)
  <2> DEFINE y == [x EXCEPT !.at = "PRINTING", !.left = Parts(x.total)]
  <2>1. page' = [page EXCEPT ![p] = y]
      BY <1>1, <1>5 DEF AskDownload, PageType
  <2>2. y \in PageType /\ y.got = x.got
      BY <1>1 DEF PageType
  <2>3. PageConsistent(p)'
    <3>1. page'[p] = y
        BY <1>1, <2>1
    <3>2. y.total = x.total /\ y.filtered = x.filtered /\ y.left = Parts(x.total)
          /\ y.at = "PRINTING"
        BY <1>1 DEF PageType
    <3>3. (Parts(x.total) - Parts(x.total)) * PartSize = 0
        BY <1>1
    <3> HIDE DEF y
    <3> QED BY <1>1, <1>2, <3>1, <3>2, <3>3 DEF PageConsistent, qrVars, Parts
  <2> HIDE DEF y
  <2> QED BY <1>1, <1>3, <1>4, <2>1, <2>2, <2>3, PagesKeep
<1>6. CASE DownloadPart(p)
  <2> DEFINE done == Parts(x.total) - x.left
             badges == Part(done + 1)
             y == [x EXCEPT !.left = x.left - 1, !.got = x.got \cup badges]
  <2>1. page' = [page EXCEPT ![p] = y] /\ x.left > 0 /\ x.at = "PRINTING" /\ badges # {}
      BY <1>1, <1>6 DEF DownloadPart, PageType
  <2>2. badges \subseteq 1..issued
      BY <1>1 DEF Part
  <2>3. y \in PageType /\ y.got = x.got \cup badges /\ y.left = x.left - 1 /\ y.at = x.at
        /\ y.total = x.total /\ y.filtered = x.filtered
    <3>1. x.left - 1 \in Nat /\ x.got \cup badges \in SUBSET Nat
        BY <1>1, <2>1, <2>2
    <3> HIDE DEF badges
    <3> QED BY <1>1, <3>1 DEF PageType
  <2>4. ~eventDeleted
    <3>1. eventDeleted => live = 0
        BY DEF QrsIInv, DeletedEventHasNoQr
    <3> QED BY <2>1, <3>1 DEF Part
  <2>5. done \in Nat
      BY <1>1, <2>1 DEF PageConsistent
  <2>6. ASSUME ~x.filtered, NEW q \in 1..x.total, q <= (done + 1) * PartSize
        PROVE  q \in x.got \cup badges
    <3>1. q \in 1..live
        BY <1>1, <2>4, <2>6 DEF PageConsistent
    <3>2. CASE q <= done * PartSize
        BY <1>1, <2>1, <2>6, <3>2 DEF PageConsistent
    <3>3. CASE q > done * PartSize
      <4>1. (done + 1) - 1 = done
          BY <2>5
      <4> QED BY <2>6, <3>1, <3>3, <4>1 DEF Part
    <3>4. done * PartSize \in Nat
        BY <1>1, <2>5
    <3> QED BY <3>1, <3>2, <3>3, <3>4
  <2>7. PageConsistent(p)'
    <3>1. page'[p] = y
        BY <1>1, <2>1
    <3>2. Parts(x.total) - y.left = done + 1
        BY <1>1, <2>3
    <3>3. y.left <= Parts(x.total)
        BY <1>1, <2>1, <2>3 DEF PageConsistent
    <3>4. PageConsistent(p) /\ UNCHANGED <<eventDeleted, live>>
        BY <1>1, <1>2 DEF qrVars
    <3> HIDE DEF x, y, done, badges
    <3>5. \A q \in 1..x.total : ~x.filtered /\ q <= (done + 1) * PartSize => q \in y.got
        BY <2>3, <2>6
    <3>6. ~x.filtered /\ ~eventDeleted => x.total <= live
        BY <3>4 DEF PageConsistent, x
    <3> QED BY <2>1, <2>3, <3>1, <3>2, <3>3, <3>4, <3>5, <3>6 DEF PageConsistent, Parts
  <2> HIDE DEF y, badges
  <2> QED BY <1>1, <1>3, <1>4, <2>1, <2>2, <2>3, <2>7, PagesKeep
<1> QED BY <1>5, <1>6

\* The worker's steps, and what they do to the record of the key.
LEMMA JobKeeps ==
    ASSUME QrsIInv, NEW w \in Issuer, FindForJob(w) \/ IssueForJob(w)
    PROVE  /\ QrsIInv' /\ QrsGrow
           /\ job'.keyed \in 0..1
           /\ job'.outcome = "REFUSED" /\ job.outcome # "REFUSED" =>
                 job.keyed = 0 \/ eventDeleted
<1> DEFINE JobType == [accepted : BOOLEAN, tries : 0..MaxAttempts, keyed : 0..1,
                       outcome : {"NONE", "ISSUED", "REFUSED"}]
<1>1. job \in JobType /\ attempt \in [Issuer -> {"IDLE", "FOUND"}] /\ MaxAttempts \in Nat
    BY RightsTyped, ConstantsOK
<1>2. page' = page /\ UNCHANGED rightVars
    BY DEF FindForJob, IssueForJob
<1>3. CASE FindForJob(w)
  <2>1. QrsGrow
      BY <1>3 DEF FindForJob, QrsGrow, qrVars
  <2>2. job.tries + 1 \in 0..MaxAttempts
      BY <1>1, <1>3 DEF FindForJob
  <2>3. job' \in JobType
      BY <1>1, <1>3, <2>2 DEF FindForJob
  <2>4. attempt' \in [Issuer -> {"IDLE", "FOUND"}]
      BY <1>1, <1>3 DEF FindForJob
  <2>5. job'.keyed = job.keyed
        /\ (job'.outcome = "REFUSED" /\ job.outcome # "REFUSED" => eventDeleted)
      BY <1>1, <1>3 DEF FindForJob
  <2> QED BY <1>1, <1>2, <2>1, <2>3, <2>4, <2>5, PagesStay, RightsTyped DEF rightVars
<1>4. CASE IssueForJob(w)
  <2> DEFINE issues == ~Replays /\ Issuable
  <2>1. QrsGrow
      BY <1>4 DEF IssueForJob, QrsGrow, qrVars
  <2>2. PICK outcome \in {job.outcome, IF issues \/ Replays THEN "ISSUED" ELSE "REFUSED"} :
          job' = [job EXCEPT !.keyed = IF issues THEN @ + 1 ELSE @, !.outcome = outcome]
      BY <1>4 DEF IssueForJob
  <2>3. issues => job.keyed = 0
      BY <1>1 DEF Replays, Issuable, Usable
  <2> DEFINE keyed == IF issues THEN job.keyed + 1 ELSE job.keyed
  <2>8. keyed \in 0..1 /\ outcome \in {"NONE", "ISSUED", "REFUSED"}
      BY <1>1, <2>2, <2>3
  <2>4. job' \in JobType
    <3>1. job' = [job EXCEPT !.keyed = keyed, !.outcome = outcome]
        BY <2>2
    <3> HIDE DEF keyed, issues
    <3> QED BY <1>1, <2>8, <3>1
  <2>5. attempt' \in [Issuer -> {"IDLE", "FOUND"}]
      BY <1>1, <1>4 DEF IssueForJob
  <2>6. job'.outcome = outcome
      BY <1>1, <2>2
  <2>7. outcome = "REFUSED" /\ job.outcome # "REFUSED" => job.keyed = 0 \/ eventDeleted
      BY <1>1, <2>2 DEF Replays
  <2> QED BY <1>1, <1>2, <2>1, <2>4, <2>5, <2>6, <2>7, PagesStay, RightsTyped DEF rightVars
<1> QED BY <1>3, <1>4

\* A step of another keeps the job.
LEMMA OthersKeep ==
    ASSUME QrsIInv, PassRunsOut \/ PlanChanges \/ AcceptRegistration
    PROVE  QrsIInv' /\ QrsGrow /\ job'.keyed = job.keyed /\ job'.outcome = job.outcome
<1>1. QrsGrow /\ page' = page /\ attempt' = attempt
    BY DEF PassRunsOut, PlanChanges, AcceptRegistration, QrsGrow, qrVars, jobVars
<1>2. pass' \in BOOLEAN /\ over' \in BOOLEAN /\ planLimit' \in QrLimits
    BY RightsTyped DEF PassRunsOut, PlanChanges, AcceptRegistration, rightVars
<1>3. /\ job' \in [accepted : BOOLEAN, tries : 0..MaxAttempts, keyed : 0..1,
                   outcome : {"NONE", "ISSUED", "REFUSED"}]
      /\ job'.keyed = job.keyed /\ job'.outcome = job.outcome
    BY RightsTyped DEF PassRunsOut, PlanChanges, AcceptRegistration, jobVars
<1> QED BY <1>1, <1>2, <1>3, PagesStay, RightsTyped

\* What every step does to the QR codes and to the record of the key.
StepSound ==
    /\ QrsGrow
    /\ job'.keyed <= 1
    /\ job'.outcome = "REFUSED" /\ job.outcome # "REFUSED" => job.keyed = 0 \/ eventDeleted

LEMMA QrsNextInvariant ==
    ASSUME QrsIInv, [QrsNext]_eventQrVars
    PROVE  QrsIInv' /\ StepSound
<1>1. job.keyed \in 0..1
    BY RightsTyped
<1>2. CASE PassRunsOut \/ PlanChanges \/ AcceptRegistration
    BY <1>1, <1>2, OthersKeep DEF StepSound
<1>3. ASSUME NEW p \in Page, Browse(p) PROVE QrsIInv' /\ StepSound
  <2>1. QrsIInv'
      BY <1>3, BrowseKeeps, DownloadKeeps
  <2>2. QrsGrow /\ UNCHANGED jobVars
      BY <1>3 DEF QrsGrow, Browse, OpenEvent, Leave, AskDelete, RemoveEvent, AskQr, GenerateQr,
             AskImport, ImportRow, IssueRow, IssueEnds, AskDownload, DownloadPart,
             DownloadEnds, qrVars
  <2> QED BY <1>1, <2>1, <2>2 DEF StepSound, jobVars
<1>4. ASSUME NEW w \in Issuer, FindForJob(w) \/ IssueForJob(w) PROVE QrsIInv' /\ StepSound
    BY <1>4, JobKeeps DEF StepSound
<1>5. CASE UNCHANGED eventQrVars
  <2>1. QrsGrow /\ page' = page /\ UNCHANGED <<rightVars, jobVars>>
      BY <1>5 DEF QrsGrow, eventQrVars, qrVars
  <2> QED BY <1>1, <2>1, PagesStay, RightsTyped DEF rightVars, jobVars, StepSound
<1> QED BY <1>2, <1>3, <1>4, <1>5 DEF QrsNext

\* Pages, files, downloads and workers that overlap leave the rows, what pages show and
\* the record of the key consistent.
THEOREM QrsInvariantHolds == QrsSpec => []QrsIInv
<1> QED BY QrsInitInvariant, QrsNextInvariant, PTL DEF QrsSpec

\* However many issue at once, the quota is kept, a deleted event has no QR code and a
\* registration gets one (withEventQrQuota, issuePass).
THEOREM IssuanceIsSound == QrsSpec => IssuanceSound
<1>1. QrsIInv => QrsTypeOK /\ DeletedEventHasNoQr
    BY DEF QrsIInv, QrsTyped
<1>2. ASSUME QrsIInv, [QrsNext]_eventQrVars
      PROVE  /\ [issued' > issued =>
                   /\ issued' <= (IF pass THEN PassQrLimit ELSE planLimit)
                   /\ ~over]_eventQrVars
             /\ [/\ job'.keyed <= 1
                 /\ job'.outcome = "REFUSED" /\ job.outcome # "REFUSED" =>
                      job.keyed = 0 \/ eventDeleted]_eventQrVars
  <2>1. StepSound
      BY <1>2, QrsNextInvariant
  <2>2. issued \in Nat /\ Quota \in Nat
      BY <1>2, QuotaTypes DEF QrsIInv
  <2> QED BY <2>1, <2>2 DEF StepSound, QrsGrow, Issuable, Usable, Room, Quota, AddQr
<1> QED BY <1>1, <1>2, QrsInvariantHolds, PTL
        DEF QrsSpec, IssuanceSound, IssuedWithinQuota, KeyAnsweredOnce

\* A download that ended has every badge of the list it was asked for, whatever was issued
\* meanwhile (downloadEventPdf, parts by skip and take).
THEOREM DownloadsAreComplete == QrsSpec => []DownloadIsComplete
<1>1. ASSUME QrsIInv, NEW p \in Page,
             page[p].at = "PRINTING", page[p].left = 0, ~page[p].filtered,
             NEW q \in 1..page[p].total
      PROVE  q \in page[p].got
  <2>1. page[p].total \in Nat
      BY <1>1, RightsTyped DEF PageType
  <2>2. Parts(page[p].total) \in Nat /\ page[p].total <= Parts(page[p].total) * PartSize
      BY <2>1, PartsHoldAll
  <2>3. PartSize \in Nat
      BY ConstantsOK
  <2>4. Parts(page[p].total) - page[p].left = Parts(page[p].total)
      BY <1>1, <2>2
  <2>5. q <= Parts(page[p].total) * PartSize
      BY <2>1, <2>2, <2>3
  <2> QED BY <1>1, <2>4, <2>5 DEF QrsIInv, PageConsistent
<1>2. QrsIInv => DownloadIsComplete
    BY <1>1 DEF DownloadIsComplete
<1> QED BY <1>2, QrsInvariantHolds, PTL

-----------------------------------------------------------------------------
(* The areas of an event *)

LEMMA RanksOfSent ==
    ASSUME NEW n \in Ranks, sent \in [0..n -> SUBSET Area]
    PROVE  Last = n
<1>1. n \in Nat /\ DOMAIN sent = 0..n
    BY MaxUpdatesOK DEF Ranks
<1>2. n \in DOMAIN sent /\ n + 1 \notin DOMAIN sent
    BY <1>1
<1>3. \A r \in DOMAIN sent : r + 1 \notin DOMAIN sent => r = n
    BY <1>1
<1> QED BY <1>2, <1>3 DEF Last

\* Rows of whole forms stay so when other whole forms are taken from them or added.
LEMMA EntireRows ==
    ASSUME NEW S, NEW T, NEW r \in DOMAIN sent, Entire(S), Entire(T)
    PROVE  Entire((S \ T) \cup RowsOf(sent[r], r))
<1> SUFFICES ASSUME NEW k \in Ranks,
                    OfRank((S \ T) \cup RowsOf(sent[r], r), k) # {}
             PROVE  /\ k \in DOMAIN sent
                    /\ OfRank((S \ T) \cup RowsOf(sent[r], r), k) = RowsOf(sent[k], k)
    BY DEF Entire
<1> DEFINE N == (S \ T) \cup RowsOf(sent[r], r)
<1>1. OfRank(N, k) = (OfRank(S, k) \ OfRank(T, k)) \cup OfRank(RowsOf(sent[r], r), k)
    BY DEF OfRank
<1>2. OfRank(RowsOf(sent[r], r), k) = IF k = r THEN RowsOf(sent[r], r) ELSE {}
    BY DEF OfRank, RowsOf
<1>3. OfRank(S, k) # {} => k \in DOMAIN sent /\ OfRank(S, k) = RowsOf(sent[k], k)
    BY DEF Entire
<1>4. OfRank(T, k) # {} => k \in DOMAIN sent /\ OfRank(T, k) = RowsOf(sent[k], k)
    BY DEF Entire
<1>5. k \in DOMAIN sent
    BY <1>1, <1>2, <1>3
<1>6. CASE k = r
    BY <1>1, <1>2, <1>3, <1>6
<1>7. CASE k # r
  <2>1. OfRank(N, k) = OfRank(S, k) \ OfRank(T, k)
      BY <1>1, <1>2, <1>7
  <2>2. OfRank(S, k) # {} /\ OfRank(T, k) = {}
      BY <1>3, <1>4, <2>1
  <2> QED BY <1>3, <2>1, <2>2
<1> QED BY <1>5, <1>6, <1>7

LEMMA SchedulesInitInvariant == SchedulesInit => SchedulesIInv
<1> SUFFICES ASSUME SchedulesInit PROVE SchedulesIInv
    OBVIOUS
<1>1. PICK areas \in SUBSET Area :
        areas # {} /\ sent = [r \in {0} |-> areas] /\ schedules = RowsOf(areas, 0)
  <2>1. PICK areas \in (SUBSET Area) \ {{}} :
          sent = [r \in {0} |-> areas] /\ schedules = RowsOf(areas, 0)
      BY DEF SchedulesInit
  <2> QED BY <2>1
<1>2. 0 \in Ranks /\ {0} = 0..0
    BY MaxUpdatesOK DEF Ranks
<1>3. sent \in [0..0 -> SUBSET Area] /\ sent[0] = areas /\ DOMAIN sent = {0}
    BY <1>1, <1>2
<1>4. SchedulesTypeOK
    BY <1>1, <1>2, <1>3 DEF SchedulesInit, SchedulesTypeOK, NoUpdate, RowsOf
<1>5. schedules # {} /\ Entire(schedules) /\ Entire({})
  <2>1. PICK a \in areas : TRUE
      BY <1>1
  <2>2. [area |-> a, rank |-> 0] \in schedules
      BY <1>1, <2>1 DEF RowsOf
  <2>3. \A row \in schedules : row.rank = 0
      BY <1>1 DEF RowsOf
  <2>4. \A r \in Ranks : OfRank(schedules, r) # {} => r = 0 /\ OfRank(schedules, r) = schedules
      BY <2>3 DEF OfRank
  <2>5. Entire({})
      BY DEF Entire, OfRank
  <2> QED BY <1>1, <1>3, <2>2, <2>4, <2>5 DEF Entire
<1> QED BY <1>4, <1>5 DEF SchedulesInit, SchedulesIInv, UpdateConsistent, NoUpdate

UpdateType == [at : {"NONE", "SENT", "CHECKED", "SWEPT"}, rank : Ranks,
               seen : SUBSET [area : Area, rank : Ranks]]

\* A step of one editor that leaves the areas and what was sent alone.
LEMMA EditorKeeps ==
    ASSUME SchedulesIInv, NEW e \in Editor, NEW u \in UpdateType,
           update' = [update EXCEPT ![e] = u], usable' = usable, sent' = sent,
           UpdateConsistent(e)',
           schedules' \subseteq [area : Area, rank : Ranks], schedules' # {},
           Entire(schedules')
    PROVE  SchedulesIInv'
<1>1. update \in [Editor -> UpdateType] /\ update' \in [Editor -> UpdateType]
    BY DEF SchedulesIInv, SchedulesTypeOK, UpdateType
<1>2. SchedulesTypeOK'
    BY <1>1 DEF SchedulesIInv, SchedulesTypeOK, UpdateType
<1>3. \A x : Entire(x)' <=> Entire(x')
    BY DEF Entire, OfRank, RowsOf
<1>4. ASSUME NEW f \in Editor, f # e PROVE UpdateConsistent(f)'
  <2>1. update'[f] = update[f] /\ UpdateConsistent(f)
      BY <1>1, <1>4 DEF SchedulesIInv
  <2> QED BY <2>1 DEF UpdateConsistent, Entire, OfRank, RowsOf
<1>5. Entire(schedules)'
    BY DEF Entire, OfRank, RowsOf
<1> QED BY <1>2, <1>4, <1>5 DEF SchedulesIInv

LEMMA SchedulesNextInvariant == SchedulesIInv /\ [SchedulesNext]_scheduleVars => SchedulesIInv'
<1> SUFFICES ASSUME SchedulesIInv, [SchedulesNext]_scheduleVars PROVE SchedulesIInv'
    OBVIOUS
<1>1. /\ SchedulesTypeOK /\ schedules # {} /\ Entire(schedules)
      /\ \A e \in Editor : UpdateConsistent(e)
      /\ update \in [Editor -> UpdateType] /\ NoUpdate \in UpdateType
      /\ schedules \subseteq [area : Area, rank : Ranks]
  <2>1. 0 \in Ranks
      BY MaxUpdatesOK DEF Ranks
  <2> QED BY <2>1 DEF SchedulesIInv, SchedulesTypeOK, UpdateType, NoUpdate
<1>2. Entire({})
    BY DEF Entire, OfRank
<1>3. ASSUME NEW a \in Area, AreaChanges(a) PROVE SchedulesIInv'
  <2>1. usable' \subseteq Area
      BY <1>1, <1>3 DEF AreaChanges, SchedulesTypeOK
  <2> QED BY <1>1, <1>3, <2>1 DEF AreaChanges, SchedulesIInv, SchedulesTypeOK, Entire, OfRank,
                                  RowsOf, UpdateConsistent
<1>4. ASSUME NEW e \in Editor, SendUpdate(e) PROVE SchedulesIInv'
  <2>1. PICK n \in Ranks : sent \in [0..n -> SUBSET Area]
      BY <1>1 DEF SchedulesTypeOK
  <2>2. Last = n /\ n + 1 \in Ranks /\ n \in Nat
      BY <1>4, <2>1, RanksOfSent, MaxUpdatesOK DEF SendUpdate, Ranks
  <2>3. PICK areas \in SUBSET Area :
          sent' = [r \in 0..(n + 1) |-> IF r \in DOMAIN sent THEN sent[r] ELSE areas]
      BY <1>4, <2>2 DEF SendUpdate, FormAreas
  <2>4. /\ sent' \in [0..(n + 1) -> SUBSET Area]
        /\ \A r \in DOMAIN sent : r \in DOMAIN sent' /\ sent'[r] = sent[r]
      BY <2>1, <2>2, <2>3
  <2>5. ASSUME NEW S, Entire(S)
        PROVE  \A r \in Ranks : OfRank(S, r) # {} =>
                  r \in DOMAIN sent' /\ OfRank(S, r) = RowsOf(sent'[r], r)
      BY <2>4, <2>5 DEF Entire
  <2> DEFINE u == [NoUpdate EXCEPT !.at = "SENT", !.rank = n + 1]
  <2>6. update' = [update EXCEPT ![e] = u] /\ u \in UpdateType
      BY <1>1, <1>4, <2>2 DEF SendUpdate, UpdateType, NoUpdate
  <2>7. schedules' = schedules /\ usable' = usable
      BY <1>4 DEF SendUpdate
  <2>8. SchedulesTypeOK'
      BY <1>1, <2>2, <2>4, <2>6, <2>7 DEF SchedulesTypeOK, UpdateType
  <2>9. Entire(schedules)'
      BY <1>1, <2>5, <2>7 DEF Entire, OfRank, RowsOf
  <2>10. ASSUME NEW f \in Editor PROVE UpdateConsistent(f)'
    <3>1. CASE f = e
      <4>1. update'[f] = u /\ u.at = "SENT" /\ u.rank = n + 1 /\ u.seen = {}
          BY <1>1, <2>6, <3>1 DEF NoUpdate
      <4>2. n + 1 \in DOMAIN sent'
          BY <2>2, <2>4
      <4> HIDE DEF u
      <4> QED BY <4>1, <4>2 DEF UpdateConsistent, Entire, OfRank
    <3>2. CASE f # e
      <4>1. update'[f] = update[f] /\ UpdateConsistent(f)
          BY <1>1, <2>6, <3>2
      <4>2. \A r \in Ranks : OfRank(update[f].seen, r) # {} =>
                  r \in DOMAIN sent' /\ OfRank(update[f].seen, r) = RowsOf(sent'[r], r)
          BY <2>5, <4>1 DEF UpdateConsistent
      <4> QED BY <2>4, <4>1, <4>2 DEF UpdateConsistent, Entire, OfRank, RowsOf
    <3> QED BY <3>1, <3>2
  <2> QED BY <1>1, <2>7, <2>8, <2>9, <2>10 DEF SchedulesIInv
<1>5. ASSUME NEW e \in Editor, CheckAreas(e) PROVE SchedulesIInv'
  <2> DEFINE u == [update[e] EXCEPT !.at = "CHECKED"]
  <2>1. update' = [update EXCEPT ![e] = u] /\ u \in UpdateType
        /\ UNCHANGED <<usable, schedules, sent>>
      BY <1>1, <1>5 DEF CheckAreas, UpdateType
  <2>2. update'[e] = u /\ u.rank = update[e].rank /\ u.seen = update[e].seen
      BY <1>1, <2>1 DEF UpdateType
  <2>3. sent[u.rank] # {} /\ update[e].at = "SENT"
      BY <1>5, <2>2 DEF CheckAreas, AreasValid
  <2>4. UpdateConsistent(e)
      BY <1>1
  <2> HIDE DEF u
  <2>5. UpdateConsistent(e)'
      BY <2>1, <2>2, <2>3, <2>4 DEF UpdateConsistent, Entire, OfRank, RowsOf
  <2> QED BY <1>1, <2>1, <2>5, EditorKeeps
<1>6. ASSUME NEW e \in Editor, SweepRows(e) PROVE SchedulesIInv'
  <2> DEFINE u == [update[e] EXCEPT !.at = "SWEPT", !.seen = schedules]
  <2>1. update' = [update EXCEPT ![e] = u] /\ u \in UpdateType
        /\ UNCHANGED <<usable, schedules, sent>>
      BY <1>1, <1>6 DEF SweepRows, Swept, UpdateType
  <2>2. update'[e] = u /\ u.rank = update[e].rank /\ u.seen = schedules
        /\ update[e].at = "CHECKED"
      BY <1>1, <1>6, <2>1 DEF UpdateType, SweepRows
  <2>3. UpdateConsistent(e)
      BY <1>1
  <2> HIDE DEF u
  <2>4. UpdateConsistent(e)'
      BY <1>1, <2>1, <2>2, <2>3 DEF UpdateConsistent, Entire, OfRank, RowsOf
  <2> QED BY <1>1, <2>1, <2>4, EditorKeeps
<1>7. ASSUME NEW e \in Editor, CommitUpdate(e) PROVE SchedulesIInv'
  <2> DEFINE u == update[e]
             rows == RowsOf(sent[u.rank], u.rank)
  <2>1. /\ UpdateConsistent(e) /\ u.at = "SWEPT" /\ u \in UpdateType
        /\ update' = [update EXCEPT ![e] = NoUpdate] /\ usable' = usable /\ sent' = sent
        /\ schedules' = (schedules \ u.seen) \cup rows
      BY <1>1, <1>7 DEF CommitUpdate
  <2>2. u.rank \in DOMAIN sent /\ sent[u.rank] # {} /\ Entire(u.seen) /\ u.rank \in Ranks
      BY <2>1 DEF UpdateConsistent, UpdateType
  <2>3. Entire(schedules')
      BY <1>1, <2>1, <2>2, EntireRows
  <2>4. rows # {} /\ rows \subseteq [area : Area, rank : Ranks]
    <3>1. sent[u.rank] \subseteq Area
        BY <1>1, <2>2 DEF SchedulesTypeOK
    <3>2. PICK a \in sent[u.rank] : TRUE
        BY <2>2
    <3>3. [area |-> a, rank |-> u.rank] \in rows
        BY <3>2 DEF RowsOf
    <3>4. rows \subseteq [area : Area, rank : Ranks]
        BY <2>2, <3>1 DEF RowsOf
    <3> QED BY <3>3, <3>4
  <2>5. update'[e] = NoUpdate
      BY <1>1, <2>1
  <2>6. UpdateConsistent(e)'
      BY <1>2, <2>5 DEF UpdateConsistent, NoUpdate, Entire, OfRank
  <2> HIDE DEF rows
  <2> QED BY <1>1, <2>1, <2>3, <2>4, <2>6, EditorKeeps
<1>8. ASSUME NEW e \in Editor, UpdateFails(e) PROVE SchedulesIInv'
  <2>1. update' = [update EXCEPT ![e] = NoUpdate] /\ UNCHANGED <<usable, schedules, sent>>
      BY <1>8 DEF UpdateFails
  <2>2. update'[e] = NoUpdate
      BY <1>1, <2>1
  <2>3. UpdateConsistent(e)'
      BY <1>2, <2>2 DEF UpdateConsistent, NoUpdate, Entire, OfRank
  <2> QED BY <1>1, <2>1, <2>3, EditorKeeps
<1>9. CASE UNCHANGED scheduleVars
    BY <1>9 DEF scheduleVars, SchedulesIInv, SchedulesTypeOK, Entire, OfRank, RowsOf,
                UpdateConsistent
<1> QED BY <1>3, <1>4, <1>5, <1>6, <1>7, <1>8, <1>9 DEF SchedulesNext

\* However many updates of an event's areas overlap, the rows of one form stay together
\* (updateEvent at READ COMMITTED).
THEOREM SchedulesStayWhole == SchedulesSpec => []SchedulesWhole
<1>1. SchedulesIInv => SchedulesWhole
    BY DEF SchedulesIInv, SchedulesWhole, Entire, OfRank
<1> QED BY <1>1, SchedulesInitInvariant, SchedulesNextInvariant, PTL DEF SchedulesSpec

-----------------------------------------------------------------------------
(* The holder's photo *)

Window == [open : BOOLEAN, version : Nat, url : Nat, fetch : SUBSET Nat]
Change == [at : {"NONE", "SENT", "DONE"}, saving : BOOLEAN, version : Nat, mounted : BOOLEAN]

\* What the invariant asks of one browser, with what its window and its request would be.
BrowserSound(m, q, t, s) ==
    /\ ~m.open => m = Closed
    /\ t <= s /\ m.version <= s /\ m.url <= s
    /\ m.fetch \subseteq 0..s \cup {Asked}
    /\ \A v, w \in m.fetch : v = w
    /\ \A v \in m.fetch : v \in {Asked, NoPhoto} \/ t <= v
    /\ q.mounted => m.open /\ q.at # "NONE"
    /\ q.version <= s
    /\ q.at = "DONE" /\ q.saving /\ q.mounted => q.version > m.version
    /\ q.at # "DONE" => q.version = NoPhoto
    /\ ~q.saving => q.version = NoPhoto
    /\ q.at # "NONE" /\ ~q.mounted =>
         /\ m.url # NoPhoto => m.fetch = {}
         /\ m.url # NoPhoto \/ m.fetch # {} => m.version <= t
    /\ m.url # NoPhoto /\ m.fetch = {} => m.url >= t

LEMMA BrowserSoundness ==
    PhotosIInv <=> /\ PhotosTypeOK
                   /\ \A b \in Viewer : BrowserSound(modal[b], request[b], told[b], saves)
BY DEF PhotosIInv, WindowConsistent, RequestConsistent, PhotoIsNotOlder, BrowserSound

LEMMA PhotoConstants ==
    NoPhoto = 0 /\ Asked \in Nat /\ Asked = MaxSaves + 1 /\ MaxSaves \in Nat \ {0}
BY MaxSavesOK DEF NoPhoto, Asked

LEMMA PhotosInitInvariant == PhotosInit => PhotosIInv
<1> SUFFICES ASSUME PhotosInit PROVE PhotosIInv
    OBVIOUS
<1>1. Closed \in Window /\ NoChange \in Change
    BY PhotoConstants DEF Closed, NoChange, Window, Change
<1>2. PhotosTypeOK
    BY <1>1, PhotoConstants DEF PhotosInit, PhotosTypeOK, Window, Change
<1>3. saves \in Nat
    BY DEF PhotosInit
<1>4. BrowserSound(Closed, NoChange, NoPhoto, saves)
    BY <1>3, PhotoConstants DEF BrowserSound, Closed, NoChange
<1> QED BY <1>2, <1>4, BrowserSoundness DEF PhotosInit

\* One more save takes nothing from a browser.
LEMMA SoundAfterSave ==
    ASSUME NEW m \in Window, NEW q \in Change, NEW t \in Nat, NEW s \in Nat,
           BrowserSound(m, q, t, s)
    PROVE  BrowserSound(m, q, t, s + 1)
<1>1. /\ m.version \in Nat /\ m.url \in Nat /\ q.version \in Nat
    BY DEF Window, Change
<1>2. t <= s + 1 /\ m.version <= s + 1 /\ m.url <= s + 1 /\ q.version <= s + 1
    BY <1>1 DEF BrowserSound
<1>3. 0..s \subseteq 0..(s + 1)
    OBVIOUS
<1>4. m.fetch \subseteq 0..(s + 1) \cup {Asked}
    BY <1>3 DEF BrowserSound
<1> QED BY <1>2, <1>4 DEF BrowserSound

\* A step of one browser.
LEMMA OneBrowser ==
    ASSUME PhotosIInv, NEW b \in Viewer, NEW m \in Window, NEW q \in Change, NEW t \in Nat,
           modal' = [modal EXCEPT ![b] = m], request' = [request EXCEPT ![b] = q],
           told' = [told EXCEPT ![b] = t],
           saves' \in {saves, saves + 1}, saves' <= MaxSaves, photo' \in {NoPhoto, saves'},
           BrowserSound(m, q, t, saves')
    PROVE  PhotosIInv'
<1>1. /\ modal \in [Viewer -> Window] /\ request \in [Viewer -> Change]
      /\ told \in [Viewer -> Nat] /\ saves \in Nat
    BY DEF PhotosIInv, PhotosTypeOK, Window, Change
<1>2. PhotosTypeOK'
    BY <1>1 DEF PhotosTypeOK, Window, Change
<1>3. ASSUME NEW c \in Viewer PROVE BrowserSound(modal[c], request[c], told[c], saves)'
  <2>1. CASE c = b
    <3>1. modal'[c] = m /\ request'[c] = q /\ told'[c] = t
        BY <1>1, <2>1
    <3> QED BY <3>1
  <2>2. CASE c # b
    <3>1. modal'[c] = modal[c] /\ request'[c] = request[c] /\ told'[c] = told[c]
        BY <1>1, <2>2
    <3>2. BrowserSound(modal[c], request[c], told[c], saves)
        BY BrowserSoundness
    <3>3. BrowserSound(modal[c], request[c], told[c], saves')
        BY <1>1, <3>2, SoundAfterSave
    <3> QED BY <3>1, <3>3
  <2> QED BY <2>1, <2>2
<1> QED BY <1>2, <1>3 DEF PhotosIInv, WindowConsistent, RequestConsistent, PhotoIsNotOlder,
                         BrowserSound

\* The same, for a step that leaves the photo itself alone too.
LEMMA OneWindow ==
    ASSUME PhotosIInv, NEW b \in Viewer, NEW m \in Window, NEW q \in Change, NEW t \in Nat,
           modal' = [modal EXCEPT ![b] = m], request' = [request EXCEPT ![b] = q],
           told' = [told EXCEPT ![b] = t], saves' = saves, photo' = photo,
           BrowserSound(m, q, t, saves)
    PROVE  PhotosIInv'
<1>1. saves <= MaxSaves /\ photo \in {NoPhoto, saves}
    BY DEF PhotosIInv, PhotosTypeOK
<1>2. BrowserSound(m, q, t, saves')
    OBVIOUS
<1> QED BY <1>1, <1>2, OneBrowser

LEMMA PhotoStepKeeps ==
    ASSUME PhotosIInv, NEW b \in Viewer,
           \/ OpenPhoto(b) \/ ClosePhoto(b)
           \/ ReadPhoto(b) \/ ShowPhoto(b) \/ FetchFails(b)
           \/ AskSave(b) \/ AskRemoval(b) \/ SavePhoto(b) \/ DeletePhoto(b)
           \/ PhotoChanged(b) \/ ChangeFails(b)
    PROVE  PhotosIInv'
<1> DEFINE m == modal[b]
           q == request[b]
           t == told[b]
<1>1. /\ modal \in [Viewer -> Window] /\ request \in [Viewer -> Change]
      /\ told \in [Viewer -> Nat] /\ m \in Window /\ q \in Change /\ t \in Nat
      /\ saves \in Nat /\ saves <= MaxSaves /\ photo \in {NoPhoto, saves}
      /\ Closed \in Window /\ NoChange \in Change
    BY PhotoConstants DEF PhotosIInv, PhotosTypeOK, Window, Change, Closed, NoChange
<1>2. /\ modal = [modal EXCEPT ![b] = m] /\ request = [request EXCEPT ![b] = q]
      /\ told = [told EXCEPT ![b] = t]
    BY <1>1
<1>3. BrowserSound(m, q, t, saves)
    BY BrowserSoundness
<1>4. /\ m.open \in BOOLEAN /\ m.version \in Nat /\ m.url \in Nat /\ m.fetch \in SUBSET Nat
      /\ q.at \in {"NONE", "SENT", "DONE"} /\ q.saving \in BOOLEAN /\ q.version \in Nat
      /\ q.mounted \in BOOLEAN
    BY <1>1 DEF Window, Change
<1>5. /\ Closed.open = FALSE /\ Closed.version = 0 /\ Closed.url = 0 /\ Closed.fetch = {}
      /\ NoChange.at = "NONE" /\ NoChange.saving = FALSE /\ NoChange.version = 0
      /\ NoChange.mounted = FALSE
    BY DEF Closed, NoChange, NoPhoto
<1>6. CASE OpenPhoto(b)
  <2>1. PICK v \in 0..saves :
          /\ modal' = [modal EXCEPT ![b] = [Closed EXCEPT !.open = TRUE, !.version = v,
                                                !.fetch = Fetches({}, NoPhoto, v)]]
          /\ told' = [told EXCEPT ![b] = Newest(@, v)]
          /\ ~m.open /\ UNCHANGED <<photo, saves, request>>
      BY <1>6 DEF OpenPhoto, Learns
  <2> DEFINE fetch == Fetches({}, NoPhoto, v)
             n == [Closed EXCEPT !.open = TRUE, !.version = v, !.fetch = fetch]
             u == Newest(t, v)
  <2>2. fetch \subseteq {Asked} /\ (v = 0 => fetch = {}) /\ fetch \in SUBSET Nat
      BY PhotoConstants DEF Fetches, Cancelled
  <2>3. /\ n \in Window /\ n.open = TRUE /\ n.version = v /\ n.url = 0 /\ n.fetch = fetch
    <3>1. v \in Nat
        BY <1>1
    <3> HIDE DEF fetch
    <3> QED BY <1>1, <1>5, <2>2, <3>1 DEF Window
  <2>4. u \in Nat /\ u <= saves /\ v <= u /\ v \in Nat
      BY <1>1, <1>3 DEF Newest, BrowserSound
  <2>5. modal' = [modal EXCEPT ![b] = n] /\ told' = [told EXCEPT ![b] = u]
      BY <1>1, <2>1
  <2>6. q.mounted = FALSE
      BY <1>3, <1>4, <2>1 DEF BrowserSound
  <2> HIDE DEF n, u, fetch, m, q, t
  <2>7. BrowserSound(n, q, u, saves)
      BY <1>1, <1>3, <1>4, <2>1, <2>2, <2>3, <2>4, <2>6, PhotoConstants DEF BrowserSound
  <2> QED BY <1>1, <1>2, <2>1, <2>3, <2>4, <2>5, <2>7, OneWindow
<1>7. CASE ClosePhoto(b)
  <2> DEFINE p == [q EXCEPT !.mounted = FALSE]
  <2>1. /\ modal' = [modal EXCEPT ![b] = Closed] /\ UNCHANGED <<photo, saves, told>>
        /\ request' = [request EXCEPT ![b] = p]
      BY <1>1, <1>7 DEF ClosePhoto, Change
  <2>2. /\ p \in Change /\ p.at = q.at /\ p.saving = q.saving /\ p.version = q.version
        /\ p.mounted = FALSE
      BY <1>1 DEF Change
  <2> HIDE DEF p, m, q, t
  <2>3. BrowserSound(Closed, p, t, saves)
      BY <1>1, <1>3, <1>4, <1>5, <2>2, PhotoConstants DEF BrowserSound
  <2> QED BY <1>1, <1>2, <2>1, <2>2, <2>3, OneWindow
<1>8. CASE ReadPhoto(b)
  <2> DEFINE n == [m EXCEPT !.fetch = (@ \ {Asked}) \cup {photo}]
  <2>1. /\ modal' = [modal EXCEPT ![b] = n] /\ Asked \in m.fetch
        /\ UNCHANGED <<photo, saves, request, told>>
      BY <1>1, <1>8 DEF ReadPhoto, Window
  <2>2. (m.fetch \ {Asked}) \cup {photo} = {photo} /\ photo \in Nat
      BY <1>1, <1>3, <1>4, <2>1, PhotoConstants DEF BrowserSound
  <2>3. /\ n \in Window /\ n.open = m.open /\ n.version = m.version /\ n.url = m.url
        /\ n.fetch = {photo}
      BY <1>1, <2>2 DEF Window
  <2>4. m.open
      BY <1>3, <1>5, <2>1 DEF BrowserSound
  <2> HIDE DEF n, m, q, t
  <2>5. BrowserSound(n, q, t, saves)
      BY <1>1, <1>3, <1>4, <2>1, <2>3, <2>4, PhotoConstants DEF BrowserSound
  <2> QED BY <1>1, <1>2, <2>1, <2>3, <2>5, OneWindow
<1>9. CASE ShowPhoto(b)
  <2>1. PICK v \in m.fetch \ {Asked} :
          /\ modal' = [modal EXCEPT ![b].fetch = @ \ {v}, ![b].url = v]
          /\ told' = [told EXCEPT ![b] = Newest(@, v)]
          /\ UNCHANGED <<photo, saves, request>>
      BY <1>9 DEF ShowPhoto, Learns
  <2> DEFINE n == [m EXCEPT !.fetch = {}, !.url = v]
             u == Newest(t, v)
  <2>2. m.fetch \ {v} = {} /\ v \in Nat
      BY <1>3, <1>4 DEF BrowserSound
  <2>3. /\ modal' = [modal EXCEPT ![b] = n] /\ told' = [told EXCEPT ![b] = u]
      BY <1>1, <2>1, <2>2 DEF Window
  <2>4. /\ n \in Window /\ n.open = m.open /\ n.version = m.version /\ n.url = v
        /\ n.fetch = {}
      BY <1>1, <2>2 DEF Window
  <2>5. m.open
      BY <1>3, <1>5 DEF BrowserSound
  <2>6. v = 0 \/ t <= v
      BY <1>3, PhotoConstants DEF BrowserSound
  <2>7. u \in Nat /\ u <= saves /\ t <= u /\ (v # 0 => u = v)
      BY <1>1, <1>3, <2>1, <2>2, <2>6, PhotoConstants DEF Newest, BrowserSound
  <2>8. v <= saves
      BY <1>3, <2>1 DEF BrowserSound
  <2>9. m.fetch # {}
      BY <2>1
  <2> HIDE DEF n, u, m, q, t
  <2>10. BrowserSound(n, q, u, saves)
      BY <1>1, <1>3, <1>4, <2>2, <2>4, <2>5, <2>7, <2>8, <2>9, PhotoConstants DEF BrowserSound
  <2> QED BY <1>1, <1>2, <2>1, <2>3, <2>4, <2>7, <2>10, OneWindow
<1>10. CASE FetchFails(b)
  <2>1. PICK v \in m.fetch :
          /\ modal' = [modal EXCEPT ![b].fetch = @ \ {v}]
          /\ told' = [told EXCEPT ![b] = m.url]
          /\ UNCHANGED <<photo, saves, request>>
      BY <1>10 DEF FetchFails
  <2> DEFINE n == [m EXCEPT !.fetch = {}]
  <2>2. m.fetch \ {v} = {} /\ m.fetch # {}
      BY <1>3, <1>4 DEF BrowserSound
  <2>3. modal' = [modal EXCEPT ![b] = n]
      BY <1>1, <2>1, <2>2 DEF Window
  <2>4. /\ n \in Window /\ n.open = m.open /\ n.version = m.version /\ n.url = m.url
        /\ n.fetch = {}
      BY <1>1 DEF Window
  <2>5. m.open
      BY <1>3, <1>5, <2>2 DEF BrowserSound
  <2>6. told' = [told EXCEPT ![b] = m.url] /\ m.url \in Nat
      BY <1>4, <2>1
  <2> DEFINE w == m.url
  <2> HIDE DEF n, m, q, t
  <2>7. BrowserSound(n, q, w, saves)
      BY <1>1, <1>3, <1>4, <2>2, <2>4, <2>5, PhotoConstants DEF BrowserSound
  <2>8. told' = [told EXCEPT ![b] = w] /\ w \in Nat
      BY <2>6
  <2> HIDE DEF w
  <2> QED BY <1>1, <1>2, <2>1, <2>3, <2>4, <2>7, <2>8, OneWindow
<1>11. CASE AskSave(b) \/ AskRemoval(b)
  <2>1. PICK saving \in BOOLEAN :
          /\ m.open /\ q = NoChange
          /\ request' = [request EXCEPT ![b] = [at |-> "SENT", saving |-> saving,
                                               version |-> NoPhoto, mounted |-> TRUE]]
          /\ UNCHANGED <<photo, saves, modal, told>>
      BY <1>11 DEF AskSave, AskRemoval, Send
  <2> DEFINE p == [at |-> "SENT", saving |-> saving, version |-> NoPhoto, mounted |-> TRUE]
  <2>2. /\ p \in Change /\ p.at = "SENT" /\ p.saving = saving /\ p.version = 0
        /\ p.mounted = TRUE
      BY PhotoConstants DEF Change
  <2>3. request' = [request EXCEPT ![b] = p]
      BY <2>1
  <2> HIDE DEF p, m, q, t
  <2>4. BrowserSound(m, p, t, saves)
      BY <1>1, <1>3, <1>4, <2>1, <2>2, PhotoConstants DEF BrowserSound
  <2> QED BY <1>1, <1>2, <2>1, <2>2, <2>3, <2>4, OneWindow
<1>12. CASE SavePhoto(b)
  <2> DEFINE p == [q EXCEPT !.at = "DONE", !.version = saves + 1]
  <2>1. /\ q.at = "SENT" /\ q.saving /\ saves < MaxSaves /\ saves' = saves + 1
        /\ photo' = saves + 1 /\ UNCHANGED <<modal, told>>
        /\ request' = [request EXCEPT ![b] = p]
      BY <1>1, <1>12 DEF SavePhoto, Change
  <2>2. /\ p \in Change /\ p.at = "DONE" /\ p.saving = q.saving /\ p.version = saves + 1
        /\ p.mounted = q.mounted
    <3>1. saves + 1 \in Nat
        BY <1>1
    <3> QED BY <1>1, <3>1 DEF Change
  <2>3. saves' \in {saves, saves + 1} /\ saves' <= MaxSaves /\ photo' \in {NoPhoto, saves'}
      BY <1>1, <2>1, PhotoConstants
  <2> HIDE DEF p, m, q, t
  <2>4. BrowserSound(m, q, t, saves + 1)
      BY <1>1, <1>3, SoundAfterSave
  <2>5. BrowserSound(m, p, t, saves')
      BY <1>1, <1>3, <1>4, <2>1, <2>2, <2>4, PhotoConstants DEF BrowserSound
  <2> QED BY <1>1, <1>2, <2>1, <2>2, <2>3, <2>5, OneBrowser
<1>13. CASE DeletePhoto(b)
  <2> DEFINE p == [q EXCEPT !.at = "DONE"]
  <2>1. /\ q.at = "SENT" /\ ~q.saving /\ photo' = NoPhoto /\ UNCHANGED <<saves, modal, told>>
        /\ request' = [request EXCEPT ![b] = p]
      BY <1>1, <1>13 DEF DeletePhoto, Change
  <2>2. /\ p \in Change /\ p.at = "DONE" /\ p.saving = q.saving /\ p.version = q.version
        /\ p.mounted = q.mounted
      BY <1>1 DEF Change
  <2>3. saves' \in {saves, saves + 1} /\ saves' <= MaxSaves /\ photo' \in {NoPhoto, saves'}
      BY <1>1, <2>1
  <2> HIDE DEF p, m, q, t
  <2>4. BrowserSound(m, p, t, saves)
      BY <1>1, <1>3, <1>4, <2>1, <2>2, PhotoConstants DEF BrowserSound
  <2>5. BrowserSound(m, p, t, saves')
      BY <2>1, <2>4
  <2> QED BY <1>1, <1>2, <2>1, <2>2, <2>3, <2>5, OneBrowser
<1>14. CASE PhotoChanged(b)
  <2> DEFINE v == q.version
             fetch == IF m.open THEN Fetches(m.fetch, m.version, v) ELSE m.fetch
             n == [m EXCEPT !.url = IF q.mounted THEN v ELSE @,
                            !.version = IF m.open THEN v ELSE @, !.fetch = fetch]
             u == Newest(t, v)
  <2>1. /\ q.at = "DONE" /\ UNCHANGED <<photo, saves>>
        /\ request' = [request EXCEPT ![b] = NoChange] /\ told' = [told EXCEPT ![b] = u]
        /\ modal' = [modal EXCEPT ![b] = n]
      BY <1>1, <1>14 DEF PhotoChanged, Learns, Window
  <2>2. fetch \in SUBSET Nat
      BY <1>4, PhotoConstants DEF Fetches, Cancelled
  <2>3. /\ n \in Window /\ n.open = m.open /\ n.fetch = fetch
        /\ n.url = (IF q.mounted THEN v ELSE m.url)
        /\ n.version = (IF m.open THEN v ELSE m.version)
    <3> HIDE DEF fetch
    <3> QED BY <1>1, <1>4, <2>2 DEF Window
  <2>4. u \in Nat /\ u <= saves /\ t <= u /\ v <= u /\ u \in {t, v}
      BY <1>1, <1>3, <1>4 DEF Newest, BrowserSound
  <2>5. CASE ~m.open
    <3>1. m = Closed /\ ~q.mounted
        BY <1>3, <1>4, <2>5 DEF BrowserSound
    <3>2. n = m
        BY <1>1, <1>4, <2>5, <3>1 DEF Window
    <3> HIDE DEF n, u, m, q, t
    <3>3. BrowserSound(n, NoChange, u, saves)
        BY <1>1, <1>3, <1>4, <1>5, <2>4, <3>1, <3>2, PhotoConstants DEF BrowserSound
    <3> QED BY <1>1, <1>2, <2>1, <2>3, <2>4, <3>3, OneWindow
  <2>6. CASE m.open /\ v = m.version
    <3>1. fetch = m.fetch
        BY <2>6 DEF Fetches
    <3>2. q.mounted => v = 0
        BY <1>3, <1>4, <2>1, <2>6, PhotoConstants DEF BrowserSound
    <3>3. m.url # 0 \/ m.fetch # {} => u = t \/ (q.mounted /\ v = 0)
        BY <1>1, <1>3, <1>4, <2>1, <2>4, <2>6, <3>2, PhotoConstants DEF BrowserSound
    <3>4. v = 0 => u = t
        BY <1>1, <2>4
    <3> HIDE DEF n, u, m, q, t, fetch, v
    <3>5. BrowserSound(n, NoChange, u, saves)
        BY <1>1, <1>3, <1>4, <1>5, <2>3, <2>4, <2>6, <3>1, <3>2, <3>3, <3>4, PhotoConstants
           DEF BrowserSound
    <3> QED BY <1>1, <1>2, <2>1, <2>3, <2>4, <3>5, OneWindow
  <2>7. CASE m.open /\ v # m.version
    <3>1. fetch = IF v = 0 THEN {} ELSE {Asked}
        BY <2>7, PhotoConstants DEF Fetches, Cancelled
    <3>2. v <= saves /\ v \in Nat
        BY <1>3, <1>4 DEF BrowserSound
    <3>3. v = 0 => u = t
        BY <1>1, <2>4
    <3>4. ~q.mounted /\ m.url # 0 => m.url >= t
        BY <1>3, <2>1, PhotoConstants DEF BrowserSound
    <3> HIDE DEF n, u, m, q, t, fetch, v
    <3>5. BrowserSound(n, NoChange, u, saves)
        BY <1>1, <1>3, <1>4, <1>5, <2>3, <2>4, <2>7, <3>1, <3>2, <3>3, <3>4, PhotoConstants
           DEF BrowserSound
    <3> QED BY <1>1, <1>2, <2>1, <2>3, <2>4, <3>5, OneWindow
  <2> QED BY <2>5, <2>6, <2>7
<1>15. CASE ChangeFails(b)
  <2>1. request' = [request EXCEPT ![b] = NoChange] /\ UNCHANGED <<photo, saves, modal, told>>
      BY <1>15 DEF ChangeFails
  <2> HIDE DEF m, q, t
  <2>2. BrowserSound(m, NoChange, t, saves)
      BY <1>1, <1>3, <1>4, <1>5, PhotoConstants DEF BrowserSound
  <2> QED BY <1>1, <1>2, <2>1, <2>2, OneWindow
<1> QED BY <1>6, <1>7, <1>8, <1>9, <1>10, <1>11, <1>12, <1>13, <1>14, <1>15

LEMMA PhotosNextInvariant == PhotosIInv /\ [PhotosNext]_photoVars => PhotosIInv'
<1> SUFFICES ASSUME PhotosIInv, [PhotosNext]_photoVars PROVE PhotosIInv'
    OBVIOUS
<1>1. CASE PhotosNext
    BY <1>1, PhotoStepKeeps DEF PhotosNext
<1>2. CASE UNCHANGED photoVars
    BY <1>2 DEF photoVars, PhotosIInv, PhotosTypeOK, WindowConsistent, RequestConsistent,
                PhotoIsNotOlder, Closed, Asked, NoPhoto
<1> QED BY <1>1, <1>2

\* However saves, deletions and fetches of any number of browsers are answered, no window
\* goes back to an older face (HolderPhotoModal, qr_photo.service.js).
THEOREM PhotosStayNew == PhotosSpec => []PhotoIsNotOlder
<1>1. PhotosIInv => PhotoIsNotOlder
    BY DEF PhotosIInv
<1> QED BY <1>1, PhotosInitInvariant, PhotosNextInvariant, PTL DEF PhotosSpec

=============================================================================
