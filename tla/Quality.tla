-------------------------------- MODULE Quality --------------------------------
(***************************************************************************)
(* Quality control: inspections, non-conformances and their corrective     *)
(* actions (workflows/quality), and the quarantine of the lot that the     *)
(* edge camera found defective (quality/lot_quarantine).  Nothing locks a  *)
(* row.                                                                    *)
(*                                                                         *)
(* Rows: QI [status] inspection; NC [status, from] non-conformance, from   *)
(* the inspection that found it; CAPA [status, nc] corrective action; LOT  *)
(* [status, held] a lot of the stock; WS [status] the workstation.         *)
(* Books: "HELD" the lot_quarantined events enqueued.                      *)
(***************************************************************************)
EXTENDS Database

Line == <<"WS", 1>>
HeldEvents(lot) == <<"HELD", lot>>

CreateNonConformance(s, nc, status) ==
  Stage(s, nc :> [status |-> status, from |-> NoRef], Nothing, {})

\* A reading out of range fails the inspection, which opens a
\* non-conformance unless the caller does not want it.
CreateInspection(s, qi, nc, pass, auto) ==
  Stage(s,
    qi :> [status |-> IF pass THEN "PASS" ELSE "FAIL"]
      @@ IF pass \/ ~auto THEN Nothing ELSE nc :> [status |-> "OPEN", from |-> qi],
    Nothing, {})

CreateAction(s, nc, capa) ==
  Stage(s, capa :> [status |-> "OPEN", nc |-> nc] @@ nc :> [status |-> "CAPA_ASSIGNED"], Nothing, {})

\* Mutant of AllClosed: the other actions are not looked at.
AllClosedByOne(capa, status) == status = "VERIFIED_CLOSED"

AllClosed(capa, status) ==
  /\ status = "VERIFIED_CLOSED"
  /\ \A a \in Of("CAPA", "nc", db[capa].nc) \ {capa} : Status(a) = "VERIFIED_CLOSED"

ResolveAction(s, capa, status) ==
  Stage(s,
    capa :> [status |-> status]
      @@ IF AllClosed(capa, status) THEN db[capa].nc :> [status |-> "CLOSED"] ELSE Nothing,
    Nothing, {})

\* trip: the defect is certain enough to divert and hold the lot; pause: the
\* rolling defect rate of the line exceeds its threshold.
SubmitOpticalInspection(s, lot, trip, pause) ==
  Stage(s,
    (IF trip THEN lot :> [held |-> TRUE] ELSE Nothing)
      @@ IF pause THEN Line :> [status |-> "PAUSED_QUALITY_HOLD"] ELSE Nothing,
    IF trip THEN HeldEvents(lot) :> 1 ELSE Nothing, {})

ReleaseQuarantinedLot(s, lot) == Stage(s, lot :> [held |-> FALSE], Nothing, {})

QualityNext(s) ==
  \/ \E nc \in Rows("NC") :
       \/ \E status \in {"OPEN", "CLOSED"} : Fresh(nc) /\ CreateNonConformance(s, nc, status)
       \/ \E qi \in Rows("QI"), pass \in BOOLEAN, auto \in BOOLEAN :
            Fresh(nc) /\ Fresh(qi) /\ CreateInspection(s, qi, nc, pass, auto)
       \/ \E capa \in Rows("CAPA") : Fresh(capa) /\ db[nc] # NoRow /\ CreateAction(s, nc, capa)
  \/ \E capa \in Live("CAPA"), status \in {"IN_PROGRESS", "VERIFIED_CLOSED"} : ResolveAction(s, capa, status)
  \/ \E lot \in Live("LOT") :
       \/ \E trip, pause \in BOOLEAN :
            (trip => Book(HeldEvents(lot)) < 2) /\ SubmitOpticalInspection(s, lot, trip, pause)
       \/ ReleaseQuarantinedLot(s, lot)

-----------------------------------------------------------------------------
(* Properties *)

\* A non-conformance with corrective actions is closed once the last of
\* them is verified, and is not closed by an action as long as another one
\* was never verified: a new action opens it again.
ClosedWhenVerified ==
  [][\A nc \in Live("NC") :
       LET actions == {c \in Rows("CAPA") : db'[c] # NoRow /\ db'[c].nc = nc} IN
       actions # {} /\ db'[nc].status # Status(nc) =>
         (db'[nc].status = "CLOSED") = (\A c \in actions : db'[c].status = "VERIFIED_CLOSED")]_vars
=============================================================================
