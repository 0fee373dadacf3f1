------------------------- MODULE MCStreamInspector -------------------------
(* Small instances of StreamInspector: at most two signatures in the stream. *)
EXTENDS StreamInspector

AnySign == {s \in Sign : s.lo < s.hi}

SmallInit ==
  /\ signs \in {{}} \cup {{s, t} : s, t \in AnySign}
  /\ total = 0 /\ base = 0 /\ found = {} /\ cuts = {}

SmallSpec == SmallInit /\ [][InspectorNext]_inspectorVars /\ WF_inspectorVars(ScanWindow)
=============================================================================
