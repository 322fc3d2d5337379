--------------------------- MODULE FlagDiacritics ---------------------------
(***************************************************************************)
(* Flag diacritics (HfstFlagDiacritics.h).  The values of the features are *)
(* a function from features to integers: 0 is unset, a negative number is  *)
(* a negatively set value.  An operation is a record [op, feature, value]  *)
(* where the value is 0 when the diacritic names none, as in @C.FEATURE@.  *)
(***************************************************************************)
EXTENDS Integers

Operators == {"P", "N", "R", "D", "C", "U"}

\* FdState.apply_operation: whether the operation succeeds ...
Allowed(values, o) ==
    LET v == values[o.feature]
    IN  CASE o.op \in {"P", "N", "C"} -> TRUE
          [] o.op = "R" -> IF o.value = 0 THEN v # 0 ELSE v = o.value
          [] o.op = "D" -> IF o.value = 0 THEN v = 0 ELSE v # o.value
          [] o.op = "U" -> v = 0 \/ v = o.value \/ (v < 0 /\ -v # o.value)

\* ... and the values it leaves when it does.
Apply(values, o) ==
    CASE o.op \in {"P", "U"} -> [values EXCEPT ![o.feature] = o.value]
      [] o.op = "N" -> [values EXCEPT ![o.feature] = -o.value]
      [] o.op = "C" -> [values EXCEPT ![o.feature] = 0]
      [] o.op \in {"R", "D"} -> values
=============================================================================
