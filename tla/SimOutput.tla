------------------------------ MODULE SimOutput -----------------------------
(***************************************************************************)
(* How revm-backend turns the EVM's ExecutionResult into the RawSimOutput  *)
(* of core: one shape for a success, a revert and a halt, told apart by    *)
(* revert_reason alone.  An Option is a set with at most one element; gas  *)
(* and the wording of a halt, which nothing reads, are left out.           *)
(***************************************************************************)
EXTENDS Sequences

Success(output, logs) == [kind |-> "Success", output |-> output, logs |-> logs]
Revert(output)        == [kind |-> "Revert", output |-> output, logs |-> <<>>]
Halt                  == [kind |-> "Halt", output |-> <<>>, logs |-> <<>>]

\* A revert keeps its data, a halt has none; neither has logs.
convert_result(result) ==
    [return_data   |-> result.output,
     revert_reason |-> CASE result.kind = "Success" -> {}
                         [] result.kind = "Revert"  -> {"reverted"}
                         [] result.kind = "Halt"    -> {"halted"},
     logs          |-> result.logs]
=============================================================================
