--------------------------- MODULE MCPaperDrawing ---------------------------
(* Small banks of three competencies, the third of them not technical. *)
EXTENDS PaperDrawing

\* Papers of three competencies or modules, two of them technical.
MCComps == 1..3
MCWeights == { <<2, 1, 1>>, <<0, 0, 0>>, <<1, 3, 5>>, <<4, 0, 1>> }
MCLimits == {0, 2, 3, 5, 6}
MCBanks ==
  { <<a, b, c>> :
      a \in [pin : {0, 1}, lead : {0}, oral : {0}, choice : {0, 2}, open : {1, 3}],
      b \in [pin : {0, 1}, lead : {0}, oral : {0}, choice : {2}, open : {1}],
      c \in [pin : {0}, lead : {0, 1}, oral : {0, 3}, choice : {0, 2}, open : {1, 3}] }
MCSupplies ==
  { <<a, a, c>> :
      a \in [choice : {1, 2}, sameChoice : {0, 1}, bare : {0, 1}, open : {0, 1}, sameOpen : {0, 1},
             spareChoice : {0, 1}, spareOpen : {0, 1}, live : BOOLEAN],
      c \in [choice : {1}, sameChoice : {0}, bare : {0}, open : {0, 1}, sameOpen : {0, 1},
             spareChoice : {0}, spareOpen : {0, 1}, live : BOOLEAN] }
MCTechnical == {1, 2}
=============================================================================
