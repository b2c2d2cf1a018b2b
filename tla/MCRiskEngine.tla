----------------------------- MODULE MCRiskEngine -----------------------------
(* Two orders a second, two open orders, two losses and a 50% drawdown;    *)
(* four clock readings and a second of two units make the rate window      *)
(* slide, three accepted orders exceed it once.                            *)
EXTENDS RiskEngine
MCPositions == {0, -2, 1}
MCPnlDeltas == {-1, 1}
MCMaxLoss == -1
=============================================================================
