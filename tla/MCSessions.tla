----------------------------- MODULE MCSessions -----------------------------
EXTENDS Sessions, TLC

CONSTANTS admin, boss, mine, c1, c2

MCPeople == {admin, boss}
MCSuper == {admin}
MCCompanies == {mine}
MCHome == admin :> NULL @@ boss :> mine
MCCalls == {c1, c2}
=============================================================================
