---------------------------- MODULE MCWebConsole ----------------------------
EXTENDS WebConsole

\* Two tools that run live and one that does not; one route and two routes, and
\* an area of the two only.
MCPlan == [a \in Tools \X Contents |->
             CASE a[2] = 1 -> IF a[1] = "area" THEN << >> ELSE <<"x">> [] a[2] = 2 -> <<"x", "y">>]
=============================================================================
