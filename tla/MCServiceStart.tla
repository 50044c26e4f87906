--------------------------- MODULE MCServiceStart ---------------------------
(* ServiceStart on one profile, with few events of each kind. *)
EXTENDS ServiceStart, TLC

MCBuilds == {"beta15"}
MCOffReasons == {"user"}
MCBases == {"ours"}
MCForeignBases == {}

BudgetOf(connect, refresh, setting, dns, giveUp, stop, crash, takeover) ==
    "connect" :> connect @@ "refresh" :> refresh @@ "setting" :> setting @@ "dns-ru" :> dns
        @@ "give up" :> giveUp @@ "stop" :> stop @@ "crash" :> crash @@ "takeover" :> takeover

\* The passing run: a connect and a takeover, a refresh with the user's switch or
\* with a self-check, and among them a stop and a crash.
MCBudgets ==
    { BudgetOf(1, 0, 0, 0, 0, 1, 1, 1),
      BudgetOf(0, 1, 1, 0, 1, 0, 1, 0),
      BudgetOf(0, 1, 0, 1, 0, 0, 1, 0) }

\* The violated run: a connect and a takeover.
TakeoverBudget == { BudgetOf(1, 0, 0, 0, 0, 0, 0, 1) }
=============================================================================
