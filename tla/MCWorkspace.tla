---------------------------- MODULE MCWorkspace -----------------------------
(* A value and a script, extracted into a blueprint and edited there.        *)
EXTENDS Workspace

MCKind == [n \in {"v", "s", "e"} |->
             CASE n = "v" -> "Value" [] n = "s" -> "LuaScript" [] n = "e" -> "Blueprint"]
MCTrees == {{}, {<<"v">>, <<"s">>}, {<<"e">>, <<"e", "s">>},
            {<<"e">>, <<"e", "v">>, <<"e", "s">>}}
MCDisk == [f \in {"f", "g"} |->
             IF f = "g" THEN Missing
             ELSE [named |-> FALSE, tree |-> {<<"v">>, <<"s">>}]]
=============================================================================
