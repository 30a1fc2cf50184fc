------------------------------- MODULE MCVfs -------------------------------
(* Two volumes: each has, or will have, a file with the same inode number. *)
EXTENDS Vfs, TLC

MCRoot == <<"/">>
MCTargets == {<<"/">>, <<"/", "m", "/">>}
MCPaths == {<<"/", "a">>, <<"/", "m", "/", "a">>, <<"/", "b">>}
MCDirPaths == {<<"/", "d">>}
MCInum == [v \in Volumes |-> IF v = RootVolume THEN (<<"a">> :> 1) @@ (<<"b">> :> 2) ELSE (<<"a">> :> 1)]
MCFiles == [v \in Volumes |-> {<<"a">>}]
=============================================================================
