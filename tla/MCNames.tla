------------------------------ MODULE MCNames -------------------------------
(* Instances of Names for TLC.                                             *)
EXTENDS Names

MCDevices == <<"null">>

MCTargets == {<<"mnt">>}

MCMoves == {<<"mnt">>, <<"a", ".">>, <<"..">>, <<"..", "..">>, <<"..", "a", "b">>}

Mix(calls, paths) == [calls |-> calls, paths |-> paths]

MCMixes ==
  {Mix({"create", "mknod", "unlink"}, {<<"mnt", "a">>, <<"dev", "null">>}),
   Mix({"mkdir", "rmdir", "rename"}, {<<"mnt">>, <<"a">>, <<"b">>, <<"a", "b">>}),
   Mix({"symlink", "mkdir", "unlink"}, {<<"a">>, <<"b">>, <<"a", "b">>}),
   Mix({"mount", "mkdir", "rmdir"}, {<<"mnt">>, <<"a">>, <<"mnt", "a">>}),
   Mix({"mount", "symlink"}, {<<"mnt">>, <<"a">>, <<"a", "mnt">>}),
   Mix({"chdir", "mkdir", "rmdir"}, {<<"a">>, <<"a", "b">>})}
=============================================================================
