---------------------------- MODULE MCCliProcess ----------------------------
(* A small instance of CliProcess. *)
EXTENDS CliProcess

Range26 == [min |-> <<2, 0, 4>>, max |-> <<2, 1, 0>>]
Narrower == [min |-> <<2, 0, 9>>, max |-> <<2, 3, 0>>]
Gateway(proto, minCli, def, dep) == [proto |-> proto, minCli |-> minCli, def |-> def, dep |-> dep]

SomeVersions == {None, <<1, 18, 29>>, <<2, 0, 4>>, <<2, 0, 10>>, <<2, 1, 0>>, <<3, 0, 0>>}

\* One from before versions, the usual one, one that narrows the 2.x versions,
\* one without 2.x in a deployment that names some, one that asks for a newer CLI.
SomeGateways ==
  { Down,
    Gateway(1, 1, None, None),
    Gateway(2, 1, Range26, None),
    Gateway(2, 1, Range26, Narrower),
    Gateway(2, 1, None, Narrower),
    Gateway(3, 2, Range26, None) }
=============================================================================
