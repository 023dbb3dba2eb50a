----------------------------- MODULE MCServices ------------------------------
(* Instances of Services for model checking. *)
EXTENDS Services

MCSleeperKind == [s \in Sleepers |-> s]
MCSignumOf == [l \in Listeners |-> 2]
MCScripts == UNION {[1..n -> Streams] : n \in 0..4}

\* A length field of one and of two bytes, in both orders; a delimiter that
\* overlaps itself; no framing.
MCFramings == {
  [kind |-> "length", lfl |-> 1, be |-> TRUE, delim |-> <<>>, max |-> 2],
  [kind |-> "length", lfl |-> 2, be |-> FALSE, delim |-> <<>>, max |-> 2],
  [kind |-> "delim", lfl |-> 0, be |-> TRUE, delim |-> <<1, 1, 2>>, max |-> 2],
  [kind |-> "noop", lfl |-> 0, be |-> TRUE, delim |-> <<>>, max |-> 2]}
MCItems == {<<>>, <<0, 1>>, <<0, 0, 1>>}

\* A handshake, then one unit of each kind or a pair in which the order matters;
\* a handshake that fails, and a peer that says nothing.
MCPeerScripts ==
  {<<"hello">> \o s : s \in
     {<<>>, <<"data">>, <<"update">>, <<"bad">>, <<"close">>, <<"update", "data">>,
      <<"data", "bad">>, <<"data", "close">>, <<"close", "data">>, <<"data", "data", "close">>}}
  \cup {<<"bad">>, <<>>}
=============================================================================
