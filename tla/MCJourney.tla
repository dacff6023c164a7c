----------------------------- MODULE MCJourney -----------------------------
EXTENDS Journey, TLC

CONSTANTS id1, id2, v1, v2

\* Two keys that differ in case, and the key of the message ID.
MCCanon == ("X-Tenant-ID" :> "X-Tenant-Id") @@ ("X-Tenant-Id" :> "X-Tenant-Id")
             @@ ("X-Message-ID" :> "X-Message-Id") @@ ("X-Message-Id" :> "X-Message-Id")

Attach(upper, lower, id) ==
  ("X-Tenant-ID" :> upper) @@ ("X-Tenant-Id" :> lower)
    @@ ("X-Message-ID" :> id) @@ ("X-Message-Id" :> <<>>)

MCSenders ==
  {[id |-> i, header |-> h, span |-> "same"] :
     i \in {None, id1},
     h \in {None, Attach(<<>>, <<>>, <<>>), Attach(<<v1, v2>>, <<>>, <<>>),
            Attach(<<v2, v1>>, <<v1>>, <<>>), Attach(<<v1>>, <<>>, <<id2>>)}}

\* Subscribe is called with a context that carries a header of its own.
MCSubscribeCtx == [Nothing EXCEPT !.header = Attach(<<>>, <<v2>>, <<>>)]

MCChains ==
  {<<>>, <<"InjectHeader">>, <<"InjectMessageID">>,
   <<"ForwardMessageID", "InjectHeader">>}
=============================================================================
