------------------------ MODULE MCEndpointReconciler ------------------------
(* Small instances of EndpointReconciler for TLC, with URL lists as the    *)
(* default extractor reads them from endpoint slices.                      *)
EXTENDS EndpointReconciler, EndpointObjects

CONSTANTS u1, u2

Map(u) == [kind |-> "map", url |-> u]
Other == [kind |-> "other", url |-> ""]
BadUrl == [kind |-> "badUrl", url |-> ""]
Items(s) == [field |-> "list", items |-> s]

\* Slices without status, with one URL, with both and an item that is no map,
\* and with one URL twice and an endpoint without URL.
SliceObjects ==
  {[field |-> "missing", items |-> <<>>], Items(<<Map(u1)>>),
   Items(<<Map(u2), Other, Map(u1)>>),
   Items(<<Map(u1), Map(""), Map(u2), Map(u1)>>)}

MCUrlLists == {<<>>, <<u1>>, <<u2, u1>>, <<u1, u2, u1>>}

\* The lists the reconciliation works on come out of such slices.
ASSUME ListsAreExtracted ==
  MCUrlLists = {DefaultExtractURLs(o).urls : o \in SliceObjects}

-----------------------------------------------------------------------------
Lists(S) == UNION {[1..n -> S] : n \in 0..3}

\* The default extractor returns the URLs of all endpoints in their order,
\* unless an endpoint's URL is no string.
ASSUME ExtractionIsComplete ==
  \A s \in Lists({Map(u1), Map(u2), Map(""), Other, BadUrl}) :
    LET got  == DefaultExtractURLs(Items(s))
        urls == SelectSeq(s, LAMBDA e : e.kind = "map" /\ e.url # "")
    IN  /\ got.err <=> \E i \in DOMAIN s : s[i] = BadUrl
        /\ ~got.err => got.urls = [i \in DOMAIN urls |-> urls[i].url]

\* The JSON path of the default field gives the same URLs for endpoints
\* whose URLs are strings.
ASSUME ExtractorsAgree ==
  \A s \in Lists({u1, u2, ""}) :
    ExtractURLsByJSONPath(Items(<<s>>))
      = DefaultExtractURLs(Items([i \in DOMAIN s |-> Map(s[i])]))

\* Of a workspace type's endpoints the initializing ones are watched.
ASSUME InitializingOnly ==
  \A s \in Lists([url : URLs, initializing : BOOLEAN]) :
    LET got == InitializingURLs(s).urls
    IN  Listed(got) = {s[i].url : i \in {j \in DOMAIN s : s[j].initializing}}

\* An object is ready iff a matching condition precedes every malformed one,
\* and the filter fails iff a malformed one precedes every matching one.
ASSUME ReadyIsFirstMatch ==
  LET Cond(k, t, st) == [kind |-> k, type |-> t, status |-> st]
      ready == Cond("map", "Ready", "True")
      bad   == Cond("bad", "", "")
  IN  \A s \in Lists({ready, bad, Cond("map", "Ready", "False"),
                      Cond("map", "Bound", "True"), Cond("other", "", "")}) :
        LET got == ConditionReady(Items(s), "Ready")
            Before(a, b) == \E i \in DOMAIN s : s[i] = a
                              /\ \A j \in 1..(i - 1) : s[j] # b
        IN  /\ got = "true"  <=> Before(ready, bad)
            /\ got = "error" <=> Before(bad, ready)
=============================================================================
