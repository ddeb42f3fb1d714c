--------------------------- MODULE EndpointObjects ---------------------------
(***************************************************************************)
(* What the provider reads out of unstructured objects: the URLs of an     *)
(* endpoint slice (pkg/provider/urls.go, initializingworkspaces) and the   *)
(* Ready condition of a watched object (pkg/provider/condition.go).        *)
(*                                                                         *)
(* A list field is [field |-> "bad" | "missing" | "list", items |-> seq]:  *)
(* it cannot be converted, is absent, or has items of any JSON type.       *)
(***************************************************************************)
EXTENDS Naturals, Sequences, SequencesExt

\* What an extractor returns: URLs or an error.
URLsOf(urls) == [err |-> FALSE, urls |-> urls]
Failed == [err |-> TRUE, urls |-> <<>>]

\* One turn of the loop over status.endpoints: an item is "other" than a map,
\* a map whose url is no string ("badUrl"), or a map with a url, "" for none.
AppendURL(result, item) ==
  CASE result.err \/ item.kind = "other"  -> result
    [] ~result.err /\ item.kind = "badUrl" -> Failed
    [] ~result.err /\ item.kind = "map" ->
         IF item.url = "" THEN result ELSE URLsOf(Append(result.urls, item.url))

\* DefaultExtractURLsFromEndpointSlice
DefaultExtractURLs(endpoints) ==
  CASE endpoints.field = "bad"     -> Failed
    [] endpoints.field = "missing" -> URLsOf(<<>>)
    [] endpoints.field = "list"    ->
         FoldLeft(AppendURL, URLsOf(<<>>), endpoints.items)

\* ExtractURLsByJSONPath: the results of the path are lists of values; the
\* path fails on an object without the field.
ExtractURLsByJSONPath(results) ==
  IF results.field # "list" THEN Failed
  ELSE URLsOf(SelectSeq(FlattenSeq(results.items), LAMBDA v : v \notin {"", "other"}))

\* The initializing workspaces provider keeps the URLs of its own virtual
\* workspace.
InitializingURLs(endpoints) ==
  LET own == SelectSeq(endpoints, LAMBDA e : e.initializing)
  IN  URLsOf([i \in DOMAIN own |-> own[i].url])

\* ConditionReadyFunc: the first item that matches or is malformed decides.
ConditionReady(conditions, type) ==
  LET decisive == {i \in DOMAIN conditions.items :
        LET c == conditions.items[i]
        IN  \/ c.kind = "bad"
            \/ c.kind = "map" /\ c.type = type /\ c.status = "True"}
      first == CHOOSE i \in decisive : \A j \in decisive : i <= j
  IN  CASE conditions.field = "bad"     -> "error"
        [] conditions.field = "missing" -> "false"
        [] conditions.field = "list"    ->
             IF decisive = {} THEN "false"
             ELSE IF conditions.items[first].kind = "bad" THEN "error" ELSE "true"
=============================================================================
