--------------------------------- MODULE Web ---------------------------------
(* What reaches the turn from the network: web_fetch behind the network fence   *)
(* (src/netfence.py), web_search over its providers (src/search.py), the tools  *)
(* of MCP servers (src/mcp_client.py), and the read-ledger they all fill        *)
(* (src/tools.py).  A URL is a record [page, as]: spellings of one page differ  *)
(* in `as`.  The ledger is a sequence of [url, tier], keyed by url, in the      *)
(* order in which the keys were first put there.                                *)
EXTENDS Naturals, Sequences, FiniteSets, SequencesExt

Upsert(fetched, url, tier) ==
  IF \E i \in DOMAIN fetched : fetched[i].url = url
  THEN [i \in DOMAIN fetched |-> IF fetched[i].url = url THEN [url |-> url, tier |-> tier]
                                                         ELSE fetched[i]]
  ELSE Append(fetched, [url |-> url, tier |-> tier])

(* A fetch always wins; a snippet never replaces a page. *)
RecordFetch(fetched, url) == Upsert(fetched, url, "fetched")

NoUrl == [page |-> "", as |-> ""]

RecordSurfaced(fetched, url) ==
  IF url = NoUrl \/ \E i \in DOMAIN fetched : fetched[i] = [url |-> url, tier |-> "fetched"]
  THEN fetched ELSE Upsert(fetched, url, "surfaced")

(* The URLs of a search, or of the body and the arguments of an MCP call. *)
RecordAll(fetched, urls) ==
  LET after[n \in 0 .. Len(urls)] ==
        IF n = 0 THEN fetched ELSE RecordSurfaced(after[n - 1], urls[n])
  IN after[Len(urls)]

------------------------------------------------------------------------------
(* netfence: a host is [scheme, addrs]; addrs is a set of booleans, TRUE for a  *)
(* public address, empty when it does not resolve.                              *)
CheckUrl(host) == host.scheme \in {"http", "https"} /\ host.addrs = {TRUE}

(* web_fetch follows a chain of hops [host, redirects, status].  Behind the     *)
(* fence every hop is checked before it is asked, and there are at most six.    *)
MaxHops == 6

Followed(hops, fence) ==
  LET ends == {n \in DOMAIN hops : ~hops[n].redirects \/ (fence /\ ~CheckUrl(hops[n].host))}
      last == CHOOSE n \in ends : \A m \in ends : n <= m
  IN IF ends = {} \/ (fence /\ last > MaxHops) THEN "too many"
     ELSE IF fence /\ ~CheckUrl(hops[last].host) THEN "fenced"
     ELSE hops[last].status

FetchOk(hops, fence) == Followed(hops, fence) = "200"

------------------------------------------------------------------------------
(* search: a provider answers with [configured, status, body, rows]; body is    *)
(* "json", "text" (not JSON) or "raises", rows the results' URLs, in order,     *)
(* NoUrl for a row without one.  A payload is [results, error].                 *)
Payload(results, error) == [results |-> results, error |-> error]

Adapter(provider, reply) ==
  IF provider = "unknown" \/ ~reply.configured \/ reply.status # "200" THEN Payload(<<>>, TRUE)
  ELSE IF reply.body = "json" THEN Payload(reply.rows, FALSE)
  ELSE IF reply.body = "text" /\ provider = "generic" THEN Payload(<<NoUrl>>, FALSE)
  ELSE Payload(<<>>, TRUE)

(* run: whatever the provider does becomes a payload, clamped to n results. *)
RunSearch(provider, reply, n) ==
  LET p == Adapter(provider, reply)
  IN [p EXCEPT !.results = SubSeq(@, 1, IF Len(@) < n THEN Len(@) ELSE n)]

(* surfaced_sources: the rows that have a URL, in their order. *)
WebSearch(fetched, provider, reply, n) ==
  LET p == RunSearch(provider, reply, n)
  IN IF p.error THEN fetched ELSE RecordAll(fetched, p.results)

(* _result_to_toolresult: only what a web-marked server answered without an     *)
(* error is recorded.                                                           *)
McpResult(fetched, web, ok, urls) == IF web /\ ok THEN RecordAll(fetched, urls) ELSE fetched
==============================================================================
