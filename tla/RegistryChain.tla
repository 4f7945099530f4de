---------------------------- MODULE RegistryChain ----------------------------
(***************************************************************************)
(* The endpoints of one source, asked one after another for metadata and     *)
(* for an artifact (fallbackRegistryBackend over HTTPRegistryClient).         *)
(*                                                                         *)
(* An endpoint is [skips, metadata, integrity, artifact, wait]: whether it    *)
(* declares fallbackOnNotFound; the answers to its requests for metadata and  *)
(* for the artifact, two of each, the second one for a retry; the integrity   *)
(* its metadata gives the version, "absent" when it has no such version; and *)
(* its Retry-After in tenths of a second, -1 when there is none.              *)
(* Answers: ok, missing (404), denied (401, 403), odd (another 4xx),          *)
(* throttled (429), broken (5xx), cut (connection, timeout, EOF), unknown (no *)
(* such host), garbled (a body that does not parse).                          *)
(***************************************************************************)
EXTENDS Integers, Sequences, FiniteSets

Unset == -1

Answer == {"ok", "missing", "denied", "odd", "throttled", "broken", "cut", "unknown", "garbled"}
Endpoint ==
  [skips : BOOLEAN, metadata : Answer \X Answer, artifact : Answer \X Answer,
   integrity : STRING, wait : Nat \cup {Unset}]

(* retryAfterDelay: nothing that is not a duration, at most a second. *)
RetryAfterDelay(wait) == IF wait < 0 THEN Unset ELSE IF wait > 10 THEN 10 ELSE wait

(* get: one retry, and only after 429 with a Retry-After. *)
Get(answers, wait) ==
  IF answers[1] = "throttled" /\ RetryAfterDelay(wait) # Unset THEN answers[2] ELSE answers[1]

Metadata(e) == Get(e.metadata, e.wait)
Artifact(e) == IF Get(e.artifact, e.wait) = "garbled" THEN "ok" ELSE Get(e.artifact, e.wait)

FallbackWorthy_Always(answer, skips, alarming) ==
  answer \notin {"denied", "garbled"} /\ (answer = "missing" => skips)

(* fallbackWorthy looks for words in the text of the error, in which the     *)
(* name of the package occurs: alarming is a name with "timeout",            *)
(* "connection" or "eof" in it.                                               *)
FallbackWorthy(answer, skips, alarming) ==
  CASE answer \in {"denied", "garbled"} -> FALSE
    [] answer = "missing" -> skips
    [] answer \in {"broken", "cut"} -> TRUE
    [] answer \in {"odd", "throttled", "unknown"} -> alarming

(* Metadata of the chain: the first endpoint that answers, if all before it *)
(* were worth falling back from; 0 when there is none.                       *)
MetadataFalls(e, alarming) ==
  Metadata(e) # "ok" /\ FallbackWorthy(Metadata(e), e.skips, alarming)

MetadataFrom(chain, alarming) ==
  LET Good(k) == /\ Metadata(chain[k]) = "ok"
                 /\ \A i \in 1 .. k - 1 : MetadataFalls(chain[i], alarming)
  IN IF \E k \in DOMAIN chain : Good(k) THEN CHOOSE k \in DOMAIN chain : Good(k) ELSE 0

(* FetchArtifact: the endpoint that gave the metadata, then the others,     *)
(* which have to offer the same version with the same integrity.             *)
Offered(chain, from) == chain[from].integrity

Verdict(e, wanted, alarming) ==
  CASE Metadata(e) # "ok" -> IF FallbackWorthy(Metadata(e), e.skips, alarming) THEN "next" ELSE "CLOSED"
    [] Metadata(e) = "ok" /\ e.integrity = "absent" -> IF e.skips THEN "next" ELSE "CLOSED"
    [] Metadata(e) = "ok" /\ e.integrity # "absent" /\ wanted # "none" /\ e.integrity # wanted -> "TRUST_FAILED"
    [] Metadata(e) = "ok" /\ e.integrity # "absent" /\ (wanted = "none" \/ e.integrity = wanted) ->
         IF Artifact(e) = "ok" THEN "ok"
         ELSE IF FallbackWorthy(Artifact(e), FALSE, FALSE) THEN "next" ELSE "CLOSED"

Fallback(chain, from, alarming) ==
  LET VerdictOf(k) == Verdict(chain[k], Offered(chain, from), alarming)
      ends == {k \in from + 1 .. Len(chain) : VerdictOf(k) # "next"}
      end == CHOOSE k \in ends : \A j \in ends : k <= j
  IN IF ends = {} THEN [from |-> 0, error |-> "FALLBACK_EXHAUSTED"]
     ELSE IF VerdictOf(end) = "ok" THEN [from |-> end, error |-> "none"]
     ELSE [from |-> 0, error |-> VerdictOf(end)]

FetchArtifact(chain, from, alarming) ==
  IF Artifact(chain[from]) = "ok" THEN [from |-> from, error |-> "none"]
  ELSE IF FallbackWorthy(Artifact(chain[from]), FALSE, FALSE) THEN Fallback(chain, from, alarming)
  ELSE [from |-> 0, error |-> "CLOSED"]

-----------------------------------------------------------------------------
(* What the policy promises (docs/dev/m70d-source-policy.md): an endpoint    *)
(* supplies something only if every endpoint before it was out of reach or    *)
(* is declared to be skipped when it does not have it, and bytes from another *)
(* endpoint than the metadata are those the metadata announced.  The version  *)
(* that is fetched has been selected from that metadata.                      *)
OutOfReach(e, answer) == answer \in {"broken", "cut"} \/ (answer = "missing" /\ e.skips)

MetadataFailsClosed(chain, alarming) ==
  \A i \in DOMAIN chain : i < MetadataFrom(chain, alarming) => OutOfReach(chain[i], Metadata(chain[i]))

ArtifactIsAnnounced(chain, alarming) ==
  LET from == MetadataFrom(chain, alarming)
      got == FetchArtifact(chain, from, alarming)
  IN from # 0 /\ Offered(chain, from) # "absent" /\ got.from # 0 =>
       /\ chain[got.from].integrity # "absent"
       /\ Offered(chain, from) # "none" => chain[got.from].integrity = Offered(chain, from)
       /\ \A i \in from .. got.from - 1 :
            \/ OutOfReach(chain[i], Artifact(chain[i]))
            \/ i > from /\ (OutOfReach(chain[i], Metadata(chain[i]))
                            \/ (chain[i].integrity = "absent" /\ chain[i].skips))

ChainFailsClosed(chain) == MetadataFailsClosed(chain, FALSE) /\ ArtifactIsAnnounced(chain, FALSE)
=============================================================================
