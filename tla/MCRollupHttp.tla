---------------------------- MODULE MCRollupHttp ----------------------------
(* Two connections, each with a worker of its own or both with the same    *)
(* one, that post a chosen set of requests, and the dapp.                  *)
EXTENDS RollupHttp, TLC
CONSTANTS c1, c2, w1, w2, p1

MCPayloadLength == [p \in Payload |-> 33]
OwnWorkers == [c \in Conn |-> IF c = c1 THEN w1 ELSE w2]
SharedWorker == [c \in Conn |-> w1]

Post(path, accept) == [path |-> path, accept |-> accept, payload |-> p1]
\* For safety: outputs that differ, and what waits for the host and gets
\* another request or a reply into rx.
MainPosts == {Post("finish", TRUE), Post("gio", TRUE), Post("notice", TRUE),
              Post("delegate_call_voucher", TRUE)}
\* For liveness: what answers at once, and what stops the machine to be
\* accepted, or to be undone.
LivePosts == {Post("finish", TRUE), Post("finish", FALSE), Post("report", TRUE),
              Post("exception", TRUE)}

\* Swapping the connections together with their workers changes nothing.  (A
\* part of what Permutations returns, which is what TLC takes.)
Swap == {f \in Permutations({c1, c2, w1, w2}) :
           \A c \in {c1, c2} : f[c] \in {c1, c2} /\ f[WorkerOf[c]] = WorkerOf[f[c]]}
=============================================================================
