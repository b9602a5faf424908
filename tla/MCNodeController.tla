-------------------------- MODULE MCNodeController --------------------------
(***************************************************************************)
(* NodeController for TLC: two pod names, so that a stale list can lead to *)
(* a surplus pod, and to a third that the API server refuses; and two      *)
(* specifications, of which the second has another image, other taints of  *)
(* the node, and one toleration less.  The first has an empty selector, a  *)
(* request that is not canonical and empty limits until Reconcile writes   *)
(* it; the second's resources are complete and stay as they are.           *)
(***************************************************************************)
EXTENDS NodeController

CONSTANTS p1, p2

MCPods == {p1, p2}

MCAccountSecrets == Nil
MCAdded == [tolerations |-> {"notReady"}, volumes |-> {}, mounts |-> {"token"}]

Cpu(canonical) == Some([cpu |-> [value |-> 1, canonical |-> canonical]])

First ==
    [namespace |-> "ns", name |-> "node", image |-> "image1", imagePullPolicy |-> "",
     imagePullSecrets |-> Some({"registry"}), tolerations |-> {"controlPlane"},
     nodeSelector |-> Some({}), affinity |-> Nil, securityContext |-> Nil,
     requests |-> Cpu(FALSE), limits |-> Some([r \in {} |-> 0]), claims |-> Nil,
     kubeconfigSecret |-> "kube-mock-node",
     apiserverCertSecret |-> "", apiserverKeySecret |-> "", statusUpdatesInterval |-> "",
     cpu |-> "128", memory |-> "0", pods |-> "50", startupTimeout |-> "", logLevel |-> "",
     klogV |-> "", labels |-> Word("rack") :> Word("r1"), taints |-> {}, address |-> "", port |-> 0]

Second ==
    [First EXCEPT !.image = "image2", !.tolerations = {}, !.nodeSelector = Nil,
                  !.requests = Cpu(TRUE), !.limits = Cpu(TRUE), !.taints = {"mock"}]

MCSpecs == {"first", "second"}
MCSpecOf == [first |-> First, second |-> Second]
=============================================================================
