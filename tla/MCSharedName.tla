---------------------------- MODULE MCSharedName ----------------------------
(***************************************************************************)
(* SharedName for TLC: each CR with one pod name, and a specification of   *)
(* its own, whose pod comes back from the API server as IsDesired expects  *)
(* it; they differ in the v1.Node that they ask for.                       *)
(***************************************************************************)
EXTENDS SharedName

CONSTANT p1

MCPods == {p1}

MCAccountSecrets == Nil
MCAdded == [tolerations |-> {"notReady"}, volumes |-> {}, mounts |-> {"token"}]

MCFull == Some([cpu |-> [value |-> 1, canonical |-> TRUE]])

SpecA ==
    [namespace |-> "nsA", name |-> "node", image |-> "image1", imagePullPolicy |-> "",
     imagePullSecrets |-> Some({"registry"}), tolerations |-> {"controlPlane"},
     nodeSelector |-> Some({"controlPlane"}), affinity |-> Nil, securityContext |-> Nil,
     requests |-> MCFull, limits |-> MCFull, claims |-> Nil, kubeconfigSecret |-> "kube-mock-node",
     apiserverCertSecret |-> "", apiserverKeySecret |-> "", statusUpdatesInterval |-> "",
     cpu |-> "128", memory |-> "0", pods |-> "50", startupTimeout |-> "", logLevel |-> "",
     klogV |-> "", labels |-> Word("rack") :> Word("r1") @@ Word("role") :> Word("agent"),
     taints |-> {"mock"},
     address |-> "", port |-> 0]

\* The last label is one that the API server would not take: "x=y,hint=z".
SpecB ==
    [SpecA EXCEPT !.namespace = "nsB", !.cpu = "64", !.address = "10.0.0.1", !.port = 10251,
                  !.labels = Word("rack") :> Word("r2") @@ Word("zone") :> Word("")
                               @@ Word("odd") :> <<<<"x", "y">>, <<"hint", "z">>>>,
                  !.taints = {}]

MCVkLabels == Word("type") :> Word("virtual-kubelet") @@ Word("role") :> Word("vk")

MCSpecs == {"ofA", "ofB"}
MCSpecOf == [ofA |-> SpecA, ofB |-> SpecB]
=============================================================================
