------------------------------- MODULE MCPods -------------------------------
(***************************************************************************)
(* Instances of Pods: up to two replicas, two images, and log levels that  *)
(* Airflow can load and one that it cannot.                                *)
(***************************************************************************)
EXTENDS Pods

CONSTANTS image1, image2

RootAt(level) == [file |-> None, console |-> None, root |-> level]

SpecOf(image, replicas, logging) ==
    [image |-> image, replicas |-> replicas, stopped |-> FALSE, logging |-> logging]

Verbose == SpecOf(image1, 2, RootAt("TRACE"))

MCSpecs ==
    {SpecOf(image1, 2, None),
     SpecOf(image2, 2, RootAt("DEBUG")),
     SpecOf(image2, 1, RootAt("WARN")),
     Verbose,
     [Verbose EXCEPT !.stopped = TRUE]}

VerboseSpecs == {Verbose, SpecOf(image1, 2, None)}
=============================================================================
