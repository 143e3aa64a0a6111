----------------------------- MODULE MCSoftCpu -----------------------------
(* Two CPUs, a monitor and a user context for each.  CPU 0 is dead started *)
(* from package 0 (xa 0), which loads "os0"; "os0" stores "os1" there and  *)
(* starts CPU 1 with an inter-processor interrupt.  Packages 1 and 2 hold  *)
(* the user contexts of CPU 0 and CPU 1, which share cluster 1 with "os1". *)
EXTENDS SoftCpu, TLC

Ctx(t, m, k, x) == [task |-> t, p |-> NoSem, mode |-> m, cluster |-> k, xa |-> x]

MCTask == {"boot0", "boot1", "os0", "os1", "u0", "u1"}
MCBootTask == [c \in Cpus |-> IF c = 0 THEN "boot0" ELSE "boot1"]
MCImage == (0 :> Ctx("os0", {"MM"}, 0, 1)) @@ (1 :> Ctx("u0", {}, 1, 1))
             @@ (2 :> Ctx("u1", {}, 1, 2))
MCTemplates == {Ctx("os1", {"MM", "IMM"}, 1, 2)}
MCXaOf == [c \in Cpus |-> {c + 1}]
=============================================================================
