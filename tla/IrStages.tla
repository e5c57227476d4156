------------------------------- MODULE IrStages -------------------------------
(***************************************************************************)
(* Which intermediate representations a Rust build can leave behind, and   *)
(* how the files found after it become one tarball per stage.  A file is   *)
(* [stage, crate, task]: the task is the build that wrote it.              *)
(***************************************************************************)
EXTENDS FiniteSets

IrStage == {"AST", "HIR", "THIR", "MIR", "LLVM_IR", "ASM", "GIMPLE", "CLIF"}

(* Dumped by the build itself (--emit), or by one more compiler pass over  *)
(* every target of the workspace (-Zunpretty).                             *)
RidesAlong(s) == s \in {"MIR", "LLVM_IR", "ASM"}
Unpretty(s) == s \in {"AST", "HIR", "THIR"}

FrontendStages == {"AST", "HIR", "THIR", "MIR"}

CodegenBackends == {"llvm", "cranelift", "gcc"}

IrCaps == [llvm      |-> FrontendStages \cup {"LLVM_IR", "ASM"},
           cranelift |-> FrontendStages,
           gcc       |-> FrontendStages \cup {"GIMPLE"}]

(* cargo_env: a stage the backend cannot dump is dropped from --emit, and  *)
(* GIMPLE is asked for by environment variables of cg_gcc.                 *)
RideAlongEmit(stages, backend) == {s \in stages \cap IrCaps[backend] : RidesAlong(s)}
DumpsGimple(stages, backend) == "GIMPLE" \in stages \cap IrCaps[backend]

(* IR_SCOPE=repo keeps the crates of the workspace. *)
InScope(crate, members, repoScope) == repoScope => crate \in members

DiscoverRideAlong(target, stages, members, repoScope) ==
    {d \in target : RidesAlong(d.stage) /\ d.stage \in stages
                    /\ InScope(d.crate, members, repoScope)}

(* Mutant: the whole directory is taken for the build's. *)
WholeDirectory(directory, members, repoScope) == directory

(* libgccjit writes into one directory whatever the build. *)
DiscoverGimple(directory, members, repoScope) ==
    {d \in directory : InScope(d.crate, members, repoScope)}

(* A pass that fails is skipped. *)
RunUnpretty(stages, backend, members, task, failing) ==
    [stage : {s \in (stages \cap IrCaps[backend]) \ failing : Unpretty(s)},
     crate : members, task : {task}]

(* One tarball per stage; one that is over IR_MAX_BYTES is dropped whole.  *)
Pack(dumps, tooBig) == {d.stage : d \in dumps} \ tooBig
=============================================================================
