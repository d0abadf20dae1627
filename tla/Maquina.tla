------------------------------ MODULE Maquina ------------------------------
(***************************************************************************)
(* What the assembler of src/the-last-of-c-pruebas takes a CPU to be, for  *)
(* the program of a thread that has the machine to itself: a sequential    *)
(* computer with a few registers and the bytes of its process, each        *)
(* instruction with the effect those programs use it for (FIBO_10 writes   *)
(* memory, loops with JNZ and goes on after its DUMP_MEMORY;               *)
(* RECURSOS_MUTEX_PROC reads back what it wrote).  One thing is as the     *)
(* code has it, because no program says otherwise: the cycle adds one to a *)
(* PC that SET has assigned.  A step may end the promise (Pierde).         *)
(***************************************************************************)
EXTENDS Integers, Sequences

CONSTANT Instrucciones   \* [op, r, s, v, ruta]

VARIABLES
    programa,   \* its instructions
    tam,        \* the bytes of the process
    pc, regs, mem,
    volcado,    \* what the last DUMP_MEMORY copied
    estado      \* "corre", or why it runs no more

vars == <<programa, tam, pc, regs, mem, volcado, estado>>

Generales == {"AX", "BX"}
Cero      == [r \in Generales |-> 0]
Limpia    == [d \in 0 .. tam - 1 |-> 0]

Init ==
    /\ programa \in Seq(Instrucciones)
    /\ tam \in Nat
    /\ pc = 0 /\ regs = Cero /\ mem = Limpia
    /\ volcado = <<>> /\ estado = "corre"

EnPrograma == pc \in 0 .. Len(programa) - 1
i          == programa[pc + 1]
Valor(r)   == IF r = "PC" THEN pc ELSE regs[r]

\* Nothing is said of registers and bytes any more.
Termina(e) == estado' = e

\* The instruction assigns x to its register; assigning PC is a jump.
Asigna(x) ==
    /\ IF i.r = "PC" THEN pc' = x + 1 /\ UNCHANGED regs
       ELSE pc' = pc + 1 /\ regs' = [regs EXCEPT ![i.r] = x]
    /\ UNCHANGED <<mem, volcado, estado>>

Calcula ==
    \/ i.op = "SET" /\ Asigna(i.v)
    \/ i.op = "SUM" /\ Asigna(Valor(i.r) + Valor(i.s))
    \/ i.op = "SUB" /\ Asigna(Valor(i.r) - Valor(i.s))

SinEfecto ==
    {"LOG", "IO", "MUTEX_CREATE", "MUTEX_LOCK", "MUTEX_UNLOCK", "THREAD_CANCEL",
     "PROCESS_CREATE"}

Sigue ==
    /\ i.op \in SinEfecto
    /\ pc' = pc + 1
    /\ UNCHANGED <<regs, mem, volcado, estado>>

\* FIBO_10:16 closes its loop with "JNZ DX 6".
Salta ==
    /\ i.op = "JNZ"
    /\ pc' = IF Valor(i.r) # 0 THEN i.v ELSE pc + 1
    /\ UNCHANGED <<regs, mem, volcado, estado>>

Direccion == Valor(IF i.op = "WRITE_MEM" THEN i.r ELSE i.s)
Accede    == i.op \in {"WRITE_MEM", "READ_MEM"}
Permitida == Direccion \in 0 .. tam - 1

\* A word is four bytes, the highest first.
Palabra(d) == mem[d] * 256 ^ 3 + mem[d + 1] * 256 ^ 2 + mem[d + 2] * 256 + mem[d + 3]

\* RECURSOS_MUTEX_PROC:14-15 reads a word and logs it.  Of a word that does not
\* fit in the process, only which register it goes to.
Carga ==
    /\ i.op = "READ_MEM" /\ Permitida
    /\ IF Direccion + 3 < tam THEN Asigna(Palabra(Direccion))
       ELSE /\ i.r # "PC" => pc' = pc + 1
            /\ \A r \in Generales \ {i.r} : regs'[r] = regs[r]
            /\ UNCHANGED <<mem, volcado, estado>>

\* What does not fit in the process is not its memory any more.
Guarda ==
    /\ i.op = "WRITE_MEM" /\ Permitida
    /\ mem' = [d \in DOMAIN mem |->
                  IF d \in Direccion .. Direccion + 3
                  THEN (Valor(i.s) \div (256 ^ (3 - (d - Direccion)))) % 256 ELSE mem[d]]
    /\ pc' = pc + 1
    /\ UNCHANGED <<regs, volcado, estado>>

Falla == Accede /\ ~Permitida /\ Termina("falla") /\ UNCHANGED volcado

\* The program goes on after its dump (FIBO_10:17-18).
Vuelca ==
    /\ i.op = "DUMP_MEMORY"
    /\ volcado' = mem /\ pc' = pc + 1
    /\ UNCHANGED <<regs, mem, estado>>

Sale == i.op \in {"THREAD_EXIT", "PROCESS_EXIT"} /\ Termina("fin") /\ UNCHANGED volcado

\* From here on nothing is promised: the thread has company or waits for another.
Pierde == Termina("fuera") /\ UNCHANGED volcado

Corre ==
    /\ estado = "corre"
    /\ \/ EnPrograma /\ (Calcula \/ Sigue \/ Salta \/ Carga \/ Guarda \/ Falla \/ Vuelca
                         \/ Sale)
       \/ ~EnPrograma /\ Termina("agotado") /\ UNCHANGED volcado
       \/ Pierde
    /\ UNCHANGED <<programa, tam>>

\* Afterwards other threads may have the registers, the bytes and the dump.
Fuera == estado # "corre" /\ UNCHANGED <<programa, tam, estado>>

Next == Corre \/ Fuera

Spec == Init /\ [][Next]_vars
=============================================================================
