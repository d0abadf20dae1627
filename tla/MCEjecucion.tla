---------------------------- MODULE MCEjecucion ----------------------------
(***************************************************************************)
(* Instances of Ejecucion.  EnsayosCortos are every program of two         *)
(* instructions of a small repertoire, every one of three of those that    *)
(* compute, and a few with every interference of the planner, all of them  *)
(* with a PROCESS_EXIT at the end; EnsayoDeLectura reads what it wrote;    *)
(* EnsayoDeDos creates a process.                                          *)
(***************************************************************************)
EXTENDS Ejecucion

I(op, r, s, v) == [op |-> op, r |-> r, s |-> s, v |-> v, ruta |-> 2]
Sola(op)       == I(op, "AX", "AX", 0)

\* 16909060 is the word of the bytes 1, 2, 3, 4; 4 is past the limit of a
\* process of four bytes and not of one of six.
Repertorio ==
    {I("SET", "AX", "AX", 4), I("SET", "BX", "AX", 16909060), I("SET", "PC", "AX", 2),
     I("SUM", "BX", "AX", 0), I("SUB", "AX", "BX", 0), I("WRITE_MEM", "AX", "BX", 0),
     I("READ_MEM", "BX", "AX", 0), I("THREAD_CANCEL", "AX", "AX", 1),
     [I("THREAD_CREATE", "AX", "AX", 0) EXCEPT !.ruta = 3]}
    \cup {Sola(op) : op \in Operaciones \ {"SET", "SUM", "SUB", "WRITE_MEM", "READ_MEM",
                                           "THREAD_CANCEL"}}

Otro == <<Sola("LOG"), Sola("THREAD_EXIT")>>

Ensayo(p, n, desaloja) ==
    [Programas |-> <<Append(p, Sola("PROCESS_EXIT")), Otro>>, Size |-> n,
     Desaloja |-> desaloja]

DeCalculo == {"SET", "SUM", "SUB", "WRITE_MEM", "READ_MEM", "JNZ", "DUMP_MEMORY"}
Calculo   == {x \in Repertorio : x.op \in DeCalculo}
Solitario == {Sola("THREAD_CREATE"), Sola("PROCESS_CREATE"), Sola("THREAD_JOIN")}

\* The first thread goes on in the program of the second, with a SET in hand
\* when the planner sends the other one.
SinContexto ==
    [Programas |-> <<<<Sola("PROCESS_CREATE")>>, <<Sola("LOG"), I("SET", "AX", "AX", 1)>>>>,
     Size |-> 4, Desaloja |-> TRUE]

EnsayosCortos ==
    {Ensayo(<<a, b>>, n, FALSE) : a \in Repertorio, b \in Repertorio, n \in {4, 6}}
    \cup {Ensayo(<<a, b, c>>, n, FALSE) :
             a \in Calculo, b \in Calculo, c \in Calculo, n \in {4, 6}}
    \cup {Ensayo(<<a, b>>, 4, TRUE) :
             a \in Solitario, b \in {Sola("WRITE_MEM"), Sola("THREAD_EXIT")}}
    \cup {SinContexto}

EnsayoDeLectura ==
    {Ensayo(<<I("SET", "BX", "AX", 16909060), I("WRITE_MEM", "AX", "BX", 0),
              I("SUB", "BX", "BX", 0), I("READ_MEM", "BX", "AX", 0)>>, 6, FALSE)}

EnsayoDeDos ==
    {[Programas |-> <<<<Sola("PROCESS_CREATE"), Sola("LOG"), Sola("PROCESS_EXIT")>>,
                      <<I("SET", "AX", "AX", 1), I("SET", "BX", "AX", 2),
                        Sola("PROCESS_EXIT")>>>>,
      Size |-> 4, Desaloja |-> FALSE]}
=============================================================================
