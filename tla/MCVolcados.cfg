SPECIFICATION SpecJusta
CONSTANTS
    a = a
    b = b
    c = c
    Pedidos = {a, b, c}
    Nadie = Nadie
    Casos <- LosPedidos
    Block_Count = 8
    Block_Size = 2
    MaxCaidas = 1
    FallaElDisco = TRUE
INVARIANTS
    TypeOK
    ReservaCompleta
    SinCompartir
    EscritoMarcado
    ArchivoIntegro
PROPERTIES
    CumplePromesa
    TodoPedidoTermina
