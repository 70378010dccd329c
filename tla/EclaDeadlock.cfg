SPECIFICATION EclaSpec
CONSTANTS
    Links = {"c1", "c2"}
    LayerNames = {"lora"}
    Submissions = {"s1"}
    MaxRegisters = 1
PROPERTY RegisterAnswered
CHECK_DEADLOCK FALSE
