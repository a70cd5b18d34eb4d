\* Headers are 8 symbols and more, so they fall on every place of the buffer.
CONSTANTS
    Streams <- MCStreams
    BufferSizes = {10, 11, 12, 13, 14, 15, 20}
    SizeBits = 3
    process_filename_num_threads = 2
    process_file_type_num_threads = 2
SPECIFICATION InputSpec
INVARIANTS
    PushedIntact
    NamesRestored
PROPERTIES
    Delivered
    
CHECK_DEADLOCK FALSE
